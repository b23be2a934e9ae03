---------------------------- MODULE NativeConstants ----------------------------
(***************************************************************************)
(* Where a native draw's constants are (NativeGeometryPass::Record,         *)
(* NativeConstantUploadPool and the packet memos): each stage's packet is   *)
(* copied to a slice of a pooled page, or the slice of an equal packet of   *)
(* the same frame is bound again, and the GPU reads the slices until the    *)
(* frame is done.  The packet is its content; a slice holds one packet.     *)
(***************************************************************************)
EXTENDS Integers, Sequences, FiniteSets, Functions

CONSTANTS
  Packets,     (* what a packet may hold                                     *)
  Empty,       (* a slice nothing was written to                             *)
  PageIds,     (* bound: pages that can exist at a time                      *)
  PageSlices,  (* slices of a page                                           *)
  Switches,    (* bound: sets of memos that are switched on for a draw       *)
  GpuBudget,   (* gpu_byte_budget_ in pages                                  *)
  MaxFrames,   (* bound: frames of a behaviour                               *)
  MaxBound     (* bound: bindings the GPU may still read                     *)

ASSUME NativeConstantsAssumption ==
  /\ Empty \notin Packets
  /\ Switches \subseteq SUBSET {"pixel", "vertex"}
  /\ PageIds \subseteq Nat \ {0} /\ IsFiniteSet(PageIds)
  /\ PageSlices \in Nat \ {0} /\ GpuBudget \in Nat
  /\ MaxFrames \in Nat /\ MaxBound \in Nat

VARIABLES
  frame,     (* frame_current_, frame_completed_, and the last frame done   *)
  pool,      (* the pool's two lists, its open page and its latches         *)
  pages,     (* each page's heap, last frame and contents                   *)
  memo,      (* the pixel and the vertex memo                               *)
  bound      (* recorded bindings of frames the GPU is not done with                  *)

vars == <<frame, pool, pages, memo, bound>>

NoPage == [heap |-> "none", last |-> 0, slices |-> [s \in 1 .. PageSlices |-> Empty]]

(* A slice's address: of a page, or (page 0) of the command processor's own *)
(* pool, and then the frame that slice belongs to and what it holds.        *)
Address(page, slice, sdk) == [page |-> page, slice |-> slice, sdk |-> sdk]
NoSlice == Address(0, 0, Empty)
NoMemo == [frame |-> 0, packet |-> Empty, address |-> NoSlice]

Init ==
  /\ frame = [current |-> 1, completed |-> 0, done |-> 0]
  /\ pool = [writable |-> <<>>, submitted |-> <<>>, used |-> 0, gpu_failed |-> FALSE,
             disabled |-> FALSE, shutdown |-> FALSE]
  /\ pages = [id \in PageIds |-> NoPage]
  /\ memo = [pixel |-> NoMemo, vertex |-> NoMemo]
  /\ bound = {}

-----------------------------------------------------------------------------
(* NativeConstantUploadPool.  A draw works on the pool, the pages, the      *)
(* memos and the bindings made so far.                                      *)

Draw == [pool |-> pool, pages |-> pages, memo |-> memo, bind |-> {}, ok |-> TRUE]

Held(d, heaps) == {id \in PageIds : d.pages[id].heap \in heaps}
HeldPages(d) == Cardinality(Held(d, {"gpu", "gpu_retained"}))

(* GraphicsUploadBufferPool::Request retires an open page that is full.     *)
NeedsPage(p) == p.writable = <<>> \/ p.used = PageSlices
Retired(p) ==
  IF p.writable = <<>> THEN p
  ELSE [p EXCEPT !.submitted = Append(@, Head(p.writable)), !.writable = Tail(@)]

(* Mutant of BudgetAvailable: the page itself is not counted. *)
BudgetAvailableBefore(d) == HeldPages(d) <= GpuBudget

(* CreatePageImplementation's budget.  An adapter without the heap has 0.   *)
BudgetAvailable(d) == HeldPages(d) + 1 <= GpuBudget

(* A page of a heap it may be in; one failure of GPU_UPLOAD is remembered.  *)
CreatePage(d) ==
  LET tried == ~d.pool.gpu_failed /\ BudgetAvailable(d)
      free == Held(d, {"none"})
      id == CHOOSE i \in free : \A j \in free : i <= j
  IN IF free = {} THEN {}
     ELSE {[d EXCEPT !.pool = [Retired(d.pool) EXCEPT
                                 !.writable = <<id>>, !.used = 0,
                                 !.gpu_failed = @ \/ (tried /\ heap = "upload")],
                     !.pages[id] = [NoPage EXCEPT !.heap = heap]]
             : heap \in IF tried THEN {"gpu", "upload"} ELSE {"upload"}}

(* With an open page that has room: this one, the next one, or a new one.   *)
WithRoom(d) ==
  IF ~NeedsPage(d.pool) THEN {d}
  ELSE IF Retired(d.pool).writable # <<>> THEN {[d EXCEPT !.pool = [Retired(@) EXCEPT !.used = 0]]}
  ELSE CreatePage(d)

(* Mutant of Tag: a page keeps the frame it was opened in. *)
TagOnce(last) == IF last = 0 THEN frame.current ELSE last

(* "Tagged with the frame, not the submission".                             *)
Tag(last) == frame.current

Slice(d, address) == [draw |-> d, address |-> address]

Served(d) ==
  LET page == Head(d.pool.writable)
      slice == d.pool.used + 1
  IN Slice([d EXCEPT !.pool.used = slice, !.pages[page].last = Tag(d.pages[page].last)],
           Address(page, slice, Empty))

(* No page could be created: the open page is on the submitted list, and    *)
(* the pool serves nothing from now on.                                     *)
Refused(d) ==
  [d EXCEPT !.pool = IF @.disabled THEN @
                     ELSE [Retired(@) EXCEPT !.disabled = TRUE, !.used = 0]]

(* RequestConstantSlice: the native pool, then the command processor's own, *)
(* whose slice is immutable for the frame by its contract, or no slice.     *)
Slices(d, packet) ==
  LET full == NeedsPage(d.pool) /\ Retired(d.pool).writable = <<>>
  IN (IF d.pool.disabled THEN {} ELSE {Served(r) : r \in WithRoom(d)}) \union
     (IF ~d.pool.disabled /\ ~full THEN {}
      ELSE {Slice(Refused(d), a) : a \in {NoSlice, Address(0, frame.current, packet)}})

InPool(address) == address.page # 0
Written(pgs, address, packet) ==
  IF InPool(address) THEN [pgs EXCEPT ![address.page].slices[address.slice] = packet]
  ELSE pgs
Content(address) ==
  IF InPool(address) THEN pages[address.page].slices[address.slice] ELSE address.sdk

Reclaimable(id) == pages[id].last <= frame.completed

(* ReclaimCompleted: the submitted pages up to the first that is in use.    *)
ReclaimedPages ==
  LET n == CHOOSE k \in 0 .. Len(pool.submitted) :
             /\ \A i \in 1 .. k : Reclaimable(pool.submitted[i])
             /\ k < Len(pool.submitted) => ~Reclaimable(pool.submitted[k + 1])
  IN SubSeq(pool.submitted, 1, n)

-----------------------------------------------------------------------------
(* Record.  A stage's memo is in use when its switch is on and the layout   *)
(* of the packet proves that every byte of it is filled; otherwise it is    *)
(* reset.                                                                   *)

(* NativePixelConstantReuse::Find, NativeVertexConstantReuse::Find.         *)
Hit(found, packet) == found.frame = frame.current /\ found.packet = packet

(* Publish: the packet becomes the one a later packet is compared with.     *)
Published(found, packet, address) ==
  [frame |-> frame.current, packet |-> packet, address |-> address]

Bind(d, address, packet) ==
  [d EXCEPT !.bind = @ \union {[frame |-> frame.current, address |-> address, packet |-> packet]}]

(* A slice of the stage's own is filled, and published if complete; without *)
(* one the draw stays emulated.                                             *)
Fill(s, m, packet, reuse) ==
  IF s.address = NoSlice
  THEN [s.draw EXCEPT !.ok = FALSE,
                      !.memo[m] = IF m = "vertex" THEN NoMemo ELSE @]
  ELSE Bind([s.draw EXCEPT !.pages = Written(@, s.address, packet),
                           !.memo[m] = IF reuse THEN Published(@, packet, s.address)
                                       ELSE NoMemo],
            s.address, packet)

(* upload_stage.                                                            *)
UploadStage(d, m, packet, reuse) ==
  IF reuse /\ Hit(d.memo[m], packet)
  THEN {Bind(d, d.memo[m].address, packet)}
  ELSE {Fill(s, m, packet, reuse) : s \in Slices(d, packet)}

(* The root constants' slice, which no memo covers.                         *)
UploadRoot(d, packet) ==
  {IF s.address = NoSlice THEN [s.draw EXCEPT !.ok = FALSE]
   ELSE Bind([s.draw EXCEPT !.pages = Written(@, s.address, packet)], s.address, packet)
     : s \in Slices(d, packet)}

(* Record: without a reader of b2 (no pixel packet) the pixel stage is      *)
(* given b1's slice.  A draw that is refused, for a slice or for its vertex *)
(* ranges, binds nothing, but its slices are taken and its packets stay     *)
(* published.  The root constants are in the command list or in a slice.    *)
Record(vertex, pixel, reuse, ranges, root) ==
  /\ ~pool.shutdown
  /\ LET Usable(m) == IF m \in reuse THEN memo[m] ELSE NoMemo
         start == [Draw EXCEPT !.memo = [pixel |-> Usable("pixel"), vertex |-> Usable("vertex")]]
     IN \E v \in UploadStage(start, "vertex", vertex, "vertex" \in reuse) :
        \E p \in IF v.ok /\ pixel # Empty THEN UploadStage(v, "pixel", pixel, "pixel" \in reuse)
                  ELSE {v} :
        \E d \in IF p.ok /\ ranges /\ root THEN UploadRoot(p, vertex) ELSE {p} :
          /\ pool' = d.pool /\ pages' = d.pages /\ memo' = d.memo
          /\ bound' = IF d.ok /\ ranges THEN bound \union d.bind ELSE bound
          /\ Cardinality(bound') <= MaxBound
  /\ UNCHANGED frame

-----------------------------------------------------------------------------
(* Frames, the GPU, and the end. *)

(* IssueSwap: the frame is closed, then the pool is told what completed.    *)
(* What a reclaimed page held is nobody's any more.                         *)
Swap ==
  /\ ~pool.shutdown /\ frame.current < MaxFrames
  /\ frame' = [frame EXCEPT !.current = @ + 1]
  /\ LET freed == ReclaimedPages
     IN /\ pool' = [pool EXCEPT !.writable = @ \o freed,
                                !.submitted = SubSeq(@, Len(freed) + 1, Len(@))]
        /\ pages' = [id \in PageIds |->
                       IF id \in Range(freed) THEN [NoPage EXCEPT !.heap = pages[id].heap]
                       ELSE pages[id]]
  /\ UNCHANGED <<memo, bound>>

(* BeginSubmission reads the fence.                                         *)
CheckCompleted ==
  /\ ~pool.shutdown
  /\ frame' = [frame EXCEPT !.completed = frame.done]
  /\ UNCHANGED <<pool, pages, memo, bound>>

(* The GPU reads what a frame bound at any time until it is done with it.   *)
GpuFrameDone ==
  /\ frame.done + 1 < frame.current
  /\ frame' = [frame EXCEPT !.done = @ + 1]
  /\ bound' = {b \in bound : b.frame > frame.done + 1}
  /\ UNCHANGED <<pool, pages, memo>>

(* Resources are detached on both lists, not destroyed, without the proof.  *)
AfterShutdown(heap, proven) ==
  IF proven THEN "released" ELSE IF heap = "gpu" THEN "gpu_retained" ELSE "retained"

(* ShutdownContext: completion_proven says that the GPU has read it all.    *)
Shutdown(proven) ==
  /\ ~pool.shutdown
  /\ bound' = IF proven THEN {} ELSE bound
  /\ pool' = [pool EXCEPT !.writable = <<>>, !.submitted = <<>>,
                          !.disabled = TRUE, !.shutdown = TRUE]
  /\ pages' = [id \in PageIds |->
                 IF pages[id].heap = "none" THEN pages[id]
                 ELSE [pages[id] EXCEPT !.heap = AfterShutdown(@, proven)]]
  /\ UNCHANGED <<frame, memo>>

Next ==
  \/ \E v \in Packets, p \in Packets \union {Empty}, reuse \in Switches :
       \/ Record(v, p, reuse, FALSE, FALSE)
       \/ \E root \in BOOLEAN : Record(v, p, reuse, TRUE, root)
  \/ Swap \/ CheckCompleted \/ GpuFrameDone
  \/ \E proven \in BOOLEAN : Shutdown(proven)

Spec == Init /\ [][Next]_vars

-----------------------------------------------------------------------------
(* Properties. *)

Listed == Range(pool.writable) \union Range(pool.submitted)

(* Every variable keeps its shape, and every page is on one of the lists.   *)
TypeOK ==
  /\ frame.completed <= frame.done /\ frame.done < frame.current
  /\ pool.used \in 0 .. PageSlices
  /\ pool.disabled /\ pool.writable = <<>> /\ ~pool.shutdown => pool.used = 0
  /\ Cardinality(Listed) = Len(pool.writable) + Len(pool.submitted)
  /\ Listed = {id \in PageIds : pages[id].heap \in {"gpu", "upload"}}

(* "The address returned here stays immutable for as long as the GPU can    *)
(* read it": what a recorded draw was bound to is there when it is read,    *)
(* whether it was uploaded for it or for an earlier draw.                   *)
SliceIsImmutable ==
  \A b \in bound :
    /\ Content(b.address) = b.packet
    /\ IF InPool(b.address) THEN pages[b.address.page].heap # "released"
       ELSE b.address.slice = b.frame

(* "A byte budget stops new GPU_UPLOAD pages once it is reached", pages     *)
(* retained without proof included.                                         *)
BudgetHolds == HeldPages(Draw) <= GpuBudget

(* The pool: every page it holds is on one list, within the budget, and an  *)
(* open page is filled from its start, also after a failed creation.        *)
PoolInv ==
  /\ TypeOK
  /\ BudgetHolds

=============================================================================
