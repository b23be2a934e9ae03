----------------------------- MODULE SharedMemory -----------------------------
(***************************************************************************)
(* The GPU's copy of the guest's physical memory (SharedMemory and          *)
(* D3D12SharedMemory under src/src/gpu/vendored, with NativeUploadShadow    *)
(* and NativeSharedResidencyMirror).  The CP thread makes pages resident,   *)
(* guest threads write them behind write watches, the GPU writes some of    *)
(* them, and an explicit invalidation may come from any thread.  A page of  *)
(* guest memory is the number of writes made to it, so that content never   *)
(* repeats; the buffer is what it holds once the recorded commands ran.     *)
(***************************************************************************)
EXTENDS Integers, Sequences, FiniteSetsExt, Functions

CONSTANTS
  NumPages,      (* bound: pages of guest memory                            *)
  BlockPages,    (* pages of a validity word, the widest invalidation       *)
  CapPages,      (* pages of a block of nb_native_narrow_invalidation       *)
  ChunkPages,    (* pages of NativeUploadShadow::kSnapshotBytes             *)
  Threads,       (* guest threads                                           *)
  NoThread,      (* the global critical region is free                      *)
  MaxPending,    (* kMaxPendingInvalidations                                *)
  MirrorModes,   (* values nb_native_shared_residency_mirror takes          *)
  ShadowModes,   (* values nb_native_upload_shadow takes                    *)
  MaxWrites      (* bound: guest writes in a behaviour                      *)

Pages == 0 .. NumPages - 1

ASSUME SharedMemoryAssumption ==
  /\ NumPages \in Nat \ {0} /\ MaxWrites \in Nat /\ MaxPending \in Nat
  /\ BlockPages \in Nat \ {0} /\ CapPages \in Nat \ {0}
  /\ ChunkPages \in Nat \ {0}
  /\ NoThread \notin Threads
  /\ MirrorModes \in SUBSET BOOLEAN /\ ShadowModes \in SUBSET BOOLEAN

VARIABLES
  guest,     (* guest memory: the version of each page                      *)
  buffer,    (* the version of the CPU's bytes in each page of buffer_      *)
  gpuData,   (* the pages of buffer_ that hold something the GPU wrote      *)
  valid,     (* system_page_flags_valid_                                    *)
  written,   (* system_page_flags_valid_and_gpu_written_                    *)
  watched,   (* pages the runtime protects against guest writes             *)
  mirror,    (* native_residency_mirror_'s bits                             *)
  shadow,    (* upload_shadow_'s bytes for each page, or Absent             *)
  tokens,    (* the epochs a request keeps that are still the current one   *)
  modes,     (* native_residency_requested_ and upload_shadow_requested_    *)
  notices,   (* what the watches' callbacks left for the native renderer    *)
  lock,      (* the guest thread in the global critical region              *)
  cp,        (* the CP thread: its position, request and result             *)
  thread     (* each guest thread: its position, page and range             *)

memoryVars == <<guest, buffer, gpuData>>
flagVars == <<valid, written, watched>>
cacheVars == <<mirror, shadow, tokens, modes>>
guestVars == <<lock, thread>>
vars == <<memoryVars, flagVars, cacheVars, notices, cp, guestVars>>

Absent == -1
Unwritten == -1

IdleCp == [pc |-> "idle", write |-> FALSE, since |-> <<>>, want |-> {},
           need |-> {}, todo |-> {}, run |-> {}, left |-> {}, snap |-> <<>>,
           mirrored |-> FALSE, shadowed |-> FALSE, retry |-> FALSE, ok |-> FALSE]
IdleThread == [pc |-> "idle", page |-> 0, range |-> {}]

(* g_residency_watch and its queue, and what the asset cache keeps with a   *)
(* version of some pages, as long as the pages have that version.           *)
NoNotices == [registered |-> FALSE, pending |-> <<>>, overflow |-> FALSE,
              current |-> {}]

Init ==
  /\ guest = [p \in Pages |-> 0]
  /\ buffer = [p \in Pages |-> Unwritten]
  /\ gpuData = {} /\ valid = {} /\ written = {} /\ watched = {}
  /\ mirror = {} /\ shadow = [p \in Pages |-> Absent] /\ tokens = {}
  /\ modes = [mirror |-> FALSE, shadow |-> FALSE]
  /\ notices = NoNotices
  /\ lock = NoThread
  /\ cp = IdleCp
  /\ thread = [t \in Threads |-> IdleThread]

-----------------------------------------------------------------------------
(* What the operations share.  A critical region of the CP is one step.     *)

Free == lock = NoThread
At(pc) == cp.pc = pc
Goto(pc) == cp' = [cp EXCEPT !.pc = pc]
Return(ok) == cp' = [IdleCp EXCEPT !.pc = "returned", !.ok = ok,
                                   !.write = cp.write, !.since = cp.since]

(* The pages from the lowest of S on that follow each other within S.      *)
FirstRun(S) == {p \in S : Min(S) .. p \subseteq S}
Word(p) == {q \in Pages : q \div BlockPages = p \div BlockPages}

(* AdvanceEpoch with Reset's or Invalidate's loss of the pages' identity.   *)
ForgetShadow(range) ==
  /\ shadow' = [p \in Pages |-> IF p \in range THEN Absent ELSE shadow[p]]
  /\ tokens' = {}

(* ResidencyInvalidated. *)
ResidencyInvalidated(n, range) ==
  IF ~n.registered THEN n
  ELSE IF Len(n.pending) < MaxPending
       THEN [n EXCEPT !.pending = Append(@, range)]
       ELSE [n EXCEPT !.overflow = TRUE]

(* NativeAssetCache::Impl::Invalidated: the pages get a version above any.  *)
AssetInvalidated(n, range) ==
  [n EXCEPT !.current = {v \in @ : v.pages \intersect range = {}}]

(* The global and the range watches.  UploadShadowInvalidated forgets what  *)
(* the GPU wrote and what is invalidated as a whole: "ordinary CPU writes   *)
(* leave the queued GPU bytes unchanged".                                   *)
FireWatches(range, by_cpu_write) ==
  /\ notices' = AssetInvalidated(ResidencyInvalidated(notices, range), range)
  /\ IF modes.shadow /\ ~by_cpu_write THEN ForgetShadow(range)
     ELSE UNCHANGED <<shadow, tokens>>

(* MakeRangeValid's critical region; the watch is enabled after it.         *)
MakeRangeValid(range, by_gpu) ==
  /\ mirror' = mirror \ range
  /\ valid' = valid \union range
  /\ written' = IF by_gpu THEN written \union range ELSE written \ range

(* EnablePhysicalMemoryAccessCallbacks.                                     *)
EnableWatch(range) == Free /\ watched' = watched \union range

-----------------------------------------------------------------------------
(* RequestRanges. *)

(* A caller asks for pages to read, or to write by the GPU; what it has to *)
(* see is what guest memory holds now.  PrepareNativeResidencyRequest.     *)
Request(want, write) ==
  /\ At("idle")
  /\ \E mirrored \in MirrorModes :
       /\ mirrored = modes.mirror \/ Free
       /\ modes' = [modes EXCEPT !.mirror = mirrored]
       /\ mirror' = IF mirrored = modes.mirror THEN mirror ELSE {}
       /\ cp' = [IdleCp EXCEPT !.pc = IF mirrored THEN "mirror" ELSE "scan",
                               !.mirrored = mirrored, !.write = write,
                               !.want = want, !.left = IF mirrored THEN want
                                                       ELSE {},
                               !.since = [p \in want |-> guest[p]]]
  /\ UNCHANGED <<memoryVars, flagVars, shadow, tokens, notices, guestVars>>

(* NativeSharedResidencyMirror::Contains, lock-free and word by word.       *)
CheckMirror ==
  /\ At("mirror")
  /\ LET word == cp.left \intersect Word(Min(cp.left))
     IN IF ~(word \subseteq mirror)
        THEN cp' = [cp EXCEPT !.pc = "scan", !.left = {}]
        ELSE IF cp.left = word THEN Return(TRUE)
        ELSE cp' = [cp EXCEPT !.left = @ \ word]
  /\ UNCHANGED <<memoryVars, flagVars, cacheVars, notices, guestVars>>

AllocationFailure ==
  /\ At("scan")
  /\ Return(FALSE)
  /\ UNCHANGED <<memoryVars, flagVars, cacheVars, notices, guestVars>>

(* PromoteValidWord: pages found valid, never pages this request uploads.   *)
Promoted == IF cp.mirrored THEN cp.want \intersect valid ELSE {}

Scan ==
  /\ At("scan") /\ Free
  /\ mirror' = mirror \union Promoted
  /\ IF cp.want \subseteq valid THEN Return(TRUE)
     ELSE cp' = [cp EXCEPT !.pc = "upload", !.need = cp.want \ valid,
                           !.todo = cp.want \ valid]
  /\ UNCHANGED <<memoryVars, flagVars, shadow, tokens, modes, notices,
                 guestVars>>

-----------------------------------------------------------------------------
(* UploadRanges. *)

(* UpdateUploadShadow, and the request's epoch.  A shadow that could not be *)
(* allocated is one that is not requested.                                  *)
BeginUpload ==
  /\ At("upload")
  /\ IF cp.retry
     THEN Goto("alloc") /\ UNCHANGED <<shadow, tokens, modes>>
     ELSE \E shadowed \in ShadowModes :
            /\ Free
            /\ modes' = [modes EXCEPT !.shadow = shadowed]
            /\ shadow' = IF shadowed = modes.shadow THEN shadow
                         ELSE [p \in Pages |-> Absent]
            /\ tokens' = IF shadowed THEN {"request"} ELSE {}
            /\ cp' = [cp EXCEPT !.pc = "alloc", !.shadowed = shadowed]
  /\ UNCHANGED <<memoryVars, flagVars, mirror, notices, guestVars>>

(* RequestPartial gives as much of the next range as it likes, or nothing.  *)
UploadFailure ==
  /\ At("alloc")
  /\ Return(FALSE)
  /\ UNCHANGED <<memoryVars, flagVars, cacheVars, notices, guestVars>>

AllocateRun ==
  /\ At("alloc") /\ Free
  /\ \E last \in FirstRun(cp.todo) :
       LET run == Min(cp.todo) .. last
       IN /\ MakeRangeValid(run, FALSE)
          /\ cp' = [cp EXCEPT !.pc = "protect", !.run = run, !.left = run,
                              !.todo = @ \ run]
  /\ UNCHANGED <<memoryVars, watched, shadow, tokens, modes, notices, guestVars>>

(* Mutant of Protect: the copy may run ahead of the watch. *)
ProtectNothing ==
  /\ At("protect")
  /\ Goto(IF cp.shadowed THEN "inspect" ELSE "copy")
  /\ UNCHANGED <<memoryVars, flagVars, cacheVars, notices, guestVars>>

Protect ==
  /\ At("protect")
  /\ EnableWatch(cp.run)
  /\ Goto(IF cp.shadowed THEN "inspect" ELSE "copy")
  /\ UNCHANGED <<memoryVars, valid, written, cacheVars, notices, guestVars>>

(* After some pages of the run: the rest of it, the next run, or the end.   *)
Proceed(done) ==
  LET left == cp.left \ done
      next == IF left # {} THEN [cp EXCEPT !.left = left, !.snap = <<>>,
                                           !.pc = IF cp.shadowed
                                                  THEN "inspect" ELSE "copy"]
              ELSE [cp EXCEPT !.left = {}, !.snap = <<>>, !.run = {},
                              !.pc = IF cp.todo # {} THEN "alloc" ELSE "finish"]
  IN IF next.pc = "finish" /\ ~cp.shadowed THEN Return(TRUE) ELSE cp' = next

Chunk == {p \in FirstRun(cp.left) : p < Min(cp.left) + ChunkPages}

(* memcpy from guest memory, outside any lock, and D3DCopyBufferRegion.     *)
CopyPage(p) ==
  /\ buffer' = [buffer EXCEPT ![p] = guest[p]]
  /\ gpuData' = gpuData \ {p}

Copy ==
  /\ At("copy")
  /\ CopyPage(Min(cp.left))
  /\ Proceed({Min(cp.left)})
  /\ UNCHANGED <<guest, flagVars, cacheVars, notices, guestVars>>

(* Mutant of Changed: a page without a published identity counts as equal. *)
ChangedOrAbsentIsEqual(range) == {q \in range : shadow[q] \notin {Absent, guest[q]}}

(* ClassifyUploadPages.                                                     *)
Changed(range) == {q \in range : shadow[q] # guest[q]}

(* UploadRangesWithShadow: VisitCpuAuthoritativeRange on the next chunk,    *)
(* whose pages must be valid and not the GPU's.                             *)
CpuAuthoritative(range) == range \subseteq valid \ written

Capture ==
  /\ At("inspect") /\ Free
  /\ CpuAuthoritative(Chunk)
  /\ tokens' = tokens \union {"capture"}
  /\ cp' = [cp EXCEPT !.pc = "changed",
                      !.snap = [p \in Changed(Chunk) |-> guest[p]]]
  /\ UNCHANGED <<memoryVars, flagVars, mirror, shadow, modes, notices,
                 guestVars>>

RefuseCapture ==
  /\ At("inspect") /\ Free
  /\ ~CpuAuthoritative(Chunk)
  /\ Goto("refused")
  /\ UNCHANGED <<memoryVars, flagVars, cacheVars, notices, guestVars>>

(* Mutant of ForgetRefused: the refused pages keep their identity. *)
ForgetNoRefused ==
  /\ At("refused") /\ Free
  /\ tokens' = {}
  /\ cp' = [cp EXCEPT !.pc = "fallback", !.run = Chunk]
  /\ UNCHANGED <<memoryVars, flagVars, mirror, shadow, modes, notices,
                 guestVars>>

ForgetRefused ==
  /\ At("refused") /\ Free
  /\ ForgetShadow(Chunk)
  /\ cp' = [cp EXCEPT !.pc = "fallback", !.run = Chunk]
  /\ UNCHANGED <<memoryVars, flagVars, mirror, modes, notices, guestVars>>

(* The SDK's copy of the pages that could not be captured.                  *)
FallbackCopy ==
  /\ At("fallback")
  /\ CopyPage(Min(cp.run))
  /\ IF Cardinality(cp.run) > 1
     THEN cp' = [cp EXCEPT !.run = @ \ {Min(cp.run)}, !.left = @ \ {Min(cp.run)}]
     ELSE Proceed(cp.run)
  /\ UNCHANGED <<guest, flagVars, cacheVars, notices, guestVars>>

(* Publish accepts only the epoch the bytes were captured in.               *)
Publishable == "capture" \in tokens

(* The changed pages are copied from the captured bytes, then published;    *)
(* a bounded shadow evicts others for them.                                 *)
CopyChanged ==
  /\ At("changed") /\ Free
  /\ LET changed == DOMAIN cp.snap
     IN /\ buffer' = [p \in Pages |-> IF p \in changed THEN cp.snap[p]
                                      ELSE buffer[p]]
        /\ gpuData' = gpuData \ changed
        /\ IF ~Publishable THEN UNCHANGED shadow
           ELSE \E kept \in SUBSET (Pages \ changed) :
                  shadow' = [p \in Pages |-> IF p \in changed THEN cp.snap[p]
                                             ELSE IF p \in kept THEN shadow[p]
                                             ELSE Absent]
        /\ Proceed(Chunk)
  /\ UNCHANGED <<guest, flagVars, mirror, tokens, modes, notices, guestVars>>

(* No GPU write or reset came since the request took its epoch.             *)
Undisturbed == "request" \in tokens

(* Mutant of FinishShadow: the retry is an ordinary request. *)
FinishShadowAgain ==
  /\ At("finish") /\ Free
  /\ IF Undisturbed THEN Return(TRUE) /\ UNCHANGED <<shadow, tokens>>
     ELSE \/ /\ Return(FALSE)
             /\ ForgetShadow(Pages)
          \/ /\ cp' = [cp EXCEPT !.pc = "scan", !.want = cp.need, !.need = {}]
             /\ ForgetShadow(cp.need)
  /\ UNCHANGED <<memoryVars, flagVars, mirror, modes, notices, guestVars>>

FinishShadow ==
  /\ At("finish") /\ Free
  /\ IF Undisturbed THEN Return(TRUE) /\ UNCHANGED <<shadow, tokens>>
     ELSE \/ /\ Return(FALSE)
             /\ ForgetShadow(Pages)
          \/ /\ cp' = [cp EXCEPT !.pc = "scan", !.want = cp.need, !.need = {},
                                 !.retry = TRUE, !.mirrored = FALSE,
                                 !.shadowed = FALSE]
             /\ ForgetShadow(cp.need)
  /\ UNCHANGED <<memoryVars, flagVars, mirror, modes, notices, guestVars>>

-----------------------------------------------------------------------------
(* What the caller does with the answer: a read, or a write of the pages by *)
(* the GPU (a resolve, a memory export) followed by RangeWrittenByGpu.      *)

Requested == DOMAIN cp.since

Use ==
  /\ At("returned")
  /\ ~(cp.write /\ cp.ok)
  /\ cp' = IdleCp
  /\ UNCHANGED <<memoryVars, flagVars, cacheVars, notices, guestVars>>

RangeWrittenByGpu ==
  /\ At("returned") /\ cp.write /\ cp.ok /\ Free
  /\ gpuData' = gpuData \union Requested
  /\ FireWatches(Requested, FALSE)
  /\ Goto("gpu_valid")
  /\ UNCHANGED <<guest, buffer, flagVars, mirror, modes, guestVars>>

GpuRangeValid ==
  /\ At("gpu_valid") /\ Free
  /\ MakeRangeValid(Requested, TRUE)
  /\ Goto("gpu_protect")
  /\ UNCHANGED <<memoryVars, watched, shadow, tokens, modes, notices, guestVars>>

GpuProtect ==
  /\ At("gpu_protect")
  /\ EnableWatch(Requested)
  /\ cp' = IdleCp
  /\ UNCHANGED <<memoryVars, valid, written, cacheVars, notices, guestVars>>

-----------------------------------------------------------------------------
(* Resets. *)

(* The end of a frame: SetSystemPageBlocksValidWithGpuDataWritten.          *)
SetSystemPageBlocksValidWithGpuDataWritten ==
  /\ Free
  /\ mirror' = {}
  /\ valid' = written
  /\ UNCHANGED <<memoryVars, written, watched, shadow, tokens, modes, guestVars>>

CloseFrame ==
  /\ At("idle")
  /\ SetSystemPageBlocksValidWithGpuDataWritten
  /\ UNCHANGED <<notices, cp>>

ClearCache ==
  /\ At("idle") /\ Free
  /\ mirror' = {}
  /\ FireWatches(Pages, FALSE)
  /\ Goto("clear")
  /\ UNCHANGED <<memoryVars, flagVars, modes, guestVars>>

ClearValid ==
  /\ At("clear")
  /\ SetSystemPageBlocksValidWithGpuDataWritten
  /\ cp' = IdleCp
  /\ UNCHANGED notices

InvalidateAllPages ==
  /\ Free
  /\ mirror' = {} /\ valid' = {} /\ written' = {}
  /\ FireWatches(Pages, FALSE)
  /\ UNCHANGED <<memoryVars, watched, modes, cp, guestVars>>

-----------------------------------------------------------------------------
(* Guest threads. *)

Step(t, pc) == thread' = [thread EXCEPT ![t].pc = pc]

(* Mutant of Widened: the GPU's data nearby is not looked at. *)
WidenedOverGpuData(p) == Word(p)

(* MemoryInvalidationCallback: the word around p up to the GPU's data.      *)
Widened(p) ==
  {q \in Word(p) : \A g \in (Min({p, q}) .. Max({p, q})) \ {p} : g \notin written}

(* CapNativeInvalidationRange.                                              *)
Capped(p) == {q \in Widened(p) : q \div CapPages = p \div CapPages}

(* The store itself, to a page that is not watched; a watched one faults.   *)
Store(t, p) ==
  /\ \/ /\ thread[t].pc = "idle"
        /\ SumFunction(guest) + Cardinality({u \in Threads : thread[u].pc # "idle"})
             < MaxWrites
     \/ thread[t].pc = "store" /\ thread[t].page = p
  /\ IF p \in watched
     THEN /\ thread' = [thread EXCEPT ![t] = [pc |-> "fault", page |-> p,
                                              range |-> {}]]
          /\ UNCHANGED guest
     ELSE /\ guest' = [guest EXCEPT ![p] = @ + 1]
          /\ thread' = [thread EXCEPT ![t] = IdleThread]
  /\ UNCHANGED <<buffer, gpuData, flagVars, cacheVars, notices, cp, lock>>

(* The runtime takes the global lock for a fault, and looks again.          *)
Fault(t) ==
  /\ thread[t].pc = "fault" /\ Free
  /\ LET p == thread[t].page
     IN IF p \notin watched THEN Step(t, "store") /\ UNCHANGED lock
        ELSE /\ \E range \in {{p}, Widened(p), Capped(p)} :
                  thread' = [thread EXCEPT ![t].pc = "mirror", ![t].range = range]
             /\ lock' = t
  /\ UNCHANGED <<memoryVars, flagVars, cacheVars, notices, cp>>

(* MemoryInvalidationCallback: first what is read without the lock.         *)
ClearMirror(t) ==
  /\ thread[t].pc = "mirror"
  /\ mirror' = mirror \ thread[t].range
  /\ Step(t, "flags")
  /\ UNCHANGED <<memoryVars, flagVars, shadow, tokens, modes, notices, cp, lock>>

ClearFlags(t) ==
  /\ thread[t].pc = "flags"
  /\ valid' = valid \ thread[t].range
  /\ written' = written \ thread[t].range
  /\ FireWatches(thread[t].range, TRUE)
  /\ Step(t, "unwatch")
  /\ UNCHANGED <<memoryVars, watched, mirror, modes, cp, lock>>

(* The runtime unprotects the range it was given and retries the store.     *)
Unwatch(t) ==
  /\ thread[t].pc = "unwatch"
  /\ watched' = watched \ thread[t].range
  /\ thread' = [thread EXCEPT ![t].pc = "store", ![t].range = {}]
  /\ lock' = NoThread
  /\ UNCHANGED <<memoryVars, valid, written, cacheVars, notices, cp>>

-----------------------------------------------------------------------------
Ranges ==
  {range \in (SUBSET Pages) \ {{}} : \E first, last \in Pages : range = first .. last}

CpCall ==
  \/ \E want \in (SUBSET Pages) \ {{}} : Request(want, FALSE)
  \/ \E want \in Ranges : Request(want, TRUE)
  \/ CloseFrame \/ ClearCache

CpContinue ==
  \/ CheckMirror \/ AllocationFailure \/ Scan
  \/ BeginUpload \/ UploadFailure \/ AllocateRun \/ Protect \/ Copy
  \/ Capture \/ RefuseCapture \/ ForgetRefused \/ FallbackCopy \/ CopyChanged
  \/ FinishShadow
  \/ Use \/ RangeWrittenByGpu \/ GpuRangeValid \/ GpuProtect \/ ClearValid

GuestStep(t) ==
  \/ \E p \in Pages : Store(t, p)
  \/ Fault(t) \/ ClearMirror(t) \/ ClearFlags(t) \/ Unwatch(t)

Next ==
  \/ CpCall \/ CpContinue
  \/ InvalidateAllPages
  \/ \E t \in Threads : GuestStep(t)

Spec == Init /\ [][Next]_vars

(* Threads that can run do.                                                 *)
FairSpec == /\ Spec
            /\ WF_vars(CpContinue)
            /\ \A t \in Threads : WF_vars(GuestStep(t))

-----------------------------------------------------------------------------
(* Properties. *)

(* Every variable keeps its shape. *)
TypeOK ==
  /\ guest \in [Pages -> Nat]
  /\ buffer \in [Pages -> Nat \union {Unwritten}]
  /\ shadow \in [Pages -> Nat \union {Absent}]
  /\ gpuData \subseteq Pages /\ valid \subseteq Pages /\ watched \subseteq Pages
  /\ written \subseteq valid
  /\ mirror \subseteq Pages
  /\ tokens \subseteq {"request", "capture"}
  /\ modes \in [mirror : BOOLEAN, shadow : BOOLEAN]
  /\ lock \in Threads \union {NoThread}
  /\ cp.todo \subseteq cp.need /\ cp.left \subseteq Pages
  /\ \A t \in Threads : thread[t].page \in Pages /\ thread[t].range \subseteq Pages

(* The pages the CP has marked valid and not copied yet.                    *)
Uncopied == IF At("mirror") THEN {} ELSE cp.left

(* "Pages whose contents in the buffer are in sync with guest memory": a    *)
(* valid page holds the last write, and the next one will fault, except on  *)
(* the pages a request or a GPU write is just being made valid for.         *)
ValidIsCurrent ==
  /\ \A p \in valid \ written :
       p \notin Uncopied => buffer[p] = guest[p]
  /\ \A p \in valid :
       p \in watched \/ (At("protect") /\ p \in cp.run)
                     \/ (At("gpu_protect") /\ p \in Requested)

(* The lock-free mirror never shows a page the flags do not.                *)
MirrorIsValid == mirror \subseteq valid \ Uncopied

(* A request that returned TRUE made every page at least as recent as guest *)
(* memory was when it was made, whichever shortcut answered it; what the    *)
(* GPU wrote is the GPU's.                                                  *)
RequestedIsFresh ==
  At("returned") /\ cp.ok
    => \A p \in Requested \ gpuData : buffer[p] >= cp.since[p]

(* The shadow shows only bytes the buffer holds, and the buffer holds them  *)
(* alone.                                                                   *)
ShadowIsBuffer ==
  modes.shadow =>
    \A p \in Pages : shadow[p] # Absent => buffer[p] = shadow[p] /\ p \notin gpuData

(* What the GPU wrote stays valid until the guest writes that very page or  *)
(* everything is invalidated; a neighbour's write does not take it away.    *)
WrittenIsKept ==
  [][\A p \in written \ written' :
       \/ \E t \in Threads : thread[t].pc = "flags" /\ thread[t].page = p
       \/ InvalidateAllPages]_vars

(* RangeWrittenByGpu: "watch it so the CPU can reuse it and this will be     *)
(* caught".  A store never reaches a page that is marked valid, unless its  *)
(* copy is still to come.                                                   *)
StoreIsCaught ==
  [][\A p \in valid : guest'[p] # guest[p] => p \in Uncopied]_vars

(* A request comes back although everything may be invalidated again and    *)
(* again behind it: it is retried once, without the shadow.                 *)
RequestReturns == cp.pc # "idle" ~> cp.pc = "idle"

=============================================================================
