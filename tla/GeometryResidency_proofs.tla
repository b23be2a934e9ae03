----------------------- MODULE GeometryResidency_proofs -----------------------
(***************************************************************************)
(* What a native draw may read without a request, for any number of pages,  *)
(* guest threads, ranges of a draw and places in the queue of               *)
(* invalidations.  The flags' own invariant comes with SharedMemory_proofs. *)
(***************************************************************************)
EXTENDS GeometryResidency, SharedMemory_proofs

Notes ==
  [of : {"before"}, pages : Ranges]
    \union [of : {"mapping"}, pages : Ranges, bytes : Versions, asset : BOOLEAN]
NoticeStates ==
  [registered : BOOLEAN, pending : Seq(SUBSET Pages), overflow : BOOLEAN,
   current : SUBSET Notes]

(* Where the draw's own ranges are in the bitmap, or do not count any more. *)
Reading == {"drain_again", "resolve", "snapshot", "compare", "record"}
DrawStates ==
  [pc : {"idle", "drain", "request", "requested"} \union Reading,
   ranges : SUBSET Ranges, since : Versions, assets : BOOLEAN,
   todo : SUBSET Ranges, range : SUBSET Pages, bytes : Versions, bound : SUBSET Notes]

(* The shapes behind DrawTypeOK. *)
DrawTypes ==
  /\ residency \subseteq Pages
  /\ framesSeen \subseteq {"residency", "assets"}
  /\ notices \in NoticeStates /\ Len(notices.pending) <= MaxPending
  /\ draw \in DrawStates /\ draw.todo \subseteq draw.ranges

(* A draw has the CP to itself: what is returned to it is what it asked for *)
(* after it began, and its ranges' versions are those of its beginning.     *)
DrawShape ==
  /\ draw.pc \notin {"idle", "requested"} => At("idle")
  /\ draw.pc = "requested" =>
       /\ cp.pc \in Requesting \union {"returned"}
       /\ Requested = Span(Missing(residency))
       /\ \A p \in Requested : cp.since[p] >= draw.since[p]
  /\ draw.pc = "request" => Missing(residency) # {}
  /\ draw.pc # "idle" =>
       /\ notices.registered /\ "residency" \in framesSeen
       /\ DOMAIN draw.since = Span(draw.ranges)
       /\ \A p \in Span(draw.ranges) : draw.since[p] <= guest[p]
  /\ ~notices.registered => residency = {}
  /\ draw.pc \in {"snapshot", "compare"} =>
       draw.range \in draw.ranges /\ "assets" \in framesSeen

(* Queued: the next drain takes the page out of the bitmap.                 *)
Queued(p) ==
  \/ notices.overflow
  \/ \E i \in DOMAIN notices.pending : p \in notices.pending[i]

(* The pages of a request that it has yet to find valid or to mark valid.   *)
Awaited == IF At("scan") THEN cp.want ELSE IF At("mirror") THEN cp.left ELSE cp.todo

(* What the request of a draw has seen valid is valid or in the queue, up   *)
(* to the moment the draw adds it to the bitmap.                            *)
RequestIsNoted ==
  draw.pc = "requested" /\ (At("returned") => cp.ok) =>
    \A p \in Requested \ Awaited : p \in valid \/ Queued(p)

(* Between the watches' callbacks and the flags: a clear has been told of   *)
(* already, and so has what the GPU wrote.                                  *)
CallbackComesFirst ==
  /\ At("clear") =>
       notices.current = {} /\ (notices.registered => \A p \in Pages : Queued(p))
  /\ At("gpu_valid") => \A v \in notices.current : v.pages \intersect Requested = {}

(* What the draw reads from the buffer, and from the arena.                 *)
Recent(p) == p \in gpuData \/ buffer[p] >= draw.since[p]
DrawReads ==
  /\ draw.pc \in {"request", "requested"} =>
       \A p \in residency \intersect Span(draw.ranges) : Recent(p)
  /\ draw.pc \in Reading => \A p \in Span(draw.ranges) : Recent(p)
  /\ \A m \in draw.bound : \A p \in m.pages : m.bytes[p] >= draw.since[p]
  /\ draw.pc = "compare" => \A p \in draw.range : draw.bytes[p] >= draw.since[p]

(* A mapping, or a comparison that will be accepted, is of pages that are   *)
(* valid, the guest's and watched: no store can reach them unnoticed.       *)
Held(pages, bytes) ==
  \A p \in pages : p \in (valid \ written) \intersect watched /\ bytes[p] = guest[p]
MappingIsHeld ==
  /\ \A m \in FrameMappings : Held(m.pages, m.bytes)
  /\ draw.pc = "compare" /\ Undisputed => Held(draw.range, draw.bytes)

DrawIInv ==
  /\ IInv
  /\ DrawTypes
  /\ DrawShape
  /\ ResidentIsValid
  /\ RequestIsNoted
  /\ CallbackComesFirst
  /\ DrawReads
  /\ MappingIsHeld

-----------------------------------------------------------------------------
(* The queue. *)

LEMMA InvalidationIsQueued ==
  ASSUME notices \in NoticeStates, Len(notices.pending) <= MaxPending,
         NEW range \in SUBSET Pages,
         notices' = AssetInvalidated(ResidencyInvalidated(notices, range), range)
  PROVE  /\ notices' \in NoticeStates /\ Len(notices'.pending) <= MaxPending
         /\ notices'.registered = notices.registered
         /\ notices'.current = {v \in notices.current : v.pages \intersect range = {}}
         /\ \A p \in Pages : Queued(p) => Queued(p)'
         /\ notices.registered => \A p \in range : Queued(p)'
<1> USE SharedMemoryAssumption DEF NoticeStates
<1> DEFINE queue == ResidencyInvalidated(notices, range)
<1>1. /\ queue \in NoticeStates /\ queue.registered = notices.registered
      /\ queue.current = notices.current
      /\ queue.pending = IF notices.registered /\ Len(notices.pending) < MaxPending
                         THEN Append(notices.pending, range) ELSE notices.pending
      /\ queue.overflow =
           (notices.overflow \/ (notices.registered /\ ~(Len(notices.pending) < MaxPending)))
  <2>1. CASE ~notices.registered
    BY <2>1 DEF ResidencyInvalidated
  <2>2. CASE notices.registered /\ Len(notices.pending) < MaxPending
    <3>1. queue = [notices EXCEPT !.pending = Append(@, range)]
      BY <2>2 DEF ResidencyInvalidated
    <3>2. Append(notices.pending, range) \in Seq(SUBSET Pages)
      OBVIOUS
    <3> HIDE DEF queue
    <3> QED BY <2>2, <3>1, <3>2
  <2>3. CASE notices.registered /\ ~(Len(notices.pending) < MaxPending)
    <3>1. queue = [notices EXCEPT !.overflow = TRUE]
      BY <2>3 DEF ResidencyInvalidated
    <3> HIDE DEF queue
    <3> QED BY <2>3, <3>1
  <2> QED BY <2>1, <2>2, <2>3
<1> HIDE DEF queue
<1>2. notices' = [queue EXCEPT !.current = {v \in @ : v.pages \intersect range = {}}]
  BY DEF AssetInvalidated, queue
<1>3. /\ notices' \in NoticeStates /\ notices'.registered = notices.registered
      /\ notices'.current = {v \in notices.current : v.pages \intersect range = {}}
      /\ notices'.pending = queue.pending /\ notices'.overflow = queue.overflow
  BY <1>1, <1>2
<1>4. CASE notices.registered /\ Len(notices.pending) < MaxPending
  <2>1. /\ notices'.pending = Append(notices.pending, range)
        /\ notices'.overflow = notices.overflow
    BY <1>1, <1>3, <1>4
  <2>2. Len(notices'.pending) = Len(notices.pending) + 1
    BY <2>1
  <2>3. \A i \in DOMAIN notices.pending :
          i \in DOMAIN notices'.pending /\ notices'.pending[i] = notices.pending[i]
    BY <2>1
  <2>4. /\ Len(notices.pending) + 1 \in DOMAIN notices'.pending
        /\ notices'.pending[Len(notices.pending) + 1] = range
    BY <2>1
  <2> QED BY <1>3, <1>4, <2>1, <2>2, <2>3, <2>4 DEF Queued
<1>5. CASE ~(notices.registered /\ Len(notices.pending) < MaxPending)
  BY <1>1, <1>3, <1>5 DEF Queued
<1> QED BY <1>4, <1>5

(* What any step of shared memory does to the pages a draw relies on.       *)
MemoryEffect ==
  /\ notices' \in NoticeStates /\ Len(notices'.pending) <= MaxPending
  /\ notices'.registered = notices.registered
  /\ notices'.current \subseteq notices.current
  /\ \A p \in Pages : Queued(p) => Queued(p)'
  /\ \A p \in Pages : p \in valid \ valid' /\ notices.registered => Queued(p)'
  /\ \A p \in Pages : guest[p] <= guest'[p]
  /\ \A v \in notices'.current : \A p \in v.pages :
       p \in (valid \ written) \intersect watched =>
         p \in (valid' \ written') \intersect watched' /\ guest'[p] = guest[p]
  /\ CallbackComesFirst'

(* A step that tells nobody anything takes no page away and writes none.    *)
LEMMA QuietEffect ==
  ASSUME DrawIInv, UNCHANGED <<guest, notices>>,
         valid \subseteq valid', watched \subseteq watched', written' \subseteq written,
         cp' = cp \/ cp'.pc \notin {"clear", "gpu_valid"}
  PROVE  MemoryEffect
<1> USE DEF DrawIInv, DrawTypes, Queued
<1>1. \A p \in Pages : guest[p] <= guest[p]
  BY DEF IInv, Types, TypeOK
<1>2. CallbackComesFirst'
  BY DEF CallbackComesFirst, At, Requested
<1> QED BY <1>1, <1>2 DEF MemoryEffect

-----------------------------------------------------------------------------
(* A request on its way. *)

(* A page it stops waiting for is valid, and what it puts in the buffer is  *)
(* the guest's or what the request asked for.                               *)
RequestGoesOn ==
  /\ cp'.pc \in Requesting \union {"returned"} /\ cp'.since = cp.since
  /\ UNCHANGED <<guest, notices>>
  /\ valid \subseteq valid' /\ watched \subseteq watched' /\ written' \subseteq written
  /\ (cp'.pc = "returned" => cp'.ok) =>
       \A p \in Requested \intersect Awaited : p \in valid' \/ p \in Awaited'
  /\ \A p \in Pages :
       \/ buffer'[p] = buffer[p] /\ (p \in gpuData => p \in gpuData')
       \/ buffer'[p] = guest[p]
       \/ p \in Requested /\ buffer'[p] >= cp.since[p]

LEMMA ReturnGoesOn ==
  ASSUME IInv, NEW ok \in BOOLEAN, Return(ok), UNCHANGED <<memoryVars, flagVars, notices>>,
         ok => Requested \intersect Awaited \subseteq valid
  PROVE  RequestGoesOn
<1>1. cp'.pc = "returned" /\ cp'.ok = ok /\ cp'.since = cp.since
  BY ReturnedState DEF IInv
<1> QED BY <1>1 DEF RequestGoesOn, memoryVars, flagVars

LEMMA MoveGoesOn ==
  ASSUME IInv, NEW pc \in Requesting, NEW left, Moves(pc, cp.todo, left),
         cp.pc \notin {"scan", "mirror"}, pc \notin {"scan", "mirror"},
         UNCHANGED <<memoryVars, valid, written, notices>>, watched \subseteq watched'
  PROVE  RequestGoesOn
<1>1. cp'.pc # "returned" /\ Awaited' = Awaited
  BY DEF Moves, Awaited, At, Requesting, Uploading, Copying, Shadowing
<1> QED BY <1>1 DEF RequestGoesOn, Moves, memoryVars

LEMMA CheckMirrorGoesOn ==
  ASSUME IInv, CheckMirror
  PROVE  RequestGoesOn
<1> USE DEF IInv, At, Requesting
<1>1. cp.pc = "mirror" /\ UNCHANGED <<memoryVars, flagVars, cacheVars, notices>>
  BY DEF CheckMirror
<1> DEFINE word == cp.left \intersect Word(Min(cp.left))
<1>2. \/ cp' = [cp EXCEPT !.pc = "scan", !.left = {}]
      \/ cp.left \subseteq mirror /\ Return(TRUE)
      \/ cp' = [cp EXCEPT !.left = @ \ word] /\ word \subseteq mirror
  BY DEF CheckMirror
<1> HIDE DEF word
<1>3. mirror \subseteq valid /\ cp.left \subseteq cp.want
  BY DEF MirrorIsValid, RequestShape
<1>4. CASE cp' = [cp EXCEPT !.pc = "scan", !.left = {}]
  <2>1. cp'.pc = "scan" /\ cp'.since = cp.since /\ cp'.want = cp.want
    BY <1>4 DEF Types, CpStates
  <2> QED BY <1>1, <1>3, <2>1 DEF RequestGoesOn, Awaited, memoryVars, flagVars
<1>5. CASE cp.left \subseteq mirror /\ Return(TRUE)
  BY <1>1, <1>3, <1>5, ReturnGoesOn DEF Awaited
<1>6. CASE cp' = [cp EXCEPT !.left = @ \ word] /\ word \subseteq mirror
  <2>1. cp'.pc = "mirror" /\ cp'.since = cp.since /\ cp'.left = cp.left \ word
    BY <1>1, <1>6 DEF Types, CpStates
  <2> QED BY <1>1, <1>3, <1>6, <2>1 DEF RequestGoesOn, Awaited, memoryVars, flagVars
<1> QED BY <1>2, <1>4, <1>5, <1>6

LEMMA ScanGoesOn ==
  ASSUME IInv, Scan
  PROVE  RequestGoesOn
<1> USE DEF At, Requesting, Uploading
<1>1. cp.pc = "scan" /\ UNCHANGED <<memoryVars, flagVars, notices>>
  BY DEF Scan
<1>2. CASE cp.want \subseteq valid
  BY <1>1, <1>2, ReturnGoesOn DEF Scan, Awaited
<1>3. CASE ~(cp.want \subseteq valid)
  <2>1. cp' = [cp EXCEPT !.pc = "upload", !.need = cp.want \ valid, !.todo = cp.want \ valid]
    BY <1>3 DEF Scan
  <2>2. cp'.pc = "upload" /\ cp'.since = cp.since /\ cp'.todo = cp.want \ valid
    BY <2>1 DEF IInv, Types, CpStates
  <2> QED BY <1>1, <2>2 DEF RequestGoesOn, Awaited, memoryVars, flagVars
<1> QED BY <1>2, <1>3

LEMMA AllocateRunGoesOn ==
  ASSUME IInv, AllocateRun
  PROVE  RequestGoesOn
<1> USE DEF At, Requesting, Uploading, Copying
<1>1. cp.pc = "alloc" /\ UNCHANGED <<memoryVars, watched, notices>>
  BY DEF AllocateRun
<1>2. PICK last \in FirstRun(cp.todo) :
        /\ MakeRangeValid(Min(cp.todo) .. last, FALSE)
        /\ cp' = [cp EXCEPT !.pc = "protect", !.run = Min(cp.todo) .. last,
                            !.left = Min(cp.todo) .. last,
                            !.todo = @ \ (Min(cp.todo) .. last)]
  BY DEF AllocateRun
<1> DEFINE run == Min(cp.todo) .. last
<1>3. valid' = valid \union run /\ written' = written \ run
  BY <1>2 DEF MakeRangeValid
<1>4. cp'.pc = "protect" /\ cp'.since = cp.since /\ cp'.todo = cp.todo \ run
  BY <1>2 DEF IInv, Types, CpStates
<1> HIDE DEF run
<1> QED BY <1>1, <1>3, <1>4 DEF RequestGoesOn, Awaited, memoryVars

LEMMA ProceedGoesOn ==
  ASSUME IInv, NEW done \in SUBSET Pages, Proceed(done),
         cp.pc \in {"copy", "fallback", "changed"},
         UNCHANGED <<guest, flagVars, notices>>,
         \A p \in Pages :
           \/ buffer'[p] = buffer[p] /\ (p \in gpuData => p \in gpuData')
           \/ buffer'[p] = guest[p]
           \/ p \in Requested /\ buffer'[p] >= cp.since[p]
  PROVE  RequestGoesOn
<1> USE DEF IInv, At, Requesting, Uploading, Copying, Shadowing
<1>1. CASE cp.todo = {} /\ Return(TRUE)
  <2>1. cp'.pc = "returned" /\ cp'.ok = TRUE /\ cp'.since = cp.since
    BY <1>1, ReturnedState
  <2> QED BY <1>1, <2>1 DEF RequestGoesOn, Awaited, flagVars
<1>2. ASSUME NEW pc \in {"inspect", "copy", "alloc", "finish"}, NEW left,
             Moves(pc, cp.todo, left)
      PROVE  RequestGoesOn
  <2>1. cp'.pc # "returned" /\ Awaited' = Awaited
    BY <1>2 DEF Moves, Awaited
  <2> QED BY <1>2, <2>1 DEF RequestGoesOn, Moves, flagVars
<1>3. cp.todo = {} => \A left : Moves("finish", {}, left) => Moves("finish", cp.todo, left)
  OBVIOUS
<1> QED BY <1>1, <1>2, <1>3, ProceedMoves

(* The steps that only move on, with the shadow's own state apart.          *)
LEMMA PlainStepGoesOn ==
  ASSUME IInv, BeginUpload \/ Protect \/ Capture \/ RefuseCapture \/ ForgetRefused
  PROVE  RequestGoesOn
<1> USE DEF IInv, At, Requesting, Uploading, Copying, Shadowing
<1>1. CASE BeginUpload
  <2>1. /\ cp.pc = "upload" /\ UNCHANGED <<memoryVars, flagVars, notices>>
        /\ \/ Goto("alloc")
           \/ \E shadowed \in BOOLEAN : cp' = [cp EXCEPT !.pc = "alloc", !.shadowed = shadowed]
    BY <1>1, SharedMemoryAssumption DEF BeginUpload
  <2>2. Moves("alloc", cp.todo, cp.left)
    <3>1. CASE Goto("alloc")
      BY <3>1, GotoMoves
    <3>2. ASSUME NEW shadowed \in BOOLEAN,
                 cp' = [cp EXCEPT !.pc = "alloc", !.shadowed = shadowed]
          PROVE  Moves("alloc", cp.todo, cp.left)
      BY <3>2 DEF Moves, Types, CpStates
    <3> QED BY <2>1, <3>1, <3>2
  <2>3. cp'.pc # "returned" /\ cp'.pc \in Requesting /\ Awaited' = Awaited /\ cp'.since = cp.since
    BY <2>1, <2>2 DEF Moves, Awaited
  <2> QED BY <2>1, <2>3 DEF RequestGoesOn, memoryVars, flagVars
<1>2. CASE Protect
  <2>1. /\ cp.pc = "protect" /\ Goto(IF cp.shadowed THEN "inspect" ELSE "copy")
        /\ watched \subseteq watched' /\ UNCHANGED <<memoryVars, valid, written, notices>>
    BY <1>2 DEF Protect, EnableWatch
  <2> QED BY <2>1, GotoMoves, MoveGoesOn
<1>3. CASE Capture
  <2>1. /\ cp.pc = "inspect" /\ UNCHANGED <<memoryVars, flagVars, notices>>
        /\ cp' = [cp EXCEPT !.pc = "changed", !.snap = [p \in Changed(Chunk) |-> guest[p]]]
    BY <1>3 DEF Capture
  <2>2. cp'.pc = "changed" /\ cp'.since = cp.since /\ cp'.todo = cp.todo
    BY <2>1 DEF Types, CpStates
  <2> QED BY <2>1, <2>2 DEF RequestGoesOn, Awaited, memoryVars, flagVars
<1>4. CASE RefuseCapture
  <2>1. /\ cp.pc = "inspect" /\ UNCHANGED <<memoryVars, flagVars, notices>>
        /\ Goto("refused")
    BY <1>4 DEF RefuseCapture
  <2> QED BY <2>1, GotoMoves, MoveGoesOn DEF flagVars
<1>5. CASE ForgetRefused
  <2>1. /\ cp.pc = "refused" /\ UNCHANGED <<memoryVars, flagVars, notices>>
        /\ cp' = [cp EXCEPT !.pc = "fallback", !.run = Chunk]
    BY <1>5 DEF ForgetRefused
  <2>2. cp'.pc = "fallback" /\ cp'.since = cp.since /\ cp'.todo = cp.todo
    BY <2>1 DEF Types, CpStates
  <2> QED BY <2>1, <2>2 DEF RequestGoesOn, Awaited, memoryVars, flagVars
<1> QED BY <1>1, <1>2, <1>3, <1>4, <1>5

LEMMA CopyPageEffect ==
  ASSUME IInv, NEW page \in Pages, CopyPage(page)
  PROVE  \A p \in Pages : \/ buffer'[p] = buffer[p] /\ (p \in gpuData => p \in gpuData')
                          \/ buffer'[p] = guest[p]
BY DEF IInv, Types, TypeOK, CopyPage

LEMMA CopyStepGoesOn ==
  ASSUME IInv, Copy \/ FallbackCopy \/ CopyChanged
  PROVE  RequestGoesOn
<1> USE DEF IInv, At, Requesting, Uploading, Copying, Shadowing
<1>1. CASE Copy
  <2>1. /\ cp.pc = "copy" /\ cp.left # {} /\ CopyPage(Min(cp.left)) /\ Proceed({Min(cp.left)})
        /\ UNCHANGED <<guest, flagVars, notices>>
    BY <1>1 DEF Copy, RequestShape
  <2>2. Min(cp.left) \in Pages
    BY <2>1, ChunkOfLeft DEF Types, CpStates
  <2> HIDE DEF IInv
  <2> QED BY <2>1, <2>2, CopyPageEffect, ProceedGoesOn
<1>2. CASE FallbackCopy
  <2>1. /\ cp.pc = "fallback" /\ cp.run # {} /\ CopyPage(Min(cp.run))
        /\ UNCHANGED <<guest, flagVars, notices>>
        /\ \/ cp' = [cp EXCEPT !.run = @ \ {Min(cp.run)}, !.left = @ \ {Min(cp.run)}]
           \/ Proceed(cp.run)
    BY <1>2 DEF FallbackCopy, RequestShape
  <2>2. cp.run \in SUBSET Pages
    BY DEF Types, CpStates
  <2>3. Min(cp.run) \in Pages
    BY <2>1, <2>2, MinOfNaturals, PagesAreNaturals
  <2>4. CASE Proceed(cp.run)
    BY <2>1, <2>2, <2>3, <2>4, CopyPageEffect, ProceedGoesOn DEF IInv
  <2>5. CASE cp' = [cp EXCEPT !.run = @ \ {Min(cp.run)}, !.left = @ \ {Min(cp.run)}]
    <3>1. cp'.pc = "fallback" /\ cp'.since = cp.since /\ cp'.todo = cp.todo
      BY <2>1, <2>5 DEF Types, CpStates
    <3>2. \A p \in Pages : \/ buffer'[p] = buffer[p] /\ (p \in gpuData => p \in gpuData')
                           \/ buffer'[p] = guest[p]
      BY <2>1, <2>3, CopyPageEffect
    <3> QED BY <2>1, <3>1, <3>2 DEF RequestGoesOn, Awaited, flagVars
  <2> QED BY <2>1, <2>4, <2>5
<1>3. CASE CopyChanged
  <2> DEFINE changed == DOMAIN cp.snap
  <2>1. /\ cp.pc = "changed" /\ cp.left # {} /\ Proceed(Chunk)
        /\ buffer' = [p \in Pages |-> IF p \in changed THEN cp.snap[p] ELSE buffer[p]]
        /\ gpuData' = gpuData \ changed
        /\ UNCHANGED <<guest, flagVars, notices>>
    BY <1>3 DEF CopyChanged, RequestShape
  <2>2. Chunk \subseteq Pages /\ changed \subseteq Requested
    BY <2>1, ChunkOfLeft DEF Types, CpStates, CaptureIsCurrent, RequestShape
  <2>3. \A p \in changed : cp.snap[p] >= cp.since[p]
    BY <2>1 DEF CaptureIsCurrent
  <2> HIDE DEF changed, IInv
  <2> QED BY <2>1, <2>2, <2>3, ProceedGoesOn
<1> QED BY <1>1, <1>2, <1>3

LEMMA FinishShadowGoesOn ==
  ASSUME IInv, FinishShadow
  PROVE  RequestGoesOn
<1> USE DEF At, Requesting, Uploading
<1>1. /\ cp.pc = "finish" /\ cp.todo = {} /\ Awaited = {}
      /\ UNCHANGED <<memoryVars, flagVars, notices>>
  BY DEF FinishShadow, IInv, RequestShape, Awaited
<1>2. CASE \E ok \in BOOLEAN : Return(ok)
  BY <1>1, <1>2, ReturnGoesOn
<1>3. CASE cp' = [cp EXCEPT !.pc = "scan", !.want = cp.need, !.need = {}, !.retry = TRUE,
                            !.mirrored = FALSE, !.shadowed = FALSE]
  <2>1. cp'.pc = "scan" /\ cp'.since = cp.since
    BY <1>3 DEF IInv, Types, CpStates
  <2> QED BY <1>1, <2>1 DEF RequestGoesOn, memoryVars, flagVars
<1> QED BY <1>2, <1>3 DEF FinishShadow

LEMMA ContinueGoesOn ==
  ASSUME IInv, CpContinue, cp.pc \in Requesting
  PROVE  RequestGoesOn
<1> USE DEF At, Requesting, Uploading, Copying, Shadowing
<1>1. CASE AllocationFailure \/ UploadFailure
  BY <1>1, ReturnGoesOn DEF AllocationFailure, UploadFailure
<1> QED
  BY <1>1, CheckMirrorGoesOn, ScanGoesOn, AllocateRunGoesOn, PlainStepGoesOn,
     CopyStepGoesOn, FinishShadowGoesOn
     DEF CpContinue, Use, RangeWrittenByGpu, GpuRangeValid, GpuProtect, ClearValid

-----------------------------------------------------------------------------
(* Every step of shared memory has the effect a draw can live with.         *)

LEMMA NotesAreOfPages ==
  ASSUME notices \in NoticeStates
  PROVE  \A v \in notices.current : v.pages \in Ranges /\ v.pages # {} /\ v.pages \subseteq Pages
<1>1. ASSUME NEW v \in Notes PROVE v.pages \in Ranges
  <2>1. CASE v \in [of : {"before"}, pages : Ranges]
    BY <2>1
  <2>2. CASE v \in [of : {"mapping"}, pages : Ranges, bytes : Versions, asset : BOOLEAN]
    BY <2>2
  <2> QED BY <2>1, <2>2 DEF Notes
<1>2. ASSUME NEW range \in Ranges PROVE range # {} /\ range \subseteq Pages
  <2>1. range \in (SUBSET Pages) \ {{}}
    BY Zenon DEF Ranges
  <2> QED BY <2>1
<1> QED BY <1>1, <1>2 DEF NoticeStates

LEMMA RequestEffect ==
  ASSUME DrawIInv, NEW want, NEW write, Request(want, write)
  PROVE  MemoryEffect
<1>1. /\ cp'.pc \in {"mirror", "scan"}
      /\ UNCHANGED <<guest, valid, written, watched, notices>>
  BY DEF Request, memoryVars, flagVars, IdleCp
<1> QED BY <1>1, QuietEffect

(* A step whose watches fire for at least what it invalidates.              *)
LEMMA FiredEffect ==
  ASSUME DrawIInv, NEW range \in SUBSET Pages, NEW by_cpu_write \in BOOLEAN,
         FireWatches(range, by_cpu_write), UNCHANGED <<guest, watched>>,
         valid' \subseteq valid, valid \ valid' \subseteq range, written' \subseteq written,
         CallbackComesFirst'
  PROVE  MemoryEffect
<1> USE DEF DrawIInv, DrawTypes
<1>1. notices' = AssetInvalidated(ResidencyInvalidated(notices, range), range)
  BY DEF FireWatches
<1>2. \A p \in Pages : guest[p] <= guest[p]
  BY DEF IInv, Types, TypeOK
<1> QED BY <1>1, <1>2, InvalidationIsQueued, NotesAreOfPages DEF MemoryEffect

LEMMA ResetEffect ==
  ASSUME DrawIInv, ClearCache \/ InvalidateAllPages
  PROVE  MemoryEffect
<1> USE DEF DrawIInv, DrawTypes, memoryVars, flagVars, At
<1>1. FireWatches(Pages, FALSE) /\ UNCHANGED <<guest, watched>> /\ valid' \subseteq valid
      /\ written' \subseteq written
  BY DEF ClearCache, InvalidateAllPages
<1>2. notices' = AssetInvalidated(ResidencyInvalidated(notices, Pages), Pages)
  BY <1>1 DEF FireWatches
<1>3. notices'.current = {} /\ (notices'.registered => \A p \in Pages : Queued(p)')
  BY <1>2, InvalidationIsQueued, NotesAreOfPages
<1>4. CallbackComesFirst'
  <2>1. cp' = cp \/ cp'.pc = "clear"
    BY DEF ClearCache, InvalidateAllPages, Goto, IInv, Types, CpStates
  <2> QED BY <1>3, <2>1 DEF CallbackComesFirst
<1> QED BY <1>1, <1>4, FiredEffect DEF IInv, Types, TypeOK

LEMMA GpuWriteEffect ==
  ASSUME DrawIInv, RangeWrittenByGpu \/ GpuRangeValid \/ GpuProtect
  PROVE  MemoryEffect
<1> USE DEF At, Requested
<1>1. Requested \in SUBSET Pages
  BY VersionsAre DEF DrawIInv, IInv, Types, CpStates
<1>2. CASE RangeWrittenByGpu
  <2>1. /\ FireWatches(Requested, FALSE) /\ UNCHANGED <<guest, flagVars>>
        /\ cp'.pc = "gpu_valid" /\ cp'.since = cp.since
    BY <1>2 DEF RangeWrittenByGpu, Goto, DrawIInv, IInv, Types, CpStates
  <2>2. notices' = AssetInvalidated(ResidencyInvalidated(notices, Requested), Requested)
    BY <2>1 DEF FireWatches
  <2>3. CallbackComesFirst'
    BY <1>1, <2>1, <2>2, InvalidationIsQueued DEF DrawIInv, DrawTypes, CallbackComesFirst
  <2> QED BY <1>1, <2>1, <2>3, FiredEffect DEF flagVars
<1>3. CASE GpuRangeValid
  <2>1. /\ cp.pc = "gpu_valid" /\ UNCHANGED <<guest, watched, notices>>
        /\ valid' = valid \union Requested /\ written' = written \union Requested
        /\ cp'.pc = "gpu_protect"
    BY <1>3 DEF GpuRangeValid, MakeRangeValid, Goto, DrawIInv, IInv, Types, CpStates, memoryVars
  <2>2. \A v \in notices.current : v.pages \intersect Requested = {}
    BY <2>1 DEF DrawIInv, CallbackComesFirst
  <2>3. \A p \in Pages : guest[p] <= guest[p]
    BY DEF DrawIInv, IInv, Types, TypeOK
  <2>4. CallbackComesFirst'
    BY <2>1 DEF CallbackComesFirst
  <2> QED BY <2>1, <2>2, <2>3, <2>4 DEF MemoryEffect, DrawIInv, DrawTypes, Queued
<1>4. CASE GpuProtect
  <2>1. /\ watched' = watched \union Requested /\ UNCHANGED <<guest, valid, written, notices>>
        /\ cp'.pc = "idle"
    BY <1>4 DEF GpuProtect, EnableWatch, memoryVars, IdleCp
  <2> QED BY <2>1, QuietEffect
<1> QED BY <1>2, <1>3, <1>4

(* The end of a frame takes pages away without a word: after a clear, which *)
(* has told of all pages, it is one like any other.                         *)
LEMMA ClearValidEffect ==
  ASSUME DrawIInv, ClearValid
  PROVE  MemoryEffect
<1> USE DEF At
<1>1. /\ cp.pc = "clear" /\ valid' = written /\ UNCHANGED <<guest, written, watched, notices>>
      /\ cp'.pc = "idle"
  BY DEF ClearValid, SetSystemPageBlocksValidWithGpuDataWritten, IdleCp, memoryVars
<1>2. notices.current = {} /\ (notices.registered => \A p \in Pages : Queued(p))
  BY <1>1 DEF DrawIInv, CallbackComesFirst
<1>3. \A p \in Pages : guest[p] <= guest[p]
  BY DEF DrawIInv, IInv, Types, TypeOK
<1>4. CallbackComesFirst'
  BY <1>1 DEF CallbackComesFirst
<1> QED BY <1>1, <1>2, <1>3, <1>4 DEF MemoryEffect, DrawIInv, DrawTypes, Queued

LEMMA ContinueEffect ==
  ASSUME DrawIInv, CpContinue
  PROVE  MemoryEffect
<1>1. CASE cp.pc \in Requesting
  <2>1. RequestGoesOn
    BY <1>1, ContinueGoesOn DEF DrawIInv
  <2> QED BY <2>1, QuietEffect DEF RequestGoesOn, Requesting, Uploading, Copying, Shadowing
<1>2. CASE Use
  <2>1. cp'.pc = "idle" /\ UNCHANGED <<guest, valid, written, watched, notices>>
    BY <1>2 DEF Use, IdleCp, memoryVars, flagVars
  <2> QED BY <2>1, QuietEffect
<1> QED
  BY <1>1, <1>2, GpuWriteEffect, ClearValidEffect
     DEF CpContinue, CheckMirror, AllocationFailure, Scan, BeginUpload, UploadFailure,
         AllocateRun, Protect, Copy, Capture, RefuseCapture, ForgetRefused, FallbackCopy,
         CopyChanged, FinishShadow, At, Requesting, Uploading, Copying, Shadowing

LEMMA GuestEffect ==
  ASSUME DrawIInv, NEW t \in Threads, GuestStep(t)
  PROVE  MemoryEffect /\ UNCHANGED <<buffer, gpuData, cp>>
<1> USE DEF DrawIInv, memoryVars, flagVars, At
<1>1. UNCHANGED <<buffer, gpuData, cp>>
  BY DEF GuestStep, Store, Fault, ClearMirror, ClearFlags, Unwatch
<1>2. CASE Fault(t) \/ ClearMirror(t)
  BY <1>2, QuietEffect DEF Fault, ClearMirror
<1>3. CASE ClearFlags(t)
  <2>1. /\ valid' = valid \ thread[t].range /\ written' = written \ thread[t].range
        /\ FireWatches(thread[t].range, TRUE) /\ UNCHANGED <<guest, watched>>
    BY <1>3 DEF ClearFlags
  <2>2. thread[t].range \in SUBSET Pages
    BY DEF IInv, Types, ThreadStates
  <2>3. notices' = AssetInvalidated(ResidencyInvalidated(notices, thread[t].range),
                                    thread[t].range)
    BY <2>1 DEF FireWatches
  <2>4. CallbackComesFirst'
    BY <1>1, <2>2, <2>3, InvalidationIsQueued DEF DrawTypes, CallbackComesFirst, Requested
  <2>5. valid' \subseteq valid /\ valid \ valid' \subseteq thread[t].range
        /\ written' \subseteq written
    BY <2>1
  <2>6. DrawIInv /\ UNCHANGED <<guest, watched>>
    BY <2>1
  <2> HIDE DEF DrawIInv
  <2> QED BY <1>1, <2>1, <2>2, <2>4, <2>5, <2>6, FiredEffect
<1>4. CASE Unwatch(t)
  <2>1. watched' = watched \ thread[t].range /\ UNCHANGED <<guest, valid, written, notices>>
    BY <1>4 DEF Unwatch
  <2>2. valid \intersect thread[t].range = {}
    BY <1>4 DEF Unwatch, IInv, FaultOwnsRange
  <2>3. \A p \in Pages : guest[p] <= guest[p]
    BY DEF IInv, Types, TypeOK
  <2>4. CallbackComesFirst'
    BY <1>1, <2>1 DEF CallbackComesFirst, Requested, Queued
  <2>5. \A p : p \in (valid \ written) \intersect watched =>
              p \in (valid' \ written') \intersect watched' /\ guest'[p] = guest[p]
    BY <2>1, <2>2
  <2>6. notices' = notices /\ valid' = valid /\ guest' = guest
    BY <2>1
  <2> HIDE DEF DrawIInv, memoryVars, flagVars
  <2> QED BY <1>1, <2>3, <2>4, <2>5, <2>6 DEF MemoryEffect, DrawIInv, DrawTypes, Queued
<1>5. ASSUME NEW q \in Pages, Store(t, q) PROVE MemoryEffect
  <2>1. UNCHANGED <<valid, written, watched, notices>>
        /\ \/ q \in watched /\ UNCHANGED guest
           \/ q \notin watched /\ guest' = [guest EXCEPT ![q] = @ + 1]
    BY <1>5 DEF Store
  <2>2. /\ \A p \in Pages : guest[p] <= guest'[p]
        /\ \A p \in Pages : p \in watched => guest'[p] = guest[p]
    BY <2>1 DEF IInv, Types, TypeOK
  <2>3. CallbackComesFirst'
    BY <1>1, <2>1 DEF CallbackComesFirst, Requested, Queued
  <2> QED BY <2>1, <2>2, <2>3, NotesAreOfPages DEF MemoryEffect, DrawTypes, Queued
<1> QED BY <1>1, <1>2, <1>3, <1>4, <1>5 DEF GuestStep

(* A step of shared memory beside a draw, or on its behalf.                 *)
LEMMA MemoryStepKeeps ==
  ASSUME DrawIInv, IInv', MemoryEffect, UNCHANGED nativeVars,
         \/ draw.pc = "idle"
         \/ UNCHANGED <<cp, buffer, gpuData>>
         \/ draw.pc = "requested" /\ ~At("returned") /\ RequestGoesOn
  PROVE  DrawIInv'
<1> USE DEF nativeVars
<1>1. /\ DrawTypes /\ DrawShape /\ MappingIsHeld /\ DrawReads /\ RequestIsNoted
      /\ ResidentIsValid
  BY DEF DrawIInv
<1>2. DrawTypes' /\ CallbackComesFirst'
  BY <1>1 DEF MemoryEffect, DrawTypes
<1>3. ResidentIsValid'
  BY <1>1 DEF MemoryEffect, DrawTypes, DrawShape, ResidentIsValid, Queued
<1>4. MappingIsHeld'
  <2>1. \A v \in notices'.current : v \in notices.current /\
          \A bytes : Held(v.pages, bytes) => Held(v.pages, bytes)'
    BY DEF MemoryEffect, Held
  <2>2. FrameMappings' \subseteq FrameMappings /\ \A m \in FrameMappings' : m \in notices'.current
    BY <2>1 DEF FrameMappings, Mappings
  <2>3. ASSUME NEW m \in FrameMappings' PROVE Held(m.pages, m.bytes)'
    BY <1>1, <2>1, <2>2 DEF MappingIsHeld
  <2>4. ASSUME draw.pc = "compare", Undisputed' PROVE Held(draw.range, draw.bytes)'
    <3>1. Before(draw.range) \in notices'.current /\ Undisputed
      BY <2>1, <2>4 DEF Undisputed
    <3>2. Before(draw.range).pages = draw.range
      BY DEF Before
    <3> QED BY <1>1, <2>1, <2>4, <3>1, <3>2 DEF MappingIsHeld
  <2> QED BY <2>3, <2>4 DEF MappingIsHeld
<1>5. Span(draw.ranges) \subseteq Pages
  <2>1. \A r \in draw.ranges : r \subseteq Pages
    BY <1>1 DEF DrawTypes, DrawStates, Ranges
  <2> QED BY <2>1 DEF Span
<1>6. draw.pc # "idle" => \A p \in Span(draw.ranges) : draw.since[p] \in Nat
  BY <1>1, VersionsAre DEF DrawTypes, DrawStates, DrawShape
<1>7. \A p \in Pages : guest[p] \in Nat /\ guest'[p] \in Nat /\ guest[p] <= guest'[p]
  BY DEF DrawIInv, IInv, Types, TypeOK, MemoryEffect
<1>8. draw.pc # "idle" => \A p \in Span(draw.ranges) : draw.since[p] <= guest'[p]
  BY <1>1, <1>5, <1>6, <1>7 DEF DrawShape
<1>9. CASE draw.pc = "idle"
  BY <1>1, <1>2, <1>3, <1>4, <1>9
     DEF DrawIInv, DrawShape, RequestIsNoted, DrawReads, Reading, MemoryEffect
<1>10. CASE UNCHANGED <<cp, buffer, gpuData>>
  <2>1. DrawShape'
    BY <1>1, <1>8, <1>10 DEF DrawShape, At, Requested, Missing, MemoryEffect
  <2>2. \A p \in Requested : p \in Pages
    BY VersionsAre DEF Requested, DrawIInv, IInv, Types, CpStates
  <2>3. RequestIsNoted'
    BY <1>1, <1>10, <2>2 DEF RequestIsNoted, DrawShape, Awaited, At, Requested, MemoryEffect
  <2>4. DrawReads'
    BY <1>1, <1>10 DEF DrawReads, Recent
  <2> QED BY <1>2, <1>3, <1>4, <2>1, <2>3, <2>4 DEF DrawIInv
<1>11. CASE draw.pc = "requested" /\ ~At("returned") /\ RequestGoesOn
  <2>1. \A p \in Requested : p \in Pages /\ cp.since[p] \in Nat
    BY VersionsAre DEF Requested, DrawIInv, IInv, Types, CpStates
  <2>2. DrawShape'
    BY <1>1, <1>8, <1>11 DEF DrawShape, At, Requested, Missing, MemoryEffect, RequestGoesOn
  <2>3. RequestIsNoted'
    <3> SUFFICES ASSUME cp'.pc = "returned" => cp'.ok, NEW p \in Requested', p \notin Awaited'
                 PROVE  p \in valid' \/ Queued(p)'
      BY DEF RequestIsNoted, At
    <3>1. p \in Requested
      BY <1>11 DEF RequestGoesOn, Requested
    <3>2. CASE p \in Awaited
      BY <1>11, <3>1, <3>2 DEF RequestGoesOn
    <3>3. CASE p \notin Awaited
      <4>1. p \in valid \/ Queued(p)
        BY <1>1, <1>11, <3>1, <3>3 DEF RequestIsNoted
      <4> QED BY <1>1, <1>11, <2>1, <3>1, <4>1 DEF RequestGoesOn, MemoryEffect
    <3> QED BY <3>2, <3>3
  <2>4. DrawReads'
    <3>1. ASSUME NEW p \in Span(draw.ranges), Recent(p) PROVE Recent(p)'
      <4>1. /\ p \in Pages /\ draw.since[p] \in Nat /\ draw.since[p] <= guest[p]
            /\ p \in Requested => draw.since[p] <= cp.since[p] /\ cp.since[p] \in Nat
        BY <1>1, <1>5, <1>6, <1>11, <2>1 DEF DrawShape
      <4>2. buffer'[p] \in Int
        BY <4>1 DEF IInv, Types, TypeOK, Unwritten
      <4> QED BY <1>11, <3>1, <4>1, <4>2 DEF Recent, RequestGoesOn
    <3> QED BY <1>1, <1>11, <3>1 DEF DrawReads, Reading
  <2> QED BY <1>2, <1>3, <1>4, <2>2, <2>3, <2>4 DEF DrawIInv
<1> QED BY <1>9, <1>10, <1>11

-----------------------------------------------------------------------------
(* The steps of a draw. *)

(* A step of a draw changes nothing of shared memory but the notices, and   *)
(* does so when the CP is its own.                                          *)
NativeStep == UNCHANGED <<memoryVars, flagVars, cacheVars, cp, guestVars>> /\ At("idle")

LEMMA NativeStepKeeps ==
  ASSUME DrawIInv, NativeStep
  PROVE  /\ IInv' /\ CallbackComesFirst'
         /\ ((draw'.pc # "requested") => RequestIsNoted')
<1>1. cp'.pc = "idle"
  BY DEF NativeStep, At
<1> QED BY <1>1, StutterKeeps DEF NativeStep, DrawIInv, CallbackComesFirst, RequestIsNoted, At

LEMMA NoDrawIsState == NoDraw \in DrawStates
BY NothingIsVersions DEF NoDraw, DrawStates

LEMMA SpanIsPages ==
  ASSUME NEW ranges \in SUBSET Ranges
  PROVE  Span(ranges) \in SUBSET Pages
<1>1. \A r \in ranges : r \subseteq Pages
  BY DEF Ranges
<1> QED BY <1>1 DEF Span

LEMMA BeginDrawKeeps ==
  ASSUME DrawIInv, NEW ranges \in DrawRanges, NEW assets \in AssetModes,
         BeginDraw(ranges, assets)
  PROVE  DrawIInv'
<1> DEFINE since == [p \in Span(ranges) |-> guest[p]]
<1>1. /\ draw.pc = "idle" /\ NativeStep
      /\ notices' = [notices EXCEPT !.registered = TRUE]
      /\ residency' = IF "residency" \in framesSeen THEN residency ELSE {}
      /\ framesSeen' = framesSeen \union {"residency"}
      /\ draw' = [NoDraw EXCEPT !.pc = "drain", !.ranges = ranges, !.assets = assets,
                                !.since = since]
  BY DEF BeginDraw, NativeStep
<1>2. ranges \in SUBSET Ranges /\ assets \in BOOLEAN /\ Span(ranges) \in SUBSET Pages
  BY SpanIsPages, GeometryResidencyAssumption DEF DrawRanges
<1>3. since \in [Span(ranges) -> Nat]
  BY <1>2 DEF DrawIInv, IInv, Types, TypeOK
<1>4. since \in Versions /\ DOMAIN since = Span(ranges)
  BY <1>2, <1>3, VersionsOf
<1>5. \A p \in Span(ranges) : since[p] = guest[p] /\ guest[p] \in Nat
  BY <1>2 DEF DrawIInv, IInv, Types, TypeOK
<1> HIDE DEF since
<1>6. /\ draw' \in DrawStates /\ draw'.pc = "drain" /\ draw'.ranges = ranges
      /\ draw'.since = since /\ draw'.todo = {} /\ draw'.bound = {}
  BY <1>1, <1>2, <1>4, NothingIsVersions DEF NoDraw, DrawStates
<1>7. /\ notices' \in NoticeStates /\ notices'.registered /\ notices'.pending = notices.pending
      /\ notices'.overflow = notices.overflow /\ notices'.current = notices.current
  BY <1>1 DEF DrawIInv, DrawTypes, NoticeStates
<1>8. IInv' /\ CallbackComesFirst' /\ RequestIsNoted'
  BY <1>1, <1>6, NativeStepKeeps
<1>9. DrawTypes'
  BY <1>1, <1>6, <1>7 DEF DrawIInv, DrawTypes
<1>10. DrawShape'
  BY <1>1, <1>4, <1>5, <1>6, <1>7
     DEF DrawIInv, DrawTypes, DrawShape, NativeStep, At, memoryVars
<1>11. ResidentIsValid'
  BY <1>1, <1>7 DEF DrawIInv, ResidentIsValid, NativeStep, flagVars
<1>12. DrawReads'
  BY <1>6 DEF DrawReads, Reading
<1>13. MappingIsHeld'
  BY <1>1, <1>6, <1>7
     DEF DrawIInv, MappingIsHeld, FrameMappings, Mappings, Held, NativeStep, memoryVars, flagVars
<1> QED BY <1>8, <1>9, <1>10, <1>11, <1>12, <1>13 DEF DrawIInv

(* A drain leaves in the bitmap what is valid.                              *)
LEMMA DrainEffect ==
  ASSUME DrawIInv, Drain, draw.pc \notin {"idle", "requested"}
  PROVE  /\ NativeStep /\ residency' \subseteq residency \intersect valid
         /\ framesSeen' = framesSeen
         /\ notices' \in NoticeStates /\ notices'.pending = <<>> /\ ~notices'.overflow
         /\ notices'.registered = notices.registered /\ notices'.current = notices.current
<1>1. notices' = [notices EXCEPT !.pending = <<>>, !.overflow = FALSE]
  BY DEF Drain
<1>2. residency' \subseteq residency \intersect valid
  BY DEF Drain, Drained, DrawIInv, ResidentIsValid, DrawShape
<1>3. NativeStep
  BY DEF Drain, NativeStep, DrawIInv, DrawShape
<1>4. notices \in NoticeStates
  BY DEF DrawIInv, DrawTypes
<1>5. /\ notices' \in NoticeStates /\ notices'.pending = <<>> /\ ~notices'.overflow
      /\ notices'.registered = notices.registered /\ notices'.current = notices.current
  <2>1. <<>> \in Seq(SUBSET Pages)
    OBVIOUS
  <2> QED BY <1>1, <1>4, <2>1 DEF NoticeStates
<1> QED BY <1>2, <1>3, <1>5 DEF Drain

LEMMA DrainKeeps ==
  ASSUME DrawIInv, Drain, draw.pc \in {"drain", "drain_again"},
         NEW pc \in {"request", "resolve"}, NEW todo \in SUBSET draw.ranges,
         draw' = [draw EXCEPT !.pc = pc, !.todo = todo],
         draw.pc = "drain_again" => pc = "resolve",
         pc = "request" <=> draw.pc = "drain" /\ Missing(residency') # {}
  PROVE  DrawIInv'
<1>1. /\ NativeStep /\ residency' \subseteq residency \intersect valid
      /\ framesSeen' = framesSeen
      /\ notices' \in NoticeStates /\ notices'.pending = <<>> /\ ~notices'.overflow
      /\ notices'.registered = notices.registered /\ notices'.current = notices.current
  BY DrainEffect
<1>2. /\ draw' \in DrawStates /\ draw'.pc = pc /\ draw'.ranges = draw.ranges
      /\ draw'.since = draw.since /\ draw'.todo = todo /\ draw'.bound = draw.bound
  BY DEF DrawIInv, DrawTypes, DrawStates, Reading
<1>3. IInv' /\ CallbackComesFirst' /\ RequestIsNoted'
  BY <1>1, <1>2, NativeStepKeeps
<1>4. DrawTypes'
  BY <1>1, <1>2, SharedMemoryAssumption DEF DrawIInv, DrawTypes
<1>5. DrawShape'
  BY <1>1, <1>2 DEF DrawIInv, DrawTypes, DrawShape, NativeStep, At, memoryVars, Missing
<1>6. ResidentIsValid'
  BY <1>1 DEF ResidentIsValid, NativeStep, flagVars
<1>7. ASSUME NEW p \in residency' \intersect Span(draw.ranges) PROVE Recent(p)
  <2>1. p \in valid /\ p \in Pages
    BY <1>1 DEF DrawIInv, DrawTypes
  <2>4. draw.since[p] <= guest[p]
    BY DEF DrawIInv, DrawShape
  <2>2. cp.left = {} /\ cp.pc = "idle"
    BY <1>1 DEF DrawIInv, IInv, RequestShape, At, Copying, Shadowing, NativeStep
  <2>3. p \notin written => buffer[p] = guest[p]
    BY <2>1, <2>2 DEF DrawIInv, IInv, ValidIsCurrent, Uncopied, At
  <2> QED BY <2>1, <2>3, <2>4 DEF Recent, DrawIInv, IInv, WrittenIsGpu
<1>8. DrawReads'
  <2>1. CASE pc = "request"
    BY <1>1, <1>2, <1>7, <2>1 DEF DrawIInv, DrawReads, Recent, NativeStep, memoryVars, Reading
  <2>2. CASE pc = "resolve" /\ draw.pc = "drain_again"
    BY <1>1, <1>2, <2>2 DEF DrawIInv, DrawReads, Recent, NativeStep, memoryVars, Reading
  <2>3. CASE pc = "resolve" /\ draw.pc = "drain"
    <3>1. Span(draw.ranges) \subseteq residency'
      BY <2>3 DEF Missing, Span
    <3> QED BY <1>1, <1>2, <1>7, <2>3, <3>1
            DEF DrawIInv, DrawReads, Recent, NativeStep, memoryVars, Reading
  <2> QED BY <2>1, <2>2, <2>3
<1>9. MappingIsHeld'
  BY <1>1, <1>2
     DEF DrawIInv, MappingIsHeld, FrameMappings, Mappings, Held, NativeStep, memoryVars, flagVars
<1> QED BY <1>3, <1>4, <1>5, <1>6, <1>8, <1>9 DEF DrawIInv

LEMMA RequestMissingKeeps ==
  ASSUME DrawIInv, RequestMissing
  PROVE  DrawIInv'
<1> DEFINE want == Span(Missing(residency))
<1>1. /\ draw.pc = "request" /\ At("idle") /\ Request(want, FALSE)
      /\ draw' = [draw EXCEPT !.pc = "requested"]
      /\ UNCHANGED <<memoryVars, flagVars, notices, residency, framesSeen>>
  BY DEF RequestMissing, Request
<1>2. /\ draw' \in DrawStates /\ draw'.pc = "requested" /\ draw'.ranges = draw.ranges
      /\ draw'.since = draw.since /\ draw'.todo = draw.todo /\ draw'.bound = draw.bound
  BY <1>1 DEF DrawIInv, DrawTypes, DrawStates
<1>3. Missing(residency) \subseteq draw.ranges /\ want \subseteq Span(draw.ranges)
      /\ Span(draw.ranges) \subseteq Pages
  <2>1. draw.ranges \in SUBSET Ranges
    BY DEF DrawIInv, DrawTypes, DrawStates
  <2> QED BY <2>1, SpanIsPages DEF Missing, Span
<1>4. IInv' /\ CallbackComesFirst'
  <2>1. want \in SUBSET Pages
    BY <1>3
  <2> QED BY <1>1, <2>1, RequestKeeps, RequestEffect DEF DrawIInv, MemoryEffect
<1> DEFINE since == [p \in want |-> guest[p]]
<1>5. PICK mirrored \in BOOLEAN :
        cp' = [IdleCp EXCEPT !.pc = IF mirrored THEN "mirror" ELSE "scan",
                             !.mirrored = mirrored, !.write = FALSE, !.want = want,
                             !.left = IF mirrored THEN want ELSE {}, !.since = since]
  BY <1>1, SharedMemoryAssumption DEF Request
<1> HIDE DEF since
<1>6. /\ cp'.pc \in {"mirror", "scan"} /\ cp'.since = since
      /\ cp'.pc = "mirror" => cp'.left = want
      /\ cp'.want = want
  BY <1>5 DEF IdleCp
<1>7. DOMAIN since = want /\ \A p \in want : since[p] = guest[p]
  BY DEF since
<1> HIDE DEF want
<1>8. DrawTypes'
  BY <1>1, <1>2 DEF DrawIInv, DrawTypes
<1>9. DrawShape'
  <2>1. Requested' = want /\ Missing(residency)' = Missing(residency) /\ notices' = notices
        /\ guest' = guest
    BY <1>1, <1>2, <1>6, <1>7 DEF Requested, Missing, memoryVars
  <2>2. \A p \in want : draw.since[p] \in Nat /\ guest[p] \in Nat /\ draw.since[p] <= guest[p]
    BY <1>1, <1>3, VersionsAre
       DEF DrawIInv, DrawTypes, DrawStates, DrawShape, IInv, Types, TypeOK
  <2>3. \A p \in want : cp'.since[p] >= draw.since[p]
    BY <1>6, <1>7, <2>2
  <2>4. cp'.pc \in Requesting
    BY <1>6 DEF Requesting
  <2> QED BY <1>1, <1>2, <2>1, <2>3, <2>4 DEF DrawIInv, DrawShape, want
<1>10. RequestIsNoted'
  BY <1>6, <1>7 DEF RequestIsNoted, Requested, Awaited, At
<1>11. ResidentIsValid' /\ DrawReads' /\ MappingIsHeld'
  <2>1. ResidentIsValid'
    BY <1>1 DEF DrawIInv, ResidentIsValid, flagVars
  <2>2. DrawReads'
    BY <1>1, <1>2 DEF DrawIInv, DrawReads, Recent, memoryVars, Reading
  <2>3. MappingIsHeld'
    BY <1>1, <1>2 DEF DrawIInv, MappingIsHeld, FrameMappings, Mappings, Held, memoryVars, flagVars
  <2> QED BY <2>1, <2>2, <2>3
<1> QED BY <1>4, <1>8, <1>9, <1>10, <1>11 DEF DrawIInv

LEMMA AddRequestedKeeps ==
  ASSUME DrawIInv, AddRequested
  PROVE  DrawIInv'
<1>1. /\ draw.pc = "requested" /\ cp.pc = "returned" /\ cp' = IdleCp /\ cp'.pc = "idle"
      /\ residency' = residency \union (IF cp.ok THEN Requested ELSE {})
      /\ UNCHANGED <<memoryVars, flagVars, cacheVars, notices, guestVars, framesSeen>>
  BY DEF AddRequested, At, IdleCp
<1>2. IInv'
  BY <1>1, UseKeeps DEF DrawIInv, At
<1>3. CallbackComesFirst'
  BY <1>1 DEF CallbackComesFirst, At
<1>4. Requested = Span(Missing(residency)) /\ Requested \subseteq Pages
      /\ \A p \in Requested : cp.since[p] >= draw.since[p]
  BY <1>1, VersionsAre DEF DrawIInv, DrawShape, IInv, Types, CpStates, Requested
<1>5. CASE ~cp.ok
  <2>1. draw' = NoDraw /\ residency' = residency
    BY <1>1, <1>5 DEF AddRequested
  <2>2. draw' \in DrawStates /\ draw'.pc = "idle" /\ draw'.todo = {} /\ draw'.bound = {}
    BY <2>1, NoDrawIsState DEF NoDraw
  <2>3. DrawTypes' /\ DrawShape' /\ RequestIsNoted' /\ DrawReads'
    BY <1>1, <2>1, <2>2
       DEF DrawIInv, DrawTypes, DrawShape, RequestIsNoted, DrawReads, Reading
  <2>4. ResidentIsValid' /\ MappingIsHeld'
    BY <1>1, <2>1, <2>2 DEF DrawIInv, ResidentIsValid, MappingIsHeld, FrameMappings, Mappings,
                            Held, memoryVars, flagVars
  <2> QED BY <1>2, <1>3, <2>3, <2>4 DEF DrawIInv
<1>6. CASE cp.ok
  <2>1. draw' = [draw EXCEPT !.pc = "drain_again"] /\ residency' = residency \union Requested
    BY <1>1, <1>6 DEF AddRequested
  <2>2. /\ draw' \in DrawStates /\ draw'.pc = "drain_again" /\ draw'.ranges = draw.ranges
        /\ draw'.since = draw.since /\ draw'.todo = draw.todo /\ draw'.bound = draw.bound
    BY <2>1 DEF DrawIInv, DrawTypes, DrawStates, Reading
  <2>3. DrawTypes' /\ DrawShape' /\ RequestIsNoted'
    BY <1>1, <1>4, <2>1, <2>2
       DEF DrawIInv, DrawTypes, DrawShape, RequestIsNoted, At, memoryVars
  <2>4. ResidentIsValid'
    <3>1. Awaited = {}
      BY <1>1 DEF DrawIInv, IInv, RequestShape, Awaited, At, Uploading, Copying, Shadowing
    <3>2. \A p \in Requested : p \in valid \/ Queued(p)
      BY <1>1, <1>6, <3>1 DEF DrawIInv, RequestIsNoted
    <3> QED BY <1>1, <2>1, <3>2 DEF DrawIInv, ResidentIsValid, Queued, flagVars
  <2>5. ASSUME NEW p \in Span(draw.ranges) PROVE Recent(p)
    <3>1. CASE p \in residency
      BY <1>1, <3>1 DEF DrawIInv, DrawReads
    <3>2. CASE p \notin residency
      <4>1. p \in Requested /\ p \in Pages
        BY <1>4, <3>2 DEF Span, Missing
      <4>2. p \in gpuData \/ buffer[p] >= cp.since[p]
        BY <1>1, <1>6, <4>1, InvariantIsFresh DEF DrawIInv, RequestedIsFresh, At
      <4>3. cp.since[p] \in Nat /\ draw.since[p] \in Nat /\ buffer[p] \in Int
        <5>1. cp.since[p] \in Nat
          BY <4>1, VersionsAre DEF DrawIInv, IInv, Types, CpStates, Requested
        <5>2. draw.since[p] \in Nat
          BY <1>1, VersionsAre DEF DrawIInv, DrawTypes, DrawStates, DrawShape
        <5>3. buffer[p] \in Int
          BY <4>1 DEF DrawIInv, IInv, Types, TypeOK, Unwritten
        <5> QED BY <5>1, <5>2, <5>3
      <4>4. cp.since[p] >= draw.since[p]
        BY <1>4, <4>1
      <4> QED BY <4>2, <4>3, <4>4 DEF Recent
    <3> QED BY <3>1, <3>2
  <2>6. DrawReads'
    BY <1>1, <2>2, <2>5 DEF DrawIInv, DrawReads, Recent, memoryVars, Reading
  <2>7. MappingIsHeld'
    BY <1>1, <2>2 DEF DrawIInv, MappingIsHeld, FrameMappings, Mappings, Held, memoryVars, flagVars
  <2> QED BY <1>2, <1>3, <2>3, <2>4, <2>6, <2>7 DEF DrawIInv
<1> QED BY <1>5, <1>6

-----------------------------------------------------------------------------
(* The assets. *)

(* What a step of Resolve does to the rest, whatever it finds.              *)
AssetStep ==
  /\ NativeStep /\ residency' = residency /\ framesSeen' = framesSeen \union {"assets"}
  /\ notices' \in NoticeStates /\ notices'.pending = notices.pending
  /\ notices'.overflow = notices.overflow /\ notices'.registered = notices.registered
  /\ draw'.ranges = draw.ranges /\ draw'.since = draw.since /\ draw' \in DrawStates
  /\ draw'.todo \subseteq draw.todo
  /\ draw'.pc \in {"snapshot", "compare"} => draw'.range \in draw.ranges
  /\ draw'.pc \in {"resolve", "snapshot", "compare"}

LEMMA AssetStepKeeps ==
  ASSUME DrawIInv, AssetStep, draw.pc \in {"resolve", "snapshot", "compare"},
         MappingIsHeld',
         \A m \in draw'.bound : \A p \in m.pages : m.bytes[p] >= draw.since[p],
         draw'.pc = "compare" => \A p \in draw'.range : draw'.bytes[p] >= draw.since[p]
  PROVE  DrawIInv'
<1> USE DEF AssetStep
<1>1. IInv' /\ CallbackComesFirst' /\ RequestIsNoted'
  BY NativeStepKeeps
<1>2. DrawTypes'
  BY DEF DrawIInv, DrawTypes
<1>3. DrawShape'
  BY DEF DrawIInv, DrawShape, NativeStep, At, memoryVars, Missing
<1>4. ResidentIsValid'
  BY DEF DrawIInv, ResidentIsValid, NativeStep, flagVars
<1>5. DrawReads'
  BY DEF DrawIInv, DrawReads, Recent, NativeStep, memoryVars, Reading
<1> QED BY <1>1, <1>2, <1>3, <1>4, <1>5 DEF DrawIInv

(* The same for a step that answers the draw.                               *)
LEMMA AnswerEnds ==
  ASSUME DrawIInv, draw.pc \in {"resolve", "snapshot", "compare"}, NativeStep,
         NEW range, NEW bound \in SUBSET Notes, Answer(range, bound),
         \A m \in bound : \A p \in m.pages : m.bytes[p] >= draw.since[p],
         residency' = residency, framesSeen' = framesSeen \union {"assets"},
         notices' \in NoticeStates, notices'.pending = notices.pending,
         notices'.overflow = notices.overflow, notices'.registered = notices.registered,
         \A m \in notices'.current : m.of = "mapping" => Held(m.pages, m.bytes)
  PROVE  DrawIInv'
<1>1. /\ draw' \in DrawStates /\ draw'.pc = "resolve" /\ draw'.todo = draw.todo \ {range}
      /\ draw'.ranges = draw.ranges /\ draw'.since = draw.since
      /\ draw'.bound = draw.bound \union bound
  BY NothingIsVersions DEF Answer, DrawIInv, DrawTypes, DrawStates, Reading
<1>2. AssetStep
  BY <1>1 DEF AssetStep
<1>3. MappingIsHeld'
  BY <1>1 DEF MappingIsHeld, FrameMappings, Mappings, Held, NativeStep, memoryVars, flagVars
<1>4. \A m \in draw'.bound : \A p \in m.pages : m.bytes[p] >= draw.since[p]
  BY <1>1 DEF DrawIInv, DrawReads
<1> QED BY <1>1, <1>2, <1>3, <1>4, AssetStepKeeps

LEMMA NoticesWith ==
  ASSUME notices \in NoticeStates, NEW current \in SUBSET Notes,
         notices' = [notices EXCEPT !.current = current]
  PROVE  /\ notices' \in NoticeStates /\ notices'.pending = notices.pending
         /\ notices'.overflow = notices.overflow /\ notices'.registered = notices.registered
         /\ notices'.current = current
BY DEF NoticeStates

(* What is held now is as recent as the beginning of the draw.              *)
LEMMA HeldIsRecent ==
  ASSUME DrawIInv, draw.pc # "idle", NEW range \in draw.ranges,
         NEW bytes, \A p \in range : bytes[p] = guest[p]
  PROVE  \A p \in range : bytes[p] >= draw.since[p]
<1>1. ASSUME NEW p \in range PROVE bytes[p] >= draw.since[p]
  <2>1. p \in Span(draw.ranges) /\ draw.ranges \in SUBSET Ranges
    BY DEF Span, DrawIInv, DrawTypes, DrawStates
  <2>2. p \in Pages
    BY <2>1, SpanIsPages
  <2>3. draw.since[p] \in Nat /\ draw.since[p] <= guest[p] /\ guest[p] \in Nat
    BY <2>1, <2>2, VersionsAre
       DEF DrawIInv, DrawTypes, DrawStates, DrawShape, IInv, Types, TypeOK
  <2> QED BY <2>3
<1> QED BY <1>1

LEMMA FindKeeps ==
  ASSUME DrawIInv, NEW range, Find(range)
  PROVE  DrawIInv'
<1> DEFINE found == {m \in FrameMappings : m.pages = range}
<1>1. /\ draw.pc = "resolve" /\ range \in draw.todo /\ NativeStep /\ residency' = residency
      /\ framesSeen' = framesSeen \union {"assets"}
  BY DEF Find, NativeStep, DrawIInv, DrawShape
<1>2. /\ notices \in NoticeStates /\ FrameMappings \subseteq Notes /\ range \in draw.ranges
      /\ range \in Ranges /\ \A m \in FrameMappings : m.of = "mapping" /\ Held(m.pages, m.bytes)
  BY <1>1 DEF DrawIInv, DrawTypes, DrawStates, NoticeStates, FrameMappings, Mappings, MappingIsHeld
<1>3. CASE found # {}
  <2>1. notices' = notices /\ Answer(range, Assets(found)) /\ "assets" \in framesSeen
    BY <1>3 DEF Find, FrameMappings
  <2>2. \A m \in notices.current : m.of = "mapping" => Held(m.pages, m.bytes)
    BY <1>2, <2>1 DEF FrameMappings, Mappings
  <2>3. ASSUME NEW m \in Assets(found) PROVE \A p \in m.pages : m.bytes[p] >= draw.since[p]
    <3>1. m \in FrameMappings /\ m.pages = range
      BY DEF Assets
    <3>2. \A p \in m.pages : m.bytes[p] = guest[p]
      BY <1>2, <3>1 DEF Held
    <3> QED BY <1>1, <1>2, <3>1, <3>2, HeldIsRecent
  <2>4. Assets(found) \in SUBSET Notes
    BY <1>2 DEF Assets
  <2> HIDE DEF found
  <2> QED BY <1>1, <1>2, <2>1, <2>2, <2>3, <2>4, AnswerEnds
<1>4. CASE found = {}
  <2>1. /\ draw' = [draw EXCEPT !.pc = "snapshot", !.range = range]
        /\ notices' = [notices EXCEPT !.current = FrameMappings \union {Before(range)}]
    BY <1>4 DEF Find
  <2>2. Before(range) \in Notes /\ Before(range).of = "before"
    BY <1>2 DEF Before, Notes
  <2>3. /\ notices' \in NoticeStates /\ notices'.pending = notices.pending
        /\ notices'.overflow = notices.overflow /\ notices'.registered = notices.registered
        /\ notices'.current = FrameMappings \union {Before(range)}
    BY <1>2, <2>1, <2>2, NoticesWith
  <2>4. /\ draw' \in DrawStates /\ draw'.pc = "snapshot" /\ draw'.todo = draw.todo
        /\ draw'.ranges = draw.ranges /\ draw'.since = draw.since /\ draw'.bound = draw.bound
        /\ draw'.range = range
    <3>1. range \in SUBSET Pages
      BY <1>2 DEF Ranges
    <3> QED BY <2>1, <3>1 DEF DrawIInv, DrawTypes, DrawStates, Reading
  <2>5. AssetStep
    BY <1>1, <1>2, <2>3, <2>4 DEF AssetStep
  <2>6. MappingIsHeld'
    <3>1. FrameMappings' = FrameMappings
      BY <1>1, <1>2, <2>2, <2>3 DEF FrameMappings, Mappings
    <3> QED BY <1>1, <1>2, <2>4, <3>1 DEF MappingIsHeld, Held, NativeStep, memoryVars, flagVars
  <2>7. \A m \in draw'.bound : \A p \in m.pages : m.bytes[p] >= draw.since[p]
    BY <2>4 DEF DrawIInv, DrawReads
  <2> QED BY <1>1, <2>4, <2>5, <2>6, <2>7, AssetStepKeeps
<1> QED BY <1>3, <1>4

LEMMA SnapshotKeeps ==
  ASSUME DrawIInv, Snapshot
  PROVE  DrawIInv'
<1> DEFINE bytes == [p \in draw.range |-> guest[p]]
<1>1. /\ draw.pc = "snapshot" /\ NativeStep /\ residency' = residency /\ framesSeen' = framesSeen
      /\ "assets" \in framesSeen /\ framesSeen' = framesSeen \union {"assets"}
  BY DEF Snapshot, NativeStep, DrawIInv, DrawShape
<1>2. /\ notices \in NoticeStates /\ Mappings \subseteq Notes /\ draw.range \in draw.ranges
      /\ draw.range \in Ranges /\ \A m \in Mappings : m.of = "mapping" /\ Held(m.pages, m.bytes)
  BY <1>1 DEF DrawIInv, DrawTypes, DrawShape, DrawStates, NoticeStates, FrameMappings, Mappings,
              MappingIsHeld
<1>3. draw.range \in SUBSET Pages
  BY <1>2 DEF Ranges
<1>4. CASE CpuAuthoritative(draw.range)
  <2>1. draw' = [draw EXCEPT !.pc = "compare", !.bytes = bytes] /\ notices' = notices
    BY <1>4 DEF Snapshot
  <2>2. /\ bytes \in Versions /\ \A p \in draw.range : bytes[p] = guest[p]
    <3>1. bytes \in [draw.range -> Nat]
      BY <1>3 DEF DrawIInv, IInv, Types, TypeOK
    <3> QED BY <1>3, <3>1, VersionsOf
  <2> HIDE DEF bytes
  <2>3. /\ draw' \in DrawStates /\ draw'.pc = "compare" /\ draw'.todo = draw.todo
        /\ draw'.ranges = draw.ranges /\ draw'.since = draw.since /\ draw'.bound = draw.bound
        /\ draw'.range = draw.range /\ draw'.bytes = bytes
    BY <2>1, <2>2 DEF DrawIInv, DrawTypes, DrawStates, Reading
  <2>4. AssetStep
    BY <1>1, <1>2, <2>1, <2>3 DEF AssetStep
  <2>5. \A p \in draw.range : p \in (valid \ written) \intersect watched
    BY <1>1, <1>3, <1>4 DEF CpuAuthoritative, DrawIInv, IInv, ValidIsCurrent, NativeStep, At
  <2>6. MappingIsHeld'
    <3>1. FrameMappings' = FrameMappings /\ FrameMappings \subseteq Mappings
      BY <1>1, <2>1 DEF FrameMappings, Mappings
    <3> QED BY <1>1, <1>2, <2>2, <2>3, <2>5, <3>1
            DEF MappingIsHeld, Held, NativeStep, memoryVars, flagVars
  <2>7. \A m \in draw'.bound : \A p \in m.pages : m.bytes[p] >= draw.since[p]
    BY <2>3 DEF DrawIInv, DrawReads
  <2>8. \A p \in draw.range : bytes[p] >= draw.since[p]
    BY <1>1, <1>2, <2>2, HeldIsRecent
  <2> QED BY <1>1, <2>3, <2>4, <2>6, <2>7, <2>8, AssetStepKeeps
<1>5. CASE ~CpuAuthoritative(draw.range)
  <2>1. Answer(draw.range, {}) /\ notices' = [notices EXCEPT !.current = Mappings]
    BY <1>5 DEF Snapshot
  <2>2. /\ notices' \in NoticeStates /\ notices'.pending = notices.pending
        /\ notices'.overflow = notices.overflow /\ notices'.registered = notices.registered
        /\ notices'.current = Mappings
    BY <1>2, <2>1, NoticesWith
  <2> QED BY <1>1, <1>2, <2>1, <2>2, AnswerEnds
<1> QED BY <1>4, <1>5

LEMMA CompareKeeps ==
  ASSUME DrawIInv, Compare
  PROVE  DrawIInv'
<1>1. /\ draw.pc = "compare" /\ NativeStep /\ residency' = residency
      /\ "assets" \in framesSeen /\ framesSeen' = framesSeen \union {"assets"}
  BY DEF Compare, NativeStep, DrawIInv, DrawShape
<1>2. /\ notices \in NoticeStates /\ Mappings \subseteq Notes /\ draw.range \in Ranges
      /\ \A m \in notices.current : m.of = "mapping" => Held(m.pages, m.bytes)
      /\ draw.bytes \in Versions
      /\ \A p \in draw.range : draw.bytes[p] >= draw.since[p]
  BY <1>1 DEF DrawIInv, DrawTypes, DrawShape, DrawStates, NoticeStates, FrameMappings, Mappings,
              MappingIsHeld, DrawReads
<1>3. CASE ~Undisputed
  BY <1>1, <1>2, <1>3, AnswerEnds DEF Compare
<1>4. CASE Undisputed
  <2>1. PICK asset \in BOOLEAN, kept \in {Mappings, {}}, store \in BOOLEAN :
          /\ Answer(draw.range, Assets({Mapping(draw.range, draw.bytes, asset)}))
          /\ notices' = [notices EXCEPT
               !.current = IF store THEN kept \union {Mapping(draw.range, draw.bytes, asset)}
                           ELSE Mappings]
    BY <1>4 DEF Compare
  <2> DEFINE mapping == Mapping(draw.range, draw.bytes, asset)
             current == IF store THEN kept \union {mapping} ELSE Mappings
  <2>2. mapping \in Notes /\ mapping.pages = draw.range /\ mapping.bytes = draw.bytes
    BY <1>2 DEF Mapping, Notes
  <2>3. Held(draw.range, draw.bytes)
    BY <1>1, <1>4 DEF DrawIInv, MappingIsHeld
  <2> HIDE DEF mapping
  <2>4. /\ current \in SUBSET Notes
        /\ \A m \in current : m.of = "mapping" => Held(m.pages, m.bytes)
    BY <1>2, <2>2, <2>3 DEF Mappings
  <2>5. /\ Assets({mapping}) \in SUBSET Notes
        /\ \A m \in Assets({mapping}) : \A p \in m.pages : m.bytes[p] >= draw.since[p]
    BY <1>2, <2>2 DEF Assets
  <2>6. Answer(draw.range, Assets({mapping})) /\ notices' = [notices EXCEPT !.current = current]
    BY <2>1 DEF mapping
  <2> HIDE DEF current
  <2>7. /\ notices' \in NoticeStates /\ notices'.pending = notices.pending
        /\ notices'.overflow = notices.overflow /\ notices'.registered = notices.registered
        /\ notices'.current = current
    BY <1>2, <2>4, <2>6, NoticesWith
  <2> QED BY <1>1, <2>4, <2>5, <2>6, <2>7, AnswerEnds
<1> QED BY <1>3, <1>4

LEMMA RecordDrawKeeps ==
  ASSUME DrawIInv, RecordDraw \/ EndDraw
  PROVE  DrawIInv'
<1> USE DEF vars
<1>1. NativeStep /\ UNCHANGED <<residency, framesSeen, notices>> /\ draw.pc \in {"resolve", "record"}
  BY DEF RecordDraw, EndDraw, NativeStep, DrawIInv, DrawShape
<1>2. /\ draw' \in DrawStates /\ draw'.todo = {}
      /\ \/ /\ draw.pc = "resolve" /\ draw'.pc = "record" /\ draw'.ranges = draw.ranges
            /\ draw'.since = draw.since /\ draw'.bound = draw.bound
         \/ draw'.pc = "idle" /\ draw'.bound = {}
  <2>1. CASE RecordDraw
    BY <2>1 DEF RecordDraw, DrawIInv, DrawTypes, DrawStates, Reading
  <2>2. CASE EndDraw
    <3>1. draw' = NoDraw /\ NoDraw.pc = "idle" /\ NoDraw.bound = {} /\ NoDraw.todo = {}
      BY <2>2 DEF EndDraw, NoDraw
    <3> QED BY <3>1, NoDrawIsState
  <2> QED BY <2>1, <2>2
<1>3. IInv' /\ CallbackComesFirst' /\ RequestIsNoted'
  BY <1>1, <1>2, NativeStepKeeps
<1>4. DrawTypes' /\ DrawShape'
  BY <1>1, <1>2 DEF DrawIInv, DrawTypes, DrawShape, NativeStep, At, memoryVars
<1>5. ResidentIsValid' /\ DrawReads' /\ MappingIsHeld'
  BY <1>1, <1>2 DEF DrawIInv, ResidentIsValid, DrawReads, Recent, MappingIsHeld, FrameMappings,
                    Mappings, Held, NativeStep, memoryVars, flagVars, Reading
<1> QED BY <1>3, <1>4, <1>5 DEF DrawIInv

LEMMA NextFrameKeeps ==
  ASSUME DrawIInv, draw.pc = "idle", NextFrame
  PROVE  DrawIInv'
<1>1. /\ At("idle") /\ UNCHANGED <<notices, cp, residency, draw>> /\ framesSeen' = {}
      /\ SetSystemPageBlocksValidWithGpuDataWritten
  BY DEF NextFrame, CloseFrame
<1>2. IInv'
  BY <1>1, FrameEndKeeps DEF DrawIInv, At
<1>3. DrawTypes' /\ DrawShape' /\ ResidentIsValid' /\ RequestIsNoted'
  BY <1>1 DEF DrawIInv, DrawTypes, DrawShape, ResidentIsValid, RequestIsNoted
<1>4. CallbackComesFirst' /\ DrawReads' /\ MappingIsHeld'
  BY <1>1 DEF DrawIInv, CallbackComesFirst, DrawReads, MappingIsHeld, FrameMappings, At, Reading
<1> QED BY <1>2, <1>3, <1>4 DEF DrawIInv

-----------------------------------------------------------------------------
(* The invariant. *)

LEMMA DrawInitEstablishes == DrawInit => DrawIInv
<1> SUFFICES ASSUME DrawInit PROVE DrawIInv
  OBVIOUS
<1>1. /\ Init /\ residency = {} /\ framesSeen = {} /\ draw = NoDraw /\ draw.pc = "idle"
      /\ draw.todo = {} /\ draw.bound = {} /\ draw \in DrawStates
  BY NoDrawIsState DEF DrawInit, NoDraw
<1>2. /\ notices \in NoticeStates /\ notices.pending = <<>> /\ notices.current = {}
      /\ ~notices.registered /\ At("idle")
  <2>1. <<>> \in Seq(SUBSET Pages)
    OBVIOUS
  <2> QED BY <1>1, <2>1 DEF Init, NoNotices, NoticeStates, IdleCp, At
<1>3. IInv
  BY <1>1, InitEstablishes
<1>4. DrawTypes /\ DrawShape /\ ResidentIsValid /\ RequestIsNoted
  BY <1>1, <1>2, SharedMemoryAssumption DEF DrawTypes, DrawShape, ResidentIsValid, RequestIsNoted
<1>5. CallbackComesFirst /\ DrawReads /\ MappingIsHeld
  BY <1>1, <1>2
     DEF CallbackComesFirst, DrawReads, MappingIsHeld, FrameMappings, Mappings, At, Reading
<1> QED BY <1>3, <1>4, <1>5 DEF DrawIInv

LEMMA DrawStepKeeps ==
  ASSUME DrawIInv, DrawStep
  PROVE  DrawIInv'
<1>1. CASE \E rs \in DrawRanges, assets \in AssetModes : BeginDraw(rs, assets)
  BY <1>1, BeginDrawKeeps
<1>2. CASE DrainBefore
  <2>1. draw.pc = "drain" /\ Drain
    BY <1>2 DEF DrainBefore
  <2>2. draw.todo \in SUBSET draw.ranges /\ draw.ranges \in SUBSET draw.ranges
    BY DEF DrawIInv, DrawTypes
  <2>3. CASE Missing(residency') = {}
    <3>1. draw' = [draw EXCEPT !.pc = "resolve", !.todo = draw.ranges]
      BY <1>2, <2>3 DEF DrainBefore, Resolving
    <3> QED BY <2>1, <2>2, <2>3, <3>1, DrainKeeps
  <2>4. CASE Missing(residency') # {}
    <3>1. draw' = [draw EXCEPT !.pc = "request"]
      BY <1>2, <2>4 DEF DrainBefore
    <3>2. draw' = [draw EXCEPT !.pc = "request", !.todo = draw.todo]
      BY <3>1 DEF DrawIInv, DrawTypes, DrawStates
    <3> QED BY <2>1, <2>2, <2>4, <3>2, DrainKeeps
  <2> QED BY <2>3, <2>4
<1>3. CASE DrainAfter
  <2>1. /\ draw.pc = "drain_again" /\ Drain
        /\ draw' = [draw EXCEPT !.pc = "resolve", !.todo = draw.ranges]
    BY <1>3 DEF DrainAfter, Resolving
  <2> QED BY <2>1, DrainKeeps
<1>4. CASE \E r \in Ranges : Find(r)
  BY <1>4, FindKeeps
<1> QED
  BY <1>1, <1>2, <1>3, <1>4, RequestMissingKeeps, AddRequestedKeeps, SnapshotKeeps,
     CompareKeeps, RecordDrawKeeps DEF DrawStep

LEMMA DrawNextKeeps ==
  ASSUME DrawIInv, [DrawNext]_drawVars
  PROVE  DrawIInv'
<1>1. CASE DrawStep
  BY <1>1, DrawStepKeeps
<1>2. CASE draw.pc = "idle" /\ NextFrame
  BY <1>2, NextFrameKeeps
<1>3. CASE draw.pc = "idle" /\ OtherCpCall /\ UNCHANGED nativeVars
  <2>1. ASSUME NEW want \in Ranges, Request(want, TRUE) PROVE DrawIInv'
    <3>1. want \in SUBSET Pages
      BY Zenon DEF Ranges
    <3>2. IInv' /\ MemoryEffect
      BY <2>1, <3>1, RequestKeeps, RequestEffect DEF DrawIInv
    <3> QED BY <1>3, <3>2, MemoryStepKeeps
  <2>2. CASE ClearCache
    <3>1. IInv' /\ MemoryEffect
      BY <2>2, ClearCacheKeeps, ResetEffect DEF DrawIInv
    <3> QED BY <1>3, <3>1, MemoryStepKeeps
  <2> QED BY <1>3, <2>1, <2>2 DEF OtherCpCall
<1>4. CASE draw.pc = "idle" /\ CpContinue /\ UNCHANGED nativeVars
  <2>1. IInv' /\ MemoryEffect
    BY <1>4, CpContinueKeeps, ContinueEffect DEF DrawIInv
  <2> QED BY <1>4, <2>1, MemoryStepKeeps
<1>5. CASE draw.pc = "requested" /\ ~At("returned") /\ CpContinue /\ UNCHANGED nativeVars
  <2>1. IInv' /\ MemoryEffect
    BY <1>5, CpContinueKeeps, ContinueEffect DEF DrawIInv
  <2>2. cp.pc \in Requesting
    BY <1>5 DEF DrawIInv, DrawShape, At
  <2>3. RequestGoesOn
    BY <1>5, <2>2, ContinueGoesOn DEF DrawIInv
  <2> QED BY <1>5, <2>1, <2>3, MemoryStepKeeps
<1>6. CASE InvalidateAllPages /\ UNCHANGED nativeVars
  <2>1. IInv' /\ MemoryEffect /\ UNCHANGED <<cp, buffer, gpuData>>
    BY <1>6, InvalidateAllPagesKeeps, ResetEffect DEF DrawIInv, InvalidateAllPages, memoryVars
  <2> QED BY <1>6, <2>1, MemoryStepKeeps
<1>7. CASE \E t \in Threads : GuestStep(t) /\ UNCHANGED nativeVars
  <2>1. PICK t \in Threads : GuestStep(t) /\ UNCHANGED nativeVars
    BY <1>7
  <2>2. IInv' /\ MemoryEffect /\ UNCHANGED <<cp, buffer, gpuData>>
    BY <2>1, GuestStepKeeps, GuestEffect DEF DrawIInv
  <2> QED BY <2>1, <2>2, MemoryStepKeeps
<1>8. CASE UNCHANGED drawVars
  <2> USE <1>8 DEF drawVars, nativeVars, vars
  <2>1. IInv'
    BY StutterKeeps DEF DrawIInv
  <2>2. DrawTypes' /\ DrawShape' /\ ResidentIsValid' /\ RequestIsNoted'
    BY DEF DrawIInv, DrawTypes, DrawShape, ResidentIsValid, RequestIsNoted, At, Requested,
           Awaited, Queued, Missing, memoryVars, flagVars
  <2>3. CallbackComesFirst' /\ DrawReads' /\ MappingIsHeld'
    BY DEF DrawIInv, CallbackComesFirst, DrawReads, MappingIsHeld, FrameMappings, Mappings, Held,
           At, Requested, Queued, Recent, Undisputed, Before, memoryVars, flagVars
  <2> QED BY <2>1, <2>2, <2>3 DEF DrawIInv
<1> QED BY <1>1, <1>2, <1>3, <1>4, <1>5, <1>6, <1>7, <1>8 DEF DrawNext

(* NativeGeometryPass::Record's bitmap and ranges, the queue of invalidations *)
(* and the asset mappings agree with shared memory's flags at every step.     *)
THEOREM DrawInvariance == DrawSpec => []DrawIInv
<1> QED BY DrawInitEstablishes, DrawNextKeeps, PTL DEF DrawSpec

-----------------------------------------------------------------------------
(* What follows from it. *)

LEMMA DrawInvariantImplies ==
  ASSUME DrawIInv
  PROVE  MemoryInv /\ ResidentIsValid /\ DrawIsFresh /\ MappingIsCurrent
<1>1. DrawTypeOK
  <2>1. \A v \in Notes : v.of \in {"before", "mapping"}
    BY DEF Notes
  <2>2. notices.current \subseteq Notes
    BY DEF DrawIInv, DrawTypes, NoticeStates
  <2>3. \A v \in notices.current : v.pages \in Ranges
    BY NotesAreOfPages DEF DrawIInv, DrawTypes
  <2> QED BY <2>1, <2>2, <2>3 DEF DrawIInv, DrawTypes, DrawTypeOK, DrawStates, IInv, Types
<1>2. MemoryInv
  BY <1>1, InvariantIsFresh DEF MemoryInv, DrawIInv, IInv
<1>3. DrawIsFresh
  BY DEF DrawIInv, DrawReads, DrawIsFresh, Recent, Reading
<1>4. MappingIsCurrent
  BY DEF DrawIInv, MappingIsHeld, MappingIsCurrent, Held
<1> QED BY <1>2, <1>3, <1>4 DEF DrawIInv

(* With the geometry pass as its client and the asset cache among its       *)
(* watches, shared memory keeps its promises: valid pages are current, the  *)
(* mirror shows no other, an answered request made its pages recent.        *)
THEOREM MemoryInvAlways == DrawSpec => []MemoryInv
<1> QED BY DrawInvariance, DrawInvariantImplies, PTL

(* "A range can never be read after the data behind it changed": a page of  *)
(* g_residency that is no longer valid is in the queue of                   *)
(* ResidencyInvalidated, or goes with the overflow or with the frame.       *)
THEOREM ResidentIsValidAlways == DrawSpec => []ResidentIsValid
<1> QED BY DrawInvariance, DrawInvariantImplies, PTL

(* Whatever NativeGeometryPass::Record skips, finds in an asset or requests *)
(* again, the recorded draw reads nothing older than its beginning.         *)
THEOREM DrawIsFreshAlways == DrawSpec => []DrawIsFresh
<1> QED BY DrawInvariance, DrawInvariantImplies, PTL

(* NativeAssetCache never answers with bytes the guest has overwritten, nor *)
(* for a page the GPU has written.                                          *)
THEOREM MappingIsCurrentAlways == DrawSpec => []MappingIsCurrent
<1> QED BY DrawInvariance, DrawInvariantImplies, PTL

===============================================================================
