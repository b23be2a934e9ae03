-------------------------- MODULE SharedMemory_proofs --------------------------
(***************************************************************************)
(* Shared memory's safety, for any number of pages and guest threads, any   *)
(* sizes of the blocks and any number of guest writes.                      *)
(***************************************************************************)
EXTENDS SharedMemory, FiniteSetTheorems, WellFoundedInduction, TLAPS

(* Where the CP has pages that are marked valid and not copied yet.         *)
Shadowing == {"inspect", "changed", "refused", "fallback"}
Copying == {"protect", "copy"} \union Shadowing
Uploading == {"alloc", "finish"} \union Copying
Requesting == {"mirror", "scan", "upload"} \union Uploading

(* What the CP does between two calls, or with an answer in its hands.      *)
Holding == {"idle", "returned", "gpu_valid", "gpu_protect", "clear"}
Faulting == {"mirror", "flags", "unwatch"}

Versions == UNION {[S -> Nat] : S \in SUBSET Pages}

CpStates ==
  [pc : Requesting \union Holding, write : BOOLEAN, since : Versions, want : SUBSET Pages,
   need : SUBSET Pages, todo : SUBSET Pages, run : SUBSET Pages,
   left : SUBSET Pages, snap : Versions, mirrored : BOOLEAN,
   shadowed : BOOLEAN, retry : BOOLEAN, ok : BOOLEAN]
ThreadStates ==
  [pc : {"idle", "fault", "store"} \union Faulting, page : Pages, range : SUBSET Pages]

(* The shapes behind TypeOK, of the CP and the guest threads as well.       *)
Types ==
  /\ TypeOK
  /\ cp \in CpStates
  /\ thread \in [Threads -> ThreadStates]

(* A fault is handled in the critical region, from the mirror's bits to the *)
(* end of the watch; what it has cleared stays cleared, and of the pages    *)
(* the GPU wrote its range has the faulting one at most.                    *)
FaultOwnsRange ==
  \A t \in Threads :
    /\ thread[t].pc \in Faulting <=> lock = t
    /\ thread[t].pc = "flags" => mirror \intersect thread[t].range = {}
    /\ thread[t].pc \in {"mirror", "flags"} =>
         written \intersect thread[t].range \subseteq {thread[t].page}
    /\ thread[t].pc = "unwatch" => valid \intersect thread[t].range = {}

(* The pages of a request on their way: asked for, missing, allocated.      *)
RequestShape ==
  /\ cp.want \subseteq Requested
  /\ cp.need \subseteq cp.want /\ cp.todo \subseteq cp.want /\ cp.left \subseteq cp.want
  /\ cp.pc \notin Copying \union {"mirror"} => cp.left = {}
  /\ cp.pc \notin Uploading => cp.todo = {} \/ At("upload")
  /\ At("finish") => cp.todo = {}
  /\ cp.pc \in Copying => cp.left # {} /\ cp.left \intersect written = {}
  /\ At("protect") => cp.run = cp.left
  /\ At("fallback") => cp.run # {} /\ cp.run \subseteq cp.left
  /\ cp.pc \in {"mirror", "scan"} => cp.todo = {}
  /\ cp.todo \intersect written = {}

(* The GPU's data behind the flags: a written page holds what it wrote, and *)
(* a page that is being marked after a GPU write is a written one.          *)
WrittenIsGpu ==
  /\ written \subseteq gpuData
  /\ At("gpu_valid") => Requested \subseteq gpuData
  /\ At("gpu_protect") => Requested \intersect valid \subseteq written

(* Whether the shadow takes part: it does in a first attempt, and knows     *)
(* nothing of the pages of a second one or of a refused chunk.              *)
ShadowTakesPart ==
  /\ cp.retry => /\ ~cp.shadowed
                 /\ \A p \in cp.want : modes.shadow => shadow[p] = Absent
  /\ cp.pc \in Uploading /\ ~cp.retry => cp.shadowed = modes.shadow
  /\ cp.pc \in Shadowing => cp.shadowed
  /\ At("copy") => ~cp.shadowed
  /\ At("fallback") => \A p \in cp.run : shadow[p] = Absent
  /\ At("changed") /\ ~Publishable => \A p \in Pages : shadow[p] = Absent

(* What a page of the request has to be once it is settled.                 *)
Fresh(p) == p \in gpuData \/ buffer[p] >= cp.since[p]

Unsettled == IF At("scan") THEN cp.want ELSE cp.left \union cp.todo

SettledIsFresh ==
  /\ \A p \in Requested : cp.since[p] <= guest[p]
  /\ cp.pc \in Requesting \/ (At("returned") /\ cp.ok) =>
       \A p \in Requested \ Unsettled : Fresh(p)

(* The captured bytes of a chunk are the guest's as long as the pages are   *)
(* valid, and so are the buffer's in the pages found unchanged.             *)
CaptureIsCurrent ==
  At("changed") =>
    /\ DOMAIN cp.snap \subseteq Chunk
    /\ \A p \in DOMAIN cp.snap :
         /\ p \in valid \ written => cp.snap[p] = guest[p]
         /\ cp.snap[p] >= cp.since[p]
    /\ \A p \in Chunk \ DOMAIN cp.snap :
         /\ p \in valid \ written => buffer[p] = guest[p]
         /\ Fresh(p)

IInv ==
  /\ Types
  /\ FaultOwnsRange
  /\ RequestShape
  /\ WrittenIsGpu
  /\ ValidIsCurrent
  /\ MirrorIsValid
  /\ ShadowTakesPart
  /\ ShadowIsBuffer
  /\ SettledIsFresh
  /\ CaptureIsCurrent

-----------------------------------------------------------------------------
(* Operators.                                                               *)

LEMMA MinOfNaturals ==
  ASSUME NEW S \in SUBSET Nat, S # {}
  PROVE  Min(S) \in S /\ \A x \in S : Min(S) <= x
<1> DEFINE Less == {ss \in Nat \X Nat : ss[1] < ss[2]}
<1>1. IsWellFoundedOn(Less, Nat)
  BY NatLessThanWellFounded, Zenon DEF OpToRel
<1>2. PICK x \in S : \A y \in S : ~(<<y, x>> \in Less)
  BY <1>1, WFMin
<1>3. ASSUME NEW y \in S PROVE x <= y
  <2>1. <<y, x>> \in Nat \X Nat /\ ~(<<y, x>> \in Less)
    BY <1>2
  <2>2. ~(y < x)
    BY <2>1
  <2> QED BY <2>2
<1> QED BY <1>3 DEF Min

LEMMA PagesAreNaturals == Pages \subseteq Nat /\ 0 \in Pages
BY SharedMemoryAssumption DEF Pages

LEMMA NothingIsVersions == <<>> \in Versions /\ DOMAIN <<>> = {}
<1>1. <<>> = [p \in {} |-> 0]
  OBVIOUS
<1> QED BY <1>1 DEF Versions

LEMMA VersionsOf ==
  ASSUME NEW S \in SUBSET Pages, NEW f \in [S -> Nat]
  PROVE  f \in Versions /\ DOMAIN f = S
BY DEF Versions

LEMMA VersionsAre ==
  ASSUME NEW f \in Versions
  PROVE  DOMAIN f \in SUBSET Pages /\ f \in [DOMAIN f -> Nat]
BY DEF Versions

(* A chunk is part of what is left, and not empty.                          *)
LEMMA ChunkOfLeft ==
  ASSUME Types, cp.left # {}
  PROVE  Chunk \subseteq cp.left /\ Chunk # {} /\ Min(cp.left) \in cp.left
<1>1. cp.left \in SUBSET Nat
  BY PagesAreNaturals DEF Types, TypeOK
<1>2. Min(cp.left) \in cp.left /\ Min(cp.left) \in Nat
  BY <1>1, MinOfNaturals
<1>3. Min(cp.left) \in Chunk
  BY <1>1, <1>2, SharedMemoryAssumption DEF Chunk, FirstRun
<1> QED BY <1>2, <1>3 DEF Chunk, FirstRun

-----------------------------------------------------------------------------
LEMMA IdleStates == IdleCp \in CpStates /\ IdleThread \in ThreadStates
<1>1. IdleThread \in ThreadStates
  BY PagesAreNaturals DEF IdleThread, ThreadStates, Faulting
<1>2. IdleCp \in CpStates
  <2> DEFINE none == <<>>
  <2>1. none \in Versions
    BY NothingIsVersions
  <2>2. IdleCp = [pc |-> "idle", write |-> FALSE, since |-> none, want |-> {},
           need |-> {}, todo |-> {}, run |-> {}, left |-> {}, snap |-> none,
           mirrored |-> FALSE, shadowed |-> FALSE, retry |-> FALSE, ok |-> FALSE]
    BY DEF IdleCp
  <2> HIDE DEF none
  <2> QED BY <2>1, <2>2 DEF CpStates, Holding, Requesting
<1> QED BY <1>1, <1>2

LEMMA InitEstablishes == Init => IInv
<1> SUFFICES ASSUME Init PROVE IInv
  OBVIOUS
<1> USE NothingIsVersions, PagesAreNaturals, SharedMemoryAssumption
    DEF Init, IdleCp, IdleThread, At
<1>1. TypeOK
  BY DEF TypeOK, Absent, Unwritten
<1>2. Types
  BY <1>1, IdleStates DEF Types
<1>3. FaultOwnsRange /\ RequestShape /\ WrittenIsGpu /\ ValidIsCurrent /\ MirrorIsValid
  BY DEF FaultOwnsRange, RequestShape, WrittenIsGpu, ValidIsCurrent, MirrorIsValid,
         Faulting, Copying, Uploading, Shadowing, Requested
<1>4. ShadowTakesPart /\ ShadowIsBuffer /\ SettledIsFresh /\ CaptureIsCurrent
  BY DEF ShadowTakesPart, ShadowIsBuffer, SettledIsFresh, CaptureIsCurrent,
         Copying, Uploading, Shadowing, Requesting, Requested
<1> QED BY <1>2, <1>3, <1>4 DEF IInv

-----------------------------------------------------------------------------
(* The CP asks and scans.                                                   *)

LEMMA RequestKeeps ==
  ASSUME IInv, NEW want \in SUBSET Pages, NEW write \in BOOLEAN, Request(want, write)
  PROVE  IInv'
<1> USE NothingIsVersions
    DEF IInv, At, Requested, memoryVars, flagVars, guestVars,
        Requesting, Uploading, Copying, Shadowing, Holding
<1>1. PICK mirrored \in BOOLEAN :
        /\ modes' = [modes EXCEPT !.mirror = mirrored]
        /\ mirror' = IF mirrored = modes.mirror THEN mirror ELSE {}
        /\ cp' = [IdleCp EXCEPT !.pc = IF mirrored THEN "mirror" ELSE "scan",
                                !.mirrored = mirrored, !.write = write,
                                !.want = want, !.left = IF mirrored THEN want ELSE {},
                                !.since = [p \in want |-> guest[p]]]
  BY SharedMemoryAssumption DEF Request
<1>2. [p \in want |-> guest[p]] \in Versions
  BY VersionsOf DEF Types, TypeOK
<1>3. cp' \in CpStates
  BY <1>1, <1>2, IdleStates, ZenonT(60) DEF CpStates
<1>4. /\ cp'.pc = IF mirrored THEN "mirror" ELSE "scan"
      /\ cp'.left = IF mirrored THEN want ELSE {}
      /\ cp'.want = want /\ cp'.since = [p \in want |-> guest[p]]
      /\ cp'.todo = {} /\ cp'.need = {} /\ ~cp'.retry
  BY <1>1 DEF IdleCp
<1>5. cp.pc = "idle" /\ UNCHANGED <<guest, buffer, gpuData, valid, written, watched,
                                    shadow, tokens, lock, thread>>
  BY DEF Request
<1>6. Types'
  BY <1>1, <1>3, <1>4, <1>5 DEF Types, TypeOK
<1>7. FaultOwnsRange' /\ MirrorIsValid'
  BY <1>1, <1>4, <1>5 DEF FaultOwnsRange, MirrorIsValid, Uncopied, RequestShape
<1>8. RequestShape' /\ WrittenIsGpu'
  BY <1>4, <1>5 DEF RequestShape, WrittenIsGpu
<1>9. ValidIsCurrent'
  BY <1>4, <1>5 DEF ValidIsCurrent, Uncopied, RequestShape
<1>10. ShadowTakesPart' /\ ShadowIsBuffer'
  BY <1>1, <1>4, <1>5 DEF ShadowTakesPart, ShadowIsBuffer, Types, TypeOK
<1>11. SettledIsFresh' /\ CaptureIsCurrent'
  BY <1>4, <1>5 DEF SettledIsFresh, CaptureIsCurrent, Unsettled, Types, TypeOK
<1> QED BY <1>6, <1>7, <1>8, <1>9, <1>10, <1>11

(* A step of the CP that leaves contents, flags and the mirror alone.       *)
LEMMA FlagsKept ==
  ASSUME IInv, UNCHANGED <<guest, buffer, flagVars, mirror, guestVars>>,
         cp.pc \notin {"protect", "gpu_protect"}, Uncopied' = Uncopied
  PROVE  FaultOwnsRange' /\ ValidIsCurrent' /\ MirrorIsValid'
BY DEF IInv, FaultOwnsRange, ValidIsCurrent, MirrorIsValid, flagVars, guestVars, At, Requested

LEMMA ReturnedState ==
  ASSUME Types, NEW ok \in BOOLEAN, Return(ok)
  PROVE  /\ cp' \in CpStates /\ cp'.pc = "returned" /\ cp'.ok = ok
         /\ cp'.since = cp.since /\ cp'.write = cp.write
         /\ cp'.want = {} /\ cp'.todo = {} /\ cp'.left = {} /\ cp'.need = {}
         /\ ~cp'.retry /\ Uncopied' = {}
<1>1. cp' = [IdleCp EXCEPT !.pc = "returned", !.ok = ok,
                           !.write = cp.write, !.since = cp.since]
  BY DEF Return
<1>2. cp' \in CpStates
  BY <1>1, IdleStates DEF Types, CpStates, Holding
<1>3. /\ cp'.pc = "returned" /\ cp'.ok = ok
      /\ cp'.since = cp.since /\ cp'.write = cp.write
      /\ cp'.want = {} /\ cp'.todo = {} /\ cp'.left = {} /\ cp'.need = {}
      /\ ~cp'.retry
  BY <1>1 DEF IdleCp
<1> QED BY <1>2, <1>3 DEF Uncopied, At

(* An answer, once every page of it is fresh, ends the request.             *)
LEMMA ReturnKeeps ==
  ASSUME IInv, NEW ok \in BOOLEAN, Return(ok), cp.pc \in Requesting,
         UNCHANGED <<guest, written>>, written \subseteq gpuData',
         ok => \A p \in Requested : p \in gpuData' \/ buffer'[p] >= cp.since[p]
  PROVE  RequestShape' /\ WrittenIsGpu' /\ SettledIsFresh' /\ CaptureIsCurrent'
<1>1. /\ cp'.pc = "returned" /\ cp'.ok = ok /\ cp'.since = cp.since
      /\ cp'.want = {} /\ cp'.need = {} /\ cp'.todo = {} /\ cp'.left = {}
  BY ReturnedState DEF IInv
<1> USE DEF IInv, At, Requested, Requesting, Uploading, Copying, Shadowing
<1>2. RequestShape' /\ WrittenIsGpu' /\ CaptureIsCurrent'
  BY <1>1 DEF RequestShape, WrittenIsGpu, CaptureIsCurrent
<1>3. SettledIsFresh'
  BY <1>1 DEF SettledIsFresh, Unsettled, Fresh
<1> QED BY <1>2, <1>3

(* A page is fresh that the flags say is current.                           *)
LEMMA ValidIsFresh ==
  ASSUME IInv, NEW p \in Requested, p \in valid, p \notin Uncopied
  PROVE  Fresh(p)
<1>1. cp.since \in Versions /\ p \in Pages
  BY VersionsAre DEF IInv, Types, CpStates, Requested
<1>2. cp.since[p] \in Nat /\ guest[p] \in Nat /\ cp.since[p] <= guest[p]
  BY <1>1, VersionsAre DEF IInv, Types, TypeOK, Requested, SettledIsFresh
<1> QED BY <1>2 DEF IInv, ValidIsCurrent, WrittenIsGpu, Fresh

(* An answer given when nothing is left to copy; the shadow may forget.     *)
LEMMA AnswerKeeps ==
  ASSUME IInv, NEW ok \in BOOLEAN, Return(ok), cp.pc \in Requesting, Uncopied = {},
         ok => \A p \in Requested : Fresh(p),
         UNCHANGED <<memoryVars, flagVars, modes, guestVars>>, tokens' \subseteq tokens,
         mirror' \subseteq mirror \union valid, Free \/ UNCHANGED mirror,
         shadow' \in [Pages -> Nat \union {Absent}],
         \A p \in Pages : shadow'[p] \in {shadow[p], Absent}
  PROVE  IInv'
<1> USE DEF IInv, At, Requested, memoryVars, flagVars, guestVars,
            Requesting, Uploading, Copying, Shadowing, Holding
<1>1. /\ cp' \in CpStates /\ cp'.pc = "returned" /\ cp'.left = {} /\ cp'.todo = {}
      /\ cp'.need = {} /\ ~cp'.retry /\ Uncopied' = {}
  BY ReturnedState
<1>2. RequestShape' /\ WrittenIsGpu' /\ SettledIsFresh' /\ CaptureIsCurrent'
  BY ReturnKeeps DEF Fresh, WrittenIsGpu
<1>3. Types'
  BY <1>1 DEF Types, TypeOK
<1>4. FaultOwnsRange' /\ MirrorIsValid'
  BY <1>1, SharedMemoryAssumption DEF FaultOwnsRange, MirrorIsValid, Free, Faulting
<1>5. cp.pc \notin {"protect", "gpu_protect"}
  BY DEF Uncopied, RequestShape
<1>6. ValidIsCurrent'
  BY <1>1, <1>5 DEF ValidIsCurrent
<1>7. ShadowTakesPart' /\ ShadowIsBuffer'
  BY <1>1 DEF ShadowTakesPart, ShadowIsBuffer
<1> QED BY <1>2, <1>3, <1>4, <1>6, <1>7

(* A move of the CP within a request, that leaves some pages to upload and  *)
(* to copy, and nothing else of the request different.                      *)
Moves(pc, todo, left) ==
  /\ cp' \in CpStates
  /\ cp'.pc = pc /\ cp'.todo = todo /\ cp'.left = left
  /\ cp'.want = cp.want /\ cp'.since = cp.since /\ cp'.retry = cp.retry

LEMMA CheckMirrorKeeps ==
  ASSUME IInv, CheckMirror
  PROVE  IInv'
<1> USE DEF IInv, At, Requested, memoryVars, flagVars, cacheVars, guestVars,
            Requesting, Uploading, Copying, Shadowing, Holding
<1>1. cp.pc = "mirror" /\ UNCHANGED <<memoryVars, flagVars, cacheVars, guestVars>>
  BY DEF CheckMirror
<1> DEFINE word == cp.left \intersect Word(Min(cp.left))
<1>2. \/ cp' = [cp EXCEPT !.pc = "scan", !.left = {}]
      \/ cp.left \subseteq mirror /\ Return(TRUE)
      \/ cp' = [cp EXCEPT !.left = @ \ word] /\ word \subseteq mirror
  BY DEF CheckMirror
<1> HIDE DEF word
<1>3. \A p \in Requested \ cp.left : Fresh(p)
  BY <1>1 DEF SettledIsFresh, Unsettled, RequestShape
<1>4. \A p \in Requested : p \in mirror => Fresh(p)
  BY <1>1, ValidIsFresh DEF MirrorIsValid, Uncopied
<1>5. CASE cp.left \subseteq mirror /\ Return(TRUE)
  BY <1>1, <1>3, <1>4, <1>5, AnswerKeeps DEF Types, TypeOK, Uncopied
<1>6. ASSUME NEW pc \in {"mirror", "scan"}, NEW left \in SUBSET cp.left,
             Moves(pc, {}, left), cp'.need = cp.need, cp'.shadowed = cp.shadowed,
             pc = "scan" => left = {}, cp.left \ left \subseteq mirror \/ pc = "scan"
      PROVE  IInv'
  <2>1. FaultOwnsRange' /\ ValidIsCurrent' /\ MirrorIsValid'
    BY <1>1, <1>6, FlagsKept DEF Moves, Uncopied
  <2>2. Types' /\ RequestShape' /\ WrittenIsGpu' /\ ShadowTakesPart' /\ ShadowIsBuffer'
    BY <1>1, <1>6 DEF Moves, Types, TypeOK, RequestShape, WrittenIsGpu, ShadowTakesPart,
                      ShadowIsBuffer
  <2>3. SettledIsFresh' /\ CaptureIsCurrent'
    BY <1>1, <1>3, <1>4, <1>6
       DEF Moves, SettledIsFresh, CaptureIsCurrent, Unsettled, Fresh, RequestShape
  <2> QED BY <2>1, <2>2, <2>3
<1>7. CASE cp' = [cp EXCEPT !.pc = "scan", !.left = {}]
  <2>1. Moves("scan", {}, {}) /\ cp'.need = cp.need /\ cp'.shadowed = cp.shadowed
    BY <1>1, <1>7 DEF Moves, Types, CpStates, RequestShape
  <2> QED BY <1>6, <2>1
<1>8. CASE cp' = [cp EXCEPT !.left = @ \ word] /\ word \subseteq mirror
  <2>1. /\ Moves("mirror", {}, cp.left \ word)
        /\ cp'.need = cp.need /\ cp'.shadowed = cp.shadowed
    BY <1>1, <1>8 DEF Moves, Types, CpStates, RequestShape
  <2> QED BY <1>6, <1>8, <2>1
<1> QED BY <1>2, <1>5, <1>7, <1>8

LEMMA FailureKeeps ==
  ASSUME IInv, AllocationFailure \/ UploadFailure
  PROVE  IInv'
<1>1. /\ cp.pc \in {"scan", "alloc"} /\ Return(FALSE)
      /\ UNCHANGED <<memoryVars, flagVars, cacheVars, guestVars>>
  BY DEF AllocationFailure, UploadFailure, At
<1>2. Uncopied = {}
  BY <1>1 DEF IInv, RequestShape, Uncopied, Copying, Shadowing
<1> QED BY <1>1, <1>2, AnswerKeeps DEF IInv, Types, TypeOK, Requesting, Uploading, cacheVars

LEMMA ScanKeeps ==
  ASSUME IInv, Scan
  PROVE  IInv'
<1> USE DEF IInv, At, Requested, memoryVars, flagVars, guestVars,
            Requesting, Uploading, Copying, Shadowing, Holding
<1>1. /\ cp.pc = "scan" /\ Free /\ mirror' = mirror \union Promoted
      /\ UNCHANGED <<memoryVars, flagVars, shadow, tokens, modes, guestVars>>
      /\ cp.left = {} /\ cp.todo = {}
  BY DEF Scan, RequestShape
<1>2. Promoted \subseteq valid
  BY DEF Promoted
<1>3. \A p \in Requested \ cp.want : Fresh(p)
  BY <1>1 DEF SettledIsFresh, Unsettled
<1>4. \A p \in Requested : p \in valid => Fresh(p)
  BY <1>1, ValidIsFresh DEF Uncopied
<1>5. CASE cp.want \subseteq valid
  BY <1>1, <1>2, <1>3, <1>4, <1>5, AnswerKeeps DEF Scan, Types, TypeOK, Uncopied
<1>6. CASE ~(cp.want \subseteq valid)
  <2>1. cp' = [cp EXCEPT !.pc = "upload", !.need = cp.want \ valid, !.todo = cp.want \ valid]
    BY <1>6 DEF Scan
  <2>2. /\ Moves("upload", cp.want \ valid, {}) /\ cp'.need = cp.want \ valid
        /\ cp'.shadowed = cp.shadowed
    BY <1>1, <2>1 DEF Moves, Types, CpStates
  <2>3. Types' /\ RequestShape' /\ WrittenIsGpu' /\ ShadowTakesPart' /\ ShadowIsBuffer'
    BY <1>1, <1>2, <2>2 DEF Moves, Types, TypeOK, RequestShape, WrittenIsGpu, ShadowTakesPart,
                            ShadowIsBuffer
  <2>4. FaultOwnsRange' /\ ValidIsCurrent' /\ MirrorIsValid'
    BY <1>1, <1>2, <2>2, SharedMemoryAssumption
       DEF Moves, FaultOwnsRange, ValidIsCurrent, MirrorIsValid, Free, Faulting, Uncopied
  <2>5. SettledIsFresh' /\ CaptureIsCurrent'
    BY <1>1, <1>3, <1>4, <2>2
       DEF Moves, SettledIsFresh, CaptureIsCurrent, Unsettled, Fresh
  <2> QED BY <2>3, <2>4, <2>5
<1> QED BY <1>5, <1>6

-----------------------------------------------------------------------------
(* The CP uploads.                                                          *)

LEMMA GotoMoves ==
  ASSUME Types, NEW pc \in Requesting \union Holding, Goto(pc)
  PROVE  /\ Moves(pc, cp.todo, cp.left)
         /\ cp'.need = cp.need /\ cp'.shadowed = cp.shadowed /\ cp'.run = cp.run
         /\ cp'.write = cp.write /\ cp'.ok = cp.ok
BY DEF Goto, Moves, Types, CpStates

LEMMA RunOfTodo ==
  ASSUME NEW S \in SUBSET Pages, NEW last \in FirstRun(S)
  PROVE  Min(S) .. last \subseteq S /\ Min(S) .. last # {}
<1>1. last \in S /\ Min(S) .. last \subseteq S
  BY DEF FirstRun
<1>2. Min(S) \in Nat /\ last \in Nat /\ Min(S) <= last
  BY <1>1, PagesAreNaturals, MinOfNaturals
<1> QED BY <1>1, <1>2

LEMMA BeginUploadKeeps ==
  ASSUME IInv, BeginUpload
  PROVE  IInv'
<1> USE DEF IInv, At, Requested, memoryVars, flagVars, guestVars,
            Requesting, Uploading, Copying, Shadowing, Holding
<1>1. /\ cp.pc = "upload" /\ cp.left = {}
      /\ UNCHANGED <<memoryVars, flagVars, mirror, guestVars>>
  BY DEF BeginUpload, RequestShape
<1>2. /\ Moves("alloc", cp.todo, {}) /\ cp'.need = cp.need
      /\ modes' \in [mirror : BOOLEAN, shadow : BOOLEAN]
      /\ shadow' \in [Pages -> Nat \union {Absent}]
      /\ tokens' \subseteq {"request", "capture"}
      /\ \A p \in Pages :
           modes'.shadow /\ shadow'[p] # Absent => modes.shadow /\ shadow' = shadow
      /\ cp.retry => UNCHANGED <<modes, shadow>> /\ ~cp'.shadowed
      /\ ~cp.retry => cp'.shadowed = modes'.shadow
  <2>1. CASE cp.retry
    BY <1>1, <2>1, GotoMoves DEF BeginUpload, Types, TypeOK, ShadowTakesPart
  <2>2. CASE ~cp.retry
    <3>1. PICK shadowed \in BOOLEAN :
            /\ modes' = [modes EXCEPT !.shadow = shadowed]
            /\ shadow' = IF shadowed = modes.shadow THEN shadow ELSE [p \in Pages |-> Absent]
            /\ tokens' = IF shadowed THEN {"request"} ELSE {}
            /\ cp' = [cp EXCEPT !.pc = "alloc", !.shadowed = shadowed]
      BY <2>2, SharedMemoryAssumption DEF BeginUpload
    <3>2. Moves("alloc", cp.todo, {}) /\ cp'.need = cp.need /\ cp'.shadowed = shadowed
      BY <1>1, <3>1 DEF Moves, Types, CpStates
    <3> QED BY <1>1, <2>2, <3>1, <3>2 DEF Types, TypeOK
  <2> QED BY <2>1, <2>2
<1>3. FaultOwnsRange' /\ ValidIsCurrent' /\ MirrorIsValid'
  BY <1>1, <1>2, FlagsKept DEF Moves, Uncopied
<1>4. Types' /\ RequestShape' /\ WrittenIsGpu'
  BY <1>1, <1>2 DEF Moves, Types, TypeOK, RequestShape, WrittenIsGpu
<1>5. ShadowTakesPart' /\ ShadowIsBuffer'
  BY <1>1, <1>2 DEF Moves, ShadowTakesPart, ShadowIsBuffer
<1>6. SettledIsFresh' /\ CaptureIsCurrent'
  BY <1>1, <1>2 DEF Moves, SettledIsFresh, CaptureIsCurrent, Unsettled, Fresh
<1> QED BY <1>3, <1>4, <1>5, <1>6

LEMMA AllocateRunKeeps ==
  ASSUME IInv, AllocateRun
  PROVE  IInv'
<1> USE DEF IInv, At, Requested, memoryVars, flagVars, guestVars,
            Requesting, Uploading, Copying, Shadowing, Holding
<1>1. /\ cp.pc = "alloc" /\ cp.left = {} /\ Free
      /\ UNCHANGED <<memoryVars, watched, shadow, tokens, modes, guestVars>>
  BY DEF AllocateRun, RequestShape
<1>2. PICK last \in FirstRun(cp.todo) :
        /\ MakeRangeValid(Min(cp.todo) .. last, FALSE)
        /\ cp' = [cp EXCEPT !.pc = "protect", !.run = Min(cp.todo) .. last,
                            !.left = Min(cp.todo) .. last,
                            !.todo = @ \ (Min(cp.todo) .. last)]
  BY DEF AllocateRun
<1> DEFINE run == Min(cp.todo) .. last
<1>3. run \subseteq cp.todo /\ run # {} /\ cp.todo \subseteq Pages
  BY RunOfTodo DEF Types, CpStates
<1>4. mirror' = mirror \ run /\ valid' = valid \union run /\ written' = written \ run
  BY <1>2 DEF MakeRangeValid
<1>5. /\ Moves("protect", cp.todo \ run, run) /\ cp'.run = run /\ cp'.need = cp.need
      /\ cp'.shadowed = cp.shadowed
  BY <1>2, <1>3 DEF Moves, Types, CpStates
<1> HIDE DEF run
<1>6. Types' /\ RequestShape' /\ WrittenIsGpu'
  BY <1>1, <1>3, <1>4, <1>5 DEF Moves, Types, TypeOK, RequestShape, WrittenIsGpu
<1>7. FaultOwnsRange' /\ ValidIsCurrent' /\ MirrorIsValid'
  BY <1>1, <1>3, <1>4, <1>5, SharedMemoryAssumption
     DEF Moves, FaultOwnsRange, ValidIsCurrent, MirrorIsValid, Free, Faulting, Uncopied
<1>8. ShadowTakesPart' /\ ShadowIsBuffer'
  BY <1>1, <1>5 DEF Moves, ShadowTakesPart, ShadowIsBuffer
<1>9. SettledIsFresh' /\ CaptureIsCurrent'
  BY <1>1, <1>3, <1>5 DEF Moves, SettledIsFresh, CaptureIsCurrent, Unsettled, Fresh
<1> QED BY <1>6, <1>7, <1>8, <1>9

LEMMA ProtectKeeps ==
  ASSUME IInv, Protect
  PROVE  IInv'
<1> USE DEF IInv, At, Requested, memoryVars, flagVars, cacheVars, guestVars,
            Requesting, Uploading, Copying, Shadowing, Holding
<1>1. /\ cp.pc = "protect" /\ cp.run = cp.left /\ watched' = watched \union cp.run
      /\ UNCHANGED <<memoryVars, valid, written, cacheVars, guestVars>>
      /\ Goto(IF cp.shadowed THEN "inspect" ELSE "copy")
  BY DEF Protect, EnableWatch, RequestShape
<1>2. /\ Moves(IF cp.shadowed THEN "inspect" ELSE "copy", cp.todo, cp.left)
      /\ cp'.need = cp.need /\ cp'.shadowed = cp.shadowed
  BY <1>1, GotoMoves
<1>3. Types' /\ RequestShape' /\ WrittenIsGpu'
  BY <1>1, <1>2 DEF Moves, Types, TypeOK, CpStates, RequestShape, WrittenIsGpu
<1>4. FaultOwnsRange' /\ ValidIsCurrent' /\ MirrorIsValid'
  BY <1>1, <1>2 DEF Moves, FaultOwnsRange, ValidIsCurrent, MirrorIsValid, Uncopied
<1>5. ShadowTakesPart' /\ ShadowIsBuffer'
  BY <1>1, <1>2 DEF Moves, ShadowTakesPart, ShadowIsBuffer
<1>6. SettledIsFresh' /\ CaptureIsCurrent'
  BY <1>1, <1>2 DEF Moves, SettledIsFresh, CaptureIsCurrent, Unsettled, Fresh
<1> QED BY <1>3, <1>4, <1>5, <1>6

LEMMA ProceedMoves ==
  ASSUME Types, NEW done \in SUBSET Pages, Proceed(done)
  PROVE  \/ cp.left \ done = {} /\ cp.todo = {} /\ ~cp.shadowed /\ Return(TRUE)
         \/ /\ cp'.shadowed = cp.shadowed /\ cp'.need = cp.need
            /\ \/ /\ cp.left \ done # {}
                  /\ Moves(IF cp.shadowed THEN "inspect" ELSE "copy", cp.todo, cp.left \ done)
               \/ /\ cp.left \ done = {} /\ cp.todo # {}
                  /\ Moves("alloc", cp.todo, {})
               \/ /\ cp.left \ done = {} /\ cp.todo = {} /\ cp.shadowed
                  /\ Moves("finish", {}, {})
<1> DEFINE more == [cp EXCEPT !.left = cp.left \ done, !.snap = <<>>,
                              !.pc = IF cp.shadowed THEN "inspect" ELSE "copy"]
           none == [cp EXCEPT !.left = {}, !.snap = <<>>, !.run = {},
                              !.pc = IF cp.todo # {} THEN "alloc" ELSE "finish"]
<1> USE NothingIsVersions DEF Types, CpStates, Requesting, Uploading, Copying, Shadowing, Moves
<1>1. CASE cp.left \ done # {}
  <2>1. more.pc # "finish"
    OBVIOUS
  <2>2. cp' = more
    BY <1>1, <2>1 DEF Proceed
  <2>3. Moves(IF cp.shadowed THEN "inspect" ELSE "copy", cp.todo, cp.left \ done)
    BY <2>2
  <2> QED BY <1>1, <2>2, <2>3
<1>2. CASE cp.left \ done = {} /\ cp.todo # {}
  <2>1. none.pc = "alloc"
    BY <1>2
  <2>2. cp' = none
    BY <1>2, <2>1 DEF Proceed
  <2> QED BY <1>2, <2>2
<1>3. CASE cp.left \ done = {} /\ cp.todo = {}
  <2>1. none.pc = "finish"
    BY <1>3
  <2>2. IF ~cp.shadowed THEN Return(TRUE) ELSE cp' = none
    BY <1>3, <2>1 DEF Proceed
  <2> QED BY <1>3, <2>2, ZenonT(60)
<1> QED BY <1>1, <1>2, <1>3

(* The end of a part of a run: its pages hold what the guest has, where the *)
(* flags still say so, and at least what the request asked for.             *)
LEMMA ProceedKeeps ==
  ASSUME IInv, NEW done \in SUBSET cp.left, Proceed(done),
         cp.pc \in {"copy", "fallback", "changed"},
         UNCHANGED <<guest, flagVars, mirror, tokens, modes, guestVars>>,
         buffer' \in [Pages -> Nat \union {Unwritten}], gpuData' \subseteq gpuData,
         \A p \in Pages \ done : buffer'[p] = buffer[p] /\ (p \in gpuData => p \in gpuData'),
         \A p \in done : p \in valid \ written => buffer'[p] = guest[p],
         \A p \in done : p \in gpuData' \/ buffer'[p] >= cp.since[p],
         shadow' \in [Pages -> Nat \union {Absent}], cp.retry => UNCHANGED shadow,
         ShadowIsBuffer'
  PROVE  IInv'
<1> USE DEF IInv, At, Requested, flagVars, guestVars,
            Requesting, Uploading, Copying, Shadowing, Holding
<1>1. done \in SUBSET Pages /\ done \intersect written = {} /\ cp.left \subseteq Requested
  BY DEF Types, CpStates, RequestShape
<1>2. \A p \in Requested \ (cp.todo \union (cp.left \ done)) :
        p \in gpuData' \/ buffer'[p] >= cp.since[p]
  BY <1>1, VersionsAre DEF SettledIsFresh, Unsettled, Fresh, Types, CpStates
<1>3. written \subseteq gpuData'
  BY <1>1 DEF WrittenIsGpu, Types, TypeOK
<1>4. \A p \in valid \ written : p \notin cp.left \ done => buffer'[p] = guest[p]
  BY <1>1 DEF ValidIsCurrent, Uncopied, Types, TypeOK
<1>5. CASE cp.left \ done = {} /\ cp.todo = {} /\ ~cp.shadowed /\ Return(TRUE)
  <2>1. /\ cp' \in CpStates /\ cp'.pc = "returned" /\ cp'.left = {} /\ cp'.todo = {}
        /\ cp'.need = {} /\ ~cp'.retry /\ Uncopied' = {}
    BY <1>5, ReturnedState
  <2>2. RequestShape' /\ WrittenIsGpu' /\ SettledIsFresh' /\ CaptureIsCurrent'
    BY <1>2, <1>3, <1>5, ReturnKeeps
  <2>3. Types' /\ ShadowTakesPart'
    BY <2>1 DEF Types, TypeOK, ShadowTakesPart
  <2>4. FaultOwnsRange' /\ MirrorIsValid'
    BY <2>1 DEF FaultOwnsRange, MirrorIsValid, Uncopied
  <2>5. ValidIsCurrent'
    BY <1>4, <1>5, <2>1 DEF ValidIsCurrent
  <2> QED BY <2>2, <2>3, <2>4, <2>5
<1>6. ASSUME NEW pc \in {"inspect", "copy", "alloc", "finish"}, NEW left,
             left = cp.left \ done, Moves(pc, cp.todo, left),
             cp'.need = cp.need, cp'.shadowed = cp.shadowed,
             pc = "finish" => cp.todo = {},
             pc = IF left # {} THEN IF cp.shadowed THEN "inspect" ELSE "copy"
                  ELSE IF cp.todo # {} THEN "alloc" ELSE "finish"
      PROVE  IInv'
  <2> USE DEF Moves
  <2>1. Types'
    BY <1>6 DEF Types, TypeOK
  <2>2. RequestShape' /\ WrittenIsGpu'
    BY <1>3, <1>6 DEF RequestShape, WrittenIsGpu
  <2>3. FaultOwnsRange' /\ MirrorIsValid'
    BY <1>6 DEF FaultOwnsRange, MirrorIsValid, Uncopied
  <2>4. ValidIsCurrent'
    BY <1>4, <1>6 DEF ValidIsCurrent, Uncopied
  <2>5. ShadowTakesPart'
    BY <1>6 DEF ShadowTakesPart
  <2>6. SettledIsFresh' /\ CaptureIsCurrent'
    BY <1>2, <1>6 DEF SettledIsFresh, CaptureIsCurrent, Unsettled, Fresh
  <2> QED BY <2>1, <2>2, <2>3, <2>4, <2>5, <2>6
<1>7. CASE cp.left \ done # {} /\ Moves(IF cp.shadowed THEN "inspect" ELSE "copy",
                                        cp.todo, cp.left \ done)
  BY <1>6, <1>7, ProceedMoves, <1>1 DEF Moves, Return, IdleCp
<1>8. CASE cp.left \ done = {} /\ ~(cp.todo = {} /\ ~cp.shadowed)
  BY <1>6, <1>8, ProceedMoves, <1>1 DEF Moves
<1> QED BY <1>5, <1>7, <1>8, <1>1, ProceedMoves

LEMMA CopyKeeps ==
  ASSUME IInv, Copy
  PROVE  IInv'
<1> USE DEF IInv, At, Requested
<1> DEFINE page == Min(cp.left)
<1>1. /\ cp.pc = "copy" /\ cp.left # {}
      /\ UNCHANGED <<guest, flagVars, cacheVars, guestVars>>
      /\ CopyPage(page) /\ Proceed({page})
  BY DEF Copy, RequestShape, Copying
<1>2. page \in cp.left /\ page \in Pages /\ page \in Requested
  BY <1>1, ChunkOfLeft DEF Types, CpStates, RequestShape
<1> HIDE DEF page
<1>3. guest[page] \in Nat /\ cp.since[page] <= guest[page]
  BY <1>2 DEF Types, TypeOK, SettledIsFresh
<1>4. /\ buffer' \in [Pages -> Nat \union {Unwritten}] /\ buffer'[page] = guest[page]
      /\ \A p \in Pages \ {page} : buffer'[p] = buffer[p]
      /\ gpuData' = gpuData \ {page}
  BY <1>1, <1>2, <1>3 DEF CopyPage, Types, TypeOK
<1>5. modes.shadow => shadow[page] = Absent
  BY <1>1, <1>2 DEF ShadowTakesPart, RequestShape, Uploading, Copying
<1>6. ShadowIsBuffer'
  BY <1>1, <1>4, <1>5 DEF ShadowIsBuffer, cacheVars
<1>7. cp.since[page] \in Nat
  BY <1>2, VersionsAre DEF Types, CpStates
<1>8. buffer'[page] >= cp.since[page]
  BY <1>3, <1>4, <1>7
<1>9. /\ {page} \in SUBSET cp.left /\ gpuData' \subseteq gpuData
      /\ shadow' \in [Pages -> Nat \union {Absent}] /\ UNCHANGED <<shadow, tokens, modes, mirror>>
  BY <1>1, <1>2, <1>4 DEF cacheVars, Types, TypeOK
<1> QED
  BY <1>1, <1>4, <1>6, <1>8, <1>9, ProceedKeeps

LEMMA CaptureKeeps ==
  ASSUME IInv, Capture
  PROVE  IInv'
<1> USE DEF IInv, At, Requested, memoryVars, flagVars, guestVars,
            Requesting, Uploading, Copying, Shadowing, Holding
<1>1. /\ cp.pc = "inspect" /\ Free /\ cp.left # {} /\ cp.shadowed /\ modes.shadow
      /\ Chunk \subseteq valid \ written
      /\ tokens' = tokens \union {"capture"}
      /\ UNCHANGED <<memoryVars, flagVars, mirror, shadow, modes, guestVars>>
  BY DEF Capture, RequestShape, ShadowTakesPart, CpuAuthoritative
<1>2. Chunk \subseteq cp.left /\ cp.left \subseteq Pages /\ cp.left \subseteq Requested
  BY <1>1, ChunkOfLeft DEF Types, CpStates, RequestShape
<1> DEFINE snap == [p \in Changed(Chunk) |-> guest[p]]
<1>3. cp' = [cp EXCEPT !.pc = "changed", !.snap = snap]
  BY DEF Capture
<1>4. snap \in Versions /\ DOMAIN snap = Changed(Chunk) /\ Changed(Chunk) \subseteq Chunk
  <2>1. Changed(Chunk) \subseteq Chunk
    BY DEF Changed
  <2>2. Changed(Chunk) \in SUBSET Pages /\ snap \in [Changed(Chunk) -> Nat]
    BY <1>2, <2>1 DEF Types, TypeOK
  <2> QED BY <2>1, <2>2, VersionsOf
<1>5. \A p \in Changed(Chunk) : snap[p] = guest[p]
  OBVIOUS
<1> HIDE DEF snap
<1>6. /\ Moves("changed", cp.todo, cp.left) /\ cp'.snap = snap
      /\ cp'.need = cp.need /\ cp'.shadowed = cp.shadowed
  BY <1>3, <1>4 DEF Moves, Types, CpStates
<1>7. Types' /\ RequestShape' /\ WrittenIsGpu'
  BY <1>1, <1>6 DEF Moves, Types, TypeOK, RequestShape, WrittenIsGpu
<1>8. FaultOwnsRange' /\ ValidIsCurrent' /\ MirrorIsValid'
  BY <1>1, <1>6, FlagsKept DEF Moves, Uncopied
<1>9. ShadowTakesPart' /\ ShadowIsBuffer'
  BY <1>1, <1>6 DEF Moves, ShadowTakesPart, ShadowIsBuffer, Publishable
<1>10. SettledIsFresh'
  BY <1>1, <1>6 DEF Moves, SettledIsFresh, Unsettled, Fresh
<1>11. CaptureIsCurrent'
  <2>1. Chunk' = Chunk
    BY <1>6 DEF Moves, Chunk
  <2>2. \A p \in Chunk : cp.since[p] \in Nat /\ guest[p] \in Nat /\ cp.since[p] <= guest[p]
    BY <1>2, VersionsAre DEF Types, TypeOK, CpStates, SettledIsFresh
  <2>3. \A p \in Chunk \ Changed(Chunk) : buffer[p] = guest[p]
    BY <1>1, <1>2, <2>2 DEF Changed, ShadowIsBuffer, Absent
  <2> QED BY <1>1, <1>4, <1>5, <1>6, <2>1, <2>2, <2>3 DEF Moves, CaptureIsCurrent, Fresh
<1> QED BY <1>7, <1>8, <1>9, <1>10, <1>11

LEMMA RefuseCaptureKeeps ==
  ASSUME IInv, RefuseCapture
  PROVE  IInv'
<1> USE DEF IInv, At, Requested, memoryVars, flagVars, cacheVars, guestVars,
            Requesting, Uploading, Copying, Shadowing, Holding
<1>1. /\ cp.pc = "inspect" /\ Goto("refused")
      /\ UNCHANGED <<memoryVars, flagVars, cacheVars, guestVars>>
  BY DEF RefuseCapture
<1>2. /\ Moves("refused", cp.todo, cp.left)
      /\ cp'.need = cp.need /\ cp'.shadowed = cp.shadowed
  BY <1>1, GotoMoves
<1>3. FaultOwnsRange' /\ ValidIsCurrent' /\ MirrorIsValid'
  BY <1>1, <1>2, FlagsKept DEF Moves, Uncopied
<1>4. Types' /\ RequestShape' /\ WrittenIsGpu' /\ ShadowTakesPart' /\ ShadowIsBuffer'
  BY <1>1, <1>2 DEF Moves, Types, TypeOK, RequestShape, WrittenIsGpu, ShadowTakesPart,
                    ShadowIsBuffer
<1>5. SettledIsFresh' /\ CaptureIsCurrent'
  BY <1>1, <1>2 DEF Moves, SettledIsFresh, CaptureIsCurrent, Unsettled, Fresh
<1> QED BY <1>3, <1>4, <1>5

LEMMA ForgetRefusedKeeps ==
  ASSUME IInv, ForgetRefused
  PROVE  IInv'
<1> USE DEF IInv, At, Requested, memoryVars, flagVars, guestVars,
            Requesting, Uploading, Copying, Shadowing, Holding
<1>1. /\ cp.pc = "refused" /\ cp.left # {} /\ cp.shadowed /\ ~cp.retry
      /\ cp' = [cp EXCEPT !.pc = "fallback", !.run = Chunk]
      /\ UNCHANGED <<memoryVars, flagVars, mirror, modes, guestVars>>
      /\ shadow' = [p \in Pages |-> IF p \in Chunk THEN Absent ELSE shadow[p]]
      /\ tokens' = {}
  BY DEF ForgetRefused, ForgetShadow, RequestShape, ShadowTakesPart, Types, CpStates
<1>2. Chunk \subseteq cp.left /\ Chunk # {} /\ Chunk \subseteq Pages
  BY <1>1, ChunkOfLeft DEF Types, CpStates
<1>3. /\ Moves("fallback", cp.todo, cp.left) /\ cp'.run = Chunk
      /\ cp'.need = cp.need /\ cp'.shadowed = cp.shadowed
  BY <1>1, <1>2 DEF Moves, Types, CpStates
<1>4. FaultOwnsRange' /\ ValidIsCurrent' /\ MirrorIsValid'
  BY <1>1, <1>3, FlagsKept DEF Moves, Uncopied
<1>5. Types' /\ RequestShape' /\ WrittenIsGpu'
  BY <1>1, <1>2, <1>3 DEF Moves, Types, TypeOK, RequestShape, WrittenIsGpu
<1>6. ShadowTakesPart' /\ ShadowIsBuffer'
  BY <1>1, <1>2, <1>3 DEF Moves, ShadowTakesPart, ShadowIsBuffer
<1>7. SettledIsFresh' /\ CaptureIsCurrent'
  BY <1>1, <1>3 DEF Moves, SettledIsFresh, CaptureIsCurrent, Unsettled, Fresh
<1> QED BY <1>4, <1>5, <1>6, <1>7

LEMMA FallbackCopyKeeps ==
  ASSUME IInv, FallbackCopy
  PROVE  IInv'
<1> USE DEF IInv, At, Requested, Requesting, Uploading, Copying, Shadowing, Holding
<1> DEFINE page == Min(cp.run)
<1>1. /\ cp.pc = "fallback" /\ CopyPage(page) /\ cp.run # {} /\ cp.run \subseteq cp.left
      /\ ~cp.retry
      /\ UNCHANGED <<guest, flagVars, cacheVars, guestVars>>
  BY DEF FallbackCopy, RequestShape, ShadowTakesPart
<1>2. page \in cp.run /\ page \in cp.left /\ page \in Pages /\ page \in Requested
  BY <1>1, MinOfNaturals, PagesAreNaturals DEF Types, CpStates, RequestShape
<1>3. IsFiniteSet(cp.run)
  <2>1. IsFiniteSet(Pages)
    BY SharedMemoryAssumption, FS_Interval DEF Pages
  <2> QED BY <2>1, FS_Subset DEF Types, CpStates
<1>4. CASE Cardinality(cp.run) > 1
  <2>1. cp' = [cp EXCEPT !.run = @ \ {page}, !.left = @ \ {page}]
    BY <1>4 DEF FallbackCopy
  <2>2. cp.run \ {page} # {}
    <3>1. Cardinality({page}) = 1
      BY FS_Singleton
    <3> QED BY <1>2, <1>4, <3>1
  <2> HIDE DEF page
  <2>3. /\ Moves("fallback", cp.todo, cp.left \ {page}) /\ cp'.run = cp.run \ {page}
        /\ cp'.need = cp.need /\ cp'.shadowed = cp.shadowed
    BY <1>1, <1>2, <2>1 DEF Moves, Types, CpStates
  <2>4. guest[page] \in Nat /\ cp.since[page] \in Nat /\ cp.since[page] <= guest[page]
    BY <1>2, VersionsAre DEF Types, TypeOK, CpStates, SettledIsFresh
  <2>5. /\ buffer' \in [Pages -> Nat \union {Unwritten}] /\ buffer'[page] = guest[page]
        /\ \A p \in Pages \ {page} : buffer'[p] = buffer[p]
        /\ gpuData' = gpuData \ {page} /\ shadow[page] = Absent
    BY <1>1, <1>2, <2>4 DEF CopyPage, Types, TypeOK, ShadowTakesPart
  <2>6. Types'
    BY <1>1, <1>2, <2>3, <2>5 DEF Moves, Types, TypeOK, cacheVars, flagVars, guestVars
  <2>7. RequestShape' /\ WrittenIsGpu'
    BY <1>1, <1>2, <2>2, <2>3, <2>5 DEF Moves, RequestShape, WrittenIsGpu, flagVars
  <2>8. FaultOwnsRange' /\ MirrorIsValid'
    BY <1>1, <2>3 DEF Moves, FaultOwnsRange, MirrorIsValid, Uncopied, flagVars, cacheVars, guestVars
  <2>9. ValidIsCurrent'
    BY <1>1, <2>3, <2>5 DEF Moves, ValidIsCurrent, Uncopied, Types, TypeOK, flagVars
  <2>10. ShadowTakesPart' /\ ShadowIsBuffer'
    BY <1>1, <2>3, <2>5 DEF Moves, ShadowTakesPart, ShadowIsBuffer, cacheVars
  <2>11. SettledIsFresh' /\ CaptureIsCurrent'
    <3>1. \A p \in Requested : p # page => p \in Pages
      BY VersionsAre DEF Types, CpStates
    <3>2. buffer'[page] >= cp.since[page]
      BY <2>4, <2>5
    <3> QED BY <1>1, <2>3, <2>5, <3>1, <3>2
            DEF Moves, SettledIsFresh, CaptureIsCurrent, Unsettled, Fresh
  <2> QED BY <2>6, <2>7, <2>8, <2>9, <2>10, <2>11
<1>5. CASE ~(Cardinality(cp.run) > 1)
  <2>1. Proceed(cp.run)
    BY <1>5 DEF FallbackCopy
  <2>2. cp.run = {page}
    <3>1. Cardinality(cp.run) \in Nat /\ Cardinality(cp.run \ {page}) = Cardinality(cp.run) - 1
          /\ IsFiniteSet(cp.run \ {page}) /\ Cardinality(cp.run \ {page}) \in Nat
      BY <1>2, <1>3, FS_CardinalityType, FS_RemoveElement
    <3>2. Cardinality(cp.run \ {page}) = 0
      BY <1>5, <3>1
    <3>3. cp.run \ {page} = {}
      BY <3>1, <3>2, FS_EmptySet
    <3> QED BY <1>2, <3>3
  <2> HIDE DEF page
  <2>3. guest[page] \in Nat /\ cp.since[page] \in Nat /\ cp.since[page] <= guest[page]
    BY <1>2, VersionsAre DEF Types, TypeOK, CpStates, SettledIsFresh
  <2>4. /\ buffer' \in [Pages -> Nat \union {Unwritten}] /\ buffer'[page] = guest[page]
        /\ \A p \in Pages \ {page} : buffer'[p] = buffer[p]
        /\ gpuData' = gpuData \ {page} /\ shadow[page] = Absent
    BY <1>1, <1>2, <2>3 DEF CopyPage, Types, TypeOK, ShadowTakesPart
  <2>5. ShadowIsBuffer'
    BY <1>1, <2>4 DEF ShadowIsBuffer, cacheVars
  <2>6. /\ {page} \in SUBSET cp.left /\ gpuData' \subseteq gpuData
        /\ shadow' \in [Pages -> Nat \union {Absent}]
        /\ UNCHANGED <<shadow, tokens, modes, mirror>> /\ buffer'[page] >= cp.since[page]
    BY <1>1, <1>2, <2>3, <2>4 DEF cacheVars, Types, TypeOK
  <2> QED
    BY <1>1, <2>1, <2>2, <2>4, <2>5, <2>6, ProceedKeeps
<1> QED BY <1>4, <1>5

LEMMA CopyChangedKeeps ==
  ASSUME IInv, CopyChanged
  PROVE  IInv'
<1> USE DEF IInv, At, Requested, Requesting, Uploading, Copying, Shadowing, Holding
<1> DEFINE changed == DOMAIN cp.snap
<1>1. /\ cp.pc = "changed" /\ cp.left # {} /\ cp.shadowed /\ ~cp.retry /\ modes.shadow
      /\ buffer' = [p \in Pages |-> IF p \in changed THEN cp.snap[p] ELSE buffer[p]]
      /\ gpuData' = gpuData \ changed /\ Proceed(Chunk)
      /\ UNCHANGED <<guest, flagVars, mirror, tokens, modes, guestVars>>
  BY DEF CopyChanged, RequestShape, ShadowTakesPart
<1>2. Chunk \subseteq cp.left /\ Chunk \subseteq Pages /\ changed \subseteq Chunk
  BY <1>1, ChunkOfLeft DEF Types, CpStates, CaptureIsCurrent
<1>3. \A p \in changed : cp.snap[p] \in Nat
  BY VersionsAre DEF Types, CpStates
<1>4. /\ \A p \in changed : /\ p \in valid \ written => cp.snap[p] = guest[p]
                            /\ cp.snap[p] >= cp.since[p]
      /\ \A p \in Chunk \ changed : /\ p \in valid \ written => buffer[p] = guest[p]
                                    /\ p \in gpuData \/ buffer[p] >= cp.since[p]
  BY <1>1 DEF CaptureIsCurrent, Fresh
<1>5. \/ ~Publishable /\ UNCHANGED shadow
      \/ \E kept \in SUBSET (Pages \ changed) :
           shadow' = [p \in Pages |-> IF p \in changed THEN cp.snap[p]
                                      ELSE IF p \in kept THEN shadow[p] ELSE Absent]
  BY DEF CopyChanged
<1>6. ~Publishable => \A p \in Pages : shadow[p] = Absent
  BY <1>1 DEF ShadowTakesPart
<1> HIDE DEF changed
<1>7. \A p \in Pages : /\ shadow'[p] \in Nat \union {Absent}
                       /\ shadow'[p] # Absent =>
                            \/ p \in changed /\ shadow'[p] = cp.snap[p]
                            \/ p \notin changed /\ shadow'[p] = shadow[p]
  BY <1>3, <1>5, <1>6 DEF Types, TypeOK
<1>8. shadow' \in [Pages -> Nat \union {Absent}]
  BY <1>3, <1>5 DEF Types, TypeOK
<1>9. ShadowIsBuffer'
  BY <1>1, <1>7 DEF ShadowIsBuffer
<1>10. buffer' \in [Pages -> Nat \union {Unwritten}]
  BY <1>1, <1>3 DEF Types, TypeOK
<1>11. /\ \A p \in Pages \ Chunk : buffer'[p] = buffer[p] /\ (p \in gpuData => p \in gpuData')
       /\ \A p \in Chunk : p \in valid \ written => buffer'[p] = guest[p]
       /\ \A p \in Chunk : p \in gpuData' \/ buffer'[p] >= cp.since[p]
  BY <1>1, <1>2, <1>4
<1> QED
  BY <1>1, <1>2, <1>8, <1>9, <1>10, <1>11, ProceedKeeps

LEMMA FinishShadowKeeps ==
  ASSUME IInv, FinishShadow
  PROVE  IInv'
<1> USE DEF IInv, At, Requested, memoryVars, flagVars, guestVars,
            Requesting, Uploading, Copying, Shadowing, Holding
<1>1. /\ cp.pc = "finish" /\ cp.left = {} /\ cp.todo = {} /\ Uncopied = {}
      /\ UNCHANGED <<memoryVars, flagVars, mirror, modes, guestVars>>
  BY DEF FinishShadow, RequestShape, Uncopied
<1>2. \A p \in Requested : Fresh(p)
  BY <1>1 DEF SettledIsFresh, Unsettled
<1>3. CASE UNCHANGED <<shadow, tokens>> /\ Return(TRUE)
  BY <1>1, <1>2, <1>3, AnswerKeeps DEF Types, TypeOK
<1>4. CASE ForgetShadow(Pages) /\ Return(FALSE)
  BY <1>1, <1>4, AnswerKeeps DEF Types, TypeOK, ForgetShadow
<1>5. CASE /\ cp' = [cp EXCEPT !.pc = "scan", !.want = cp.need, !.need = {},
                               !.retry = TRUE, !.mirrored = FALSE, !.shadowed = FALSE]
           /\ ForgetShadow(cp.need)
  <2>1. /\ cp' \in CpStates /\ cp'.pc = "scan" /\ cp'.want = cp.need /\ cp'.since = cp.since
        /\ cp'.left = {} /\ cp'.todo = {} /\ cp'.need = {} /\ ~cp'.shadowed
    BY <1>1, <1>5 DEF Types, CpStates
  <2>2. /\ shadow' = [p \in Pages |-> IF p \in cp.need THEN Absent ELSE shadow[p]]
        /\ tokens' = {} /\ cp.need \subseteq Pages
    BY <1>5 DEF ForgetShadow, Types, CpStates
  <2>3. FaultOwnsRange' /\ ValidIsCurrent' /\ MirrorIsValid'
    BY <1>1, <2>1, FlagsKept DEF Uncopied
  <2>4. Types' /\ WrittenIsGpu'
    BY <1>1, <2>1, <2>2 DEF Types, TypeOK, WrittenIsGpu
  <2>5. RequestShape'
    BY <1>1, <2>1 DEF RequestShape
  <2>6. ShadowTakesPart' /\ ShadowIsBuffer'
    BY <1>1, <2>1, <2>2 DEF ShadowTakesPart, ShadowIsBuffer
  <2>7. SettledIsFresh' /\ CaptureIsCurrent'
    BY <1>1, <1>2, <2>1 DEF SettledIsFresh, CaptureIsCurrent, Unsettled, Fresh
  <2> QED BY <2>3, <2>4, <2>5, <2>6, <2>7
<1> QED BY <1>3, <1>4, <1>5 DEF FinishShadow

-----------------------------------------------------------------------------
(* The CP between requests.                                                 *)

(* A step to no request at all, or on within what is done with its answer.  *)
LEMMA RestKeeps ==
  ASSUME IInv, cp' = IdleCp, cp.pc \notin Requesting, UNCHANGED guest,
         written' \subseteq gpuData'
  PROVE  /\ cp' \in CpStates /\ cp'.pc = "idle" /\ Uncopied' = {}
         /\ cp'.need = {} /\ cp'.todo = {} /\ cp'.left = {} /\ ~cp'.retry
         /\ RequestShape' /\ WrittenIsGpu' /\ SettledIsFresh' /\ CaptureIsCurrent'
<1>1. /\ cp' \in CpStates /\ cp'.pc = "idle" /\ cp'.need = {} /\ cp'.todo = {} /\ cp'.left = {}
      /\ cp'.want = {} /\ ~cp'.retry /\ DOMAIN cp'.since = {} /\ cp'.run = {}
  BY IdleStates, NothingIsVersions DEF IdleCp
<1> USE DEF IInv, At, Requested, Requesting, Uploading, Copying, Shadowing
<1>2. RequestShape' /\ WrittenIsGpu' /\ Uncopied' = {}
  BY <1>1 DEF RequestShape, WrittenIsGpu, Uncopied
<1>3. SettledIsFresh' /\ CaptureIsCurrent'
  BY <1>1 DEF SettledIsFresh, CaptureIsCurrent
<1> QED BY <1>1, <1>2, <1>3

LEMMA UseKeeps ==
  ASSUME IInv, At("returned"), cp' = IdleCp,
         UNCHANGED <<memoryVars, flagVars, cacheVars, guestVars>>
  PROVE  IInv'
<1> USE DEF IInv, At, memoryVars, flagVars, cacheVars, guestVars,
            Requesting, Uploading, Copying, Shadowing
<1>1. /\ cp' \in CpStates /\ cp'.pc = "idle" /\ Uncopied' = {}
      /\ cp'.need = {} /\ cp'.todo = {} /\ cp'.left = {} /\ ~cp'.retry
      /\ RequestShape' /\ WrittenIsGpu' /\ SettledIsFresh' /\ CaptureIsCurrent'
  BY RestKeeps DEF WrittenIsGpu
<1>2. FaultOwnsRange' /\ ValidIsCurrent' /\ MirrorIsValid'
  BY <1>1, FlagsKept DEF Uncopied, RequestShape
<1>3. Types' /\ ShadowTakesPart' /\ ShadowIsBuffer'
  BY <1>1 DEF Types, TypeOK, ShadowTakesPart, ShadowIsBuffer
<1> QED BY <1>1, <1>2, <1>3

LEMMA RangeWrittenByGpuKeeps ==
  ASSUME IInv, RangeWrittenByGpu
  PROVE  IInv'
<1> USE DEF IInv, At, flagVars, guestVars, Requesting, Uploading, Copying, Shadowing, Holding
<1>1. /\ cp.pc = "returned" /\ Goto("gpu_valid") /\ cp.left = {} /\ cp.todo = {}
      /\ gpuData' = gpuData \union Requested
      /\ UNCHANGED <<guest, buffer, flagVars, mirror, modes, guestVars>>
  BY DEF RangeWrittenByGpu, RequestShape
<1>2. /\ modes.shadow => /\ shadow' = [p \in Pages |-> IF p \in Requested THEN Absent ELSE shadow[p]]
                         /\ tokens' = {}
      /\ ~modes.shadow => UNCHANGED <<shadow, tokens>>
  BY DEF RangeWrittenByGpu, FireWatches, ForgetShadow
<1>3. /\ Moves("gpu_valid", {}, {}) /\ cp'.need = cp.need /\ cp'.run = cp.run
      /\ cp'.shadowed = cp.shadowed
  BY <1>1, GotoMoves
<1>4. Requested \subseteq Pages
  BY VersionsAre DEF Requested, Types, CpStates
<1>5. FaultOwnsRange' /\ ValidIsCurrent' /\ MirrorIsValid'
  BY <1>1, <1>3, FlagsKept DEF Moves, Uncopied
<1>6. Types'
  BY <1>1, <1>2, <1>3, <1>4, ZenonT(60) DEF Moves, Types, TypeOK
<1>7. RequestShape' /\ WrittenIsGpu'
  BY <1>1, <1>3 DEF Moves, RequestShape, WrittenIsGpu, Requested
<1>8. ShadowTakesPart' /\ ShadowIsBuffer'
  BY <1>1, <1>2, <1>3 DEF Moves, ShadowTakesPart, ShadowIsBuffer, Types, TypeOK, CpStates
<1>9. SettledIsFresh' /\ CaptureIsCurrent'
  BY <1>1, <1>3 DEF Moves, SettledIsFresh, CaptureIsCurrent, Requested
<1> QED BY <1>5, <1>6, <1>7, <1>8, <1>9

LEMMA GpuRangeValidKeeps ==
  ASSUME IInv, GpuRangeValid
  PROVE  IInv'
<1> USE DEF IInv, At, memoryVars, guestVars, Requesting, Uploading, Copying, Shadowing, Holding
<1>1. /\ cp.pc = "gpu_valid" /\ Free /\ Goto("gpu_protect") /\ cp.left = {} /\ cp.todo = {}
      /\ mirror' = mirror \ Requested /\ valid' = valid \union Requested
      /\ written' = written \union Requested
      /\ UNCHANGED <<memoryVars, watched, shadow, tokens, modes, guestVars>>
  BY DEF GpuRangeValid, MakeRangeValid, RequestShape
<1>2. /\ Moves("gpu_protect", {}, {}) /\ cp'.need = cp.need /\ cp'.run = cp.run
      /\ cp'.shadowed = cp.shadowed
  BY <1>1, GotoMoves
<1>3. Requested \subseteq Pages
  BY VersionsAre DEF Requested, Types, CpStates
<1>4. FaultOwnsRange' /\ MirrorIsValid'
  BY <1>1, <1>2, SharedMemoryAssumption
     DEF Moves, FaultOwnsRange, MirrorIsValid, Free, Faulting, Uncopied
<1>5. ValidIsCurrent'
  BY <1>1, <1>2 DEF Moves, ValidIsCurrent, Uncopied, Requested
<1>6. Types'
  BY <1>1, <1>2, <1>3 DEF Moves, Types, TypeOK
<1>7. RequestShape' /\ WrittenIsGpu'
  BY <1>1, <1>2 DEF Moves, RequestShape, WrittenIsGpu, Requested
<1>8. ShadowTakesPart' /\ ShadowIsBuffer'
  BY <1>1, <1>2 DEF Moves, ShadowTakesPart, ShadowIsBuffer
<1>9. SettledIsFresh' /\ CaptureIsCurrent'
  BY <1>1, <1>2 DEF Moves, SettledIsFresh, CaptureIsCurrent, Requested
<1> QED BY <1>4, <1>5, <1>6, <1>7, <1>8, <1>9

LEMMA GpuProtectKeeps ==
  ASSUME IInv, GpuProtect
  PROVE  IInv'
<1> USE DEF IInv, At, memoryVars, cacheVars, guestVars, Requesting, Uploading, Copying, Shadowing
<1>1. /\ cp.pc = "gpu_protect" /\ cp' = IdleCp /\ watched' = watched \union Requested
      /\ UNCHANGED <<memoryVars, valid, written, cacheVars, guestVars>>
  BY DEF GpuProtect, EnableWatch
<1>2. /\ cp' \in CpStates /\ cp'.pc = "idle" /\ Uncopied' = {}
      /\ cp'.need = {} /\ cp'.todo = {} /\ cp'.left = {} /\ ~cp'.retry
      /\ RequestShape' /\ WrittenIsGpu' /\ SettledIsFresh' /\ CaptureIsCurrent'
  BY <1>1, RestKeeps DEF WrittenIsGpu
<1>3. Requested \subseteq Pages
  BY VersionsAre DEF Requested, Types, CpStates
<1>4. FaultOwnsRange' /\ MirrorIsValid' /\ ValidIsCurrent'
  BY <1>1, <1>2 DEF FaultOwnsRange, MirrorIsValid, ValidIsCurrent, RequestShape, Uncopied
<1>5. Types' /\ ShadowTakesPart' /\ ShadowIsBuffer'
  BY <1>1, <1>2, <1>3 DEF Types, TypeOK, ShadowTakesPart, ShadowIsBuffer
<1> QED BY <1>2, <1>4, <1>5

(* The end of a frame leaves the pages the GPU wrote valid.                 *)
LEMMA FrameEndKeeps ==
  ASSUME IInv, SetSystemPageBlocksValidWithGpuDataWritten,
         cp' = cp \/ cp' = IdleCp, cp.pc \in {"idle", "clear"}
  PROVE  IInv'
<1> USE DEF IInv, At, memoryVars, guestVars, Requesting, Uploading, Copying, Shadowing
<1>1. /\ Free /\ mirror' = {} /\ valid' = written /\ cp.left = {}
      /\ UNCHANGED <<memoryVars, written, watched, shadow, tokens, modes, guestVars>>
  BY DEF SetSystemPageBlocksValidWithGpuDataWritten, RequestShape
<1>2. FaultOwnsRange' /\ MirrorIsValid'
  BY <1>1, SharedMemoryAssumption DEF FaultOwnsRange, MirrorIsValid, Free, Faulting
<1>3. CASE cp' = cp
  <2>1. Types' /\ RequestShape' /\ WrittenIsGpu' /\ ShadowTakesPart' /\ ShadowIsBuffer'
    BY <1>1, <1>3 DEF Types, TypeOK, RequestShape, WrittenIsGpu, ShadowTakesPart,
                      ShadowIsBuffer, Requested
  <2>2. ValidIsCurrent' /\ SettledIsFresh' /\ CaptureIsCurrent'
    BY <1>1, <1>3 DEF ValidIsCurrent, SettledIsFresh, CaptureIsCurrent, Requested, Types, TypeOK
  <2> QED BY <1>2, <2>1, <2>2
<1>4. CASE cp' = IdleCp
  <2>1. /\ cp' \in CpStates /\ cp'.pc = "idle" /\ Uncopied' = {}
        /\ cp'.need = {} /\ cp'.todo = {} /\ cp'.left = {} /\ ~cp'.retry
        /\ RequestShape' /\ WrittenIsGpu' /\ SettledIsFresh' /\ CaptureIsCurrent'
    BY <1>1, <1>4, RestKeeps DEF WrittenIsGpu
  <2>2. Types' /\ ShadowTakesPart' /\ ShadowIsBuffer' /\ ValidIsCurrent'
    BY <1>1, <2>1 DEF Types, TypeOK, ShadowTakesPart, ShadowIsBuffer, ValidIsCurrent
  <2> QED BY <1>2, <2>1, <2>2
<1> QED BY <1>3, <1>4

LEMMA ClearCacheKeeps ==
  ASSUME IInv, ClearCache
  PROVE  IInv'
<1> USE DEF IInv, At, memoryVars, flagVars, guestVars, Requesting, Uploading, Copying, Shadowing,
            Holding
<1>1. /\ cp.pc = "idle" /\ Goto("clear") /\ cp.left = {} /\ cp.todo = {} /\ mirror' = {}
      /\ UNCHANGED <<memoryVars, flagVars, modes, guestVars>>
  BY DEF ClearCache, RequestShape
<1>2. /\ modes.shadow => /\ shadow' = [p \in Pages |-> Absent]
                         /\ tokens' = {}
      /\ ~modes.shadow => UNCHANGED <<shadow, tokens>>
  BY DEF ClearCache, FireWatches, ForgetShadow
<1>3. /\ Moves("clear", {}, {}) /\ cp'.need = cp.need /\ cp'.run = cp.run
      /\ cp'.shadowed = cp.shadowed
  BY <1>1, GotoMoves
<1>4. Types' /\ RequestShape' /\ WrittenIsGpu'
  BY <1>1, <1>2, <1>3, ZenonT(60) DEF Moves, Types, TypeOK, RequestShape, WrittenIsGpu, Requested
<1>5. FaultOwnsRange' /\ ValidIsCurrent' /\ MirrorIsValid'
  BY <1>1, <1>3 DEF Moves, FaultOwnsRange, ValidIsCurrent, MirrorIsValid, Uncopied
<1>6. ShadowTakesPart' /\ ShadowIsBuffer'
  BY <1>1, <1>2, <1>3 DEF Moves, ShadowTakesPart, ShadowIsBuffer, Types, TypeOK, CpStates
<1>7. SettledIsFresh' /\ CaptureIsCurrent'
  BY <1>1, <1>3 DEF Moves, SettledIsFresh, CaptureIsCurrent, Requested
<1> QED BY <1>4, <1>5, <1>6, <1>7

-----------------------------------------------------------------------------
(* Other threads.                                                           *)

LEMMA InvalidateAllPagesKeeps ==
  ASSUME IInv, InvalidateAllPages
  PROVE  IInv'
<1> USE DEF IInv, At, memoryVars, guestVars
<1>1. /\ mirror' = {} /\ valid' = {} /\ written' = {}
      /\ UNCHANGED <<memoryVars, watched, modes, cp, guestVars>>
  BY DEF InvalidateAllPages
<1>2. /\ modes.shadow => /\ shadow' = [p \in Pages |-> Absent]
                         /\ tokens' = {}
      /\ ~modes.shadow => UNCHANGED <<shadow, tokens>>
  BY DEF InvalidateAllPages, FireWatches, ForgetShadow
<1>3. Types'
  BY <1>1, <1>2 DEF Types, TypeOK
<1>4. FaultOwnsRange' /\ ValidIsCurrent' /\ MirrorIsValid' /\ WrittenIsGpu'
  BY <1>1 DEF FaultOwnsRange, ValidIsCurrent, MirrorIsValid, WrittenIsGpu, Requested
<1>5. RequestShape'
  BY <1>1 DEF RequestShape, Requested
<1>6. ShadowTakesPart' /\ ShadowIsBuffer'
  <2>1. At("changed") => modes.shadow
    BY DEF ShadowTakesPart, Uploading, Copying, Shadowing
  <2>2. cp.want \subseteq Pages /\ cp.run \subseteq Pages
    BY DEF Types, CpStates
  <2> QED BY <1>1, <1>2, <2>1, <2>2 DEF ShadowTakesPart, ShadowIsBuffer, Publishable
<1>7. SettledIsFresh'
  BY <1>1 DEF SettledIsFresh, Unsettled, Fresh, Requested
<1>8. CaptureIsCurrent'
  <2>1. Chunk' = Chunk
    BY <1>1 DEF Chunk
  <2> QED BY <1>1, <2>1 DEF CaptureIsCurrent, Fresh
<1> QED BY <1>3, <1>4, <1>5, <1>6, <1>7, <1>8

(* A step of a guest thread concerns the CP only through guest memory.      *)
LEMMA StoreKeeps ==
  ASSUME IInv, NEW t \in Threads, NEW p \in Pages, Store(t, p)
  PROVE  IInv'
<1> USE DEF IInv, At, flagVars, cacheVars
<1>1. /\ thread[t].pc \in {"idle", "store"}
      /\ UNCHANGED <<buffer, gpuData, flagVars, cacheVars, cp, lock>>
  BY DEF Store
<1>2. CASE p \in watched
  <2>1. /\ thread' = [thread EXCEPT ![t] = [pc |-> "fault", page |-> p, range |-> {}]]
        /\ UNCHANGED guest
    BY <1>2 DEF Store
  <2>2. [pc |-> "fault", page |-> p, range |-> {}] \in ThreadStates
    BY DEF ThreadStates
  <2>3. Types'
    BY <1>1, <2>1, <2>2 DEF Types, TypeOK, ThreadStates
  <2>4. FaultOwnsRange'
    BY <1>1, <2>1 DEF FaultOwnsRange, Types, Faulting
  <2>5. RequestShape' /\ WrittenIsGpu' /\ ValidIsCurrent' /\ MirrorIsValid'
    BY <1>1, <2>1 DEF RequestShape, WrittenIsGpu, ValidIsCurrent, MirrorIsValid, Requested, Uncopied
  <2>6. ShadowTakesPart' /\ ShadowIsBuffer' /\ SettledIsFresh'
    BY <1>1, <2>1 DEF ShadowTakesPart, ShadowIsBuffer, SettledIsFresh, Requested, Unsettled,
                      Fresh, Publishable
  <2>7. CaptureIsCurrent'
    BY <1>1, <2>1 DEF CaptureIsCurrent, Chunk, Fresh
  <2> QED BY <2>3, <2>4, <2>5, <2>6, <2>7
<1>3. CASE p \notin watched
  <2>1. /\ guest' = [guest EXCEPT ![p] = @ + 1]
        /\ thread' = [thread EXCEPT ![t] = IdleThread]
    BY <1>3 DEF Store
  <2>2. /\ guest' \in [Pages -> Nat]
        /\ \A q \in Pages : guest'[q] >= guest[q] /\ (q # p => guest'[q] = guest[q])
    BY <2>1 DEF Types, TypeOK
  <2>3. p \in valid \ written => At("protect") /\ p \in cp.left
    BY <1>3 DEF ValidIsCurrent, WrittenIsGpu, RequestShape
  <2>4. Types'
    BY <1>1, <2>1, <2>2, IdleStates DEF Types, TypeOK, ThreadStates
  <2>5. FaultOwnsRange'
    BY <1>1, <2>1 DEF FaultOwnsRange, Types, Faulting, IdleThread
  <2>6. RequestShape' /\ WrittenIsGpu' /\ MirrorIsValid'
    BY <1>1 DEF RequestShape, WrittenIsGpu, MirrorIsValid, Requested, Uncopied
  <2>7. ValidIsCurrent'
    BY <1>1, <2>2, <2>3 DEF ValidIsCurrent, Requested, Uncopied, Types, TypeOK
  <2>8. ShadowTakesPart' /\ ShadowIsBuffer'
    BY <1>1 DEF ShadowTakesPart, ShadowIsBuffer, Publishable
  <2>9. SettledIsFresh'
    <3>1. \A q \in Requested : q \in Pages /\ cp.since[q] \in Nat
      BY VersionsAre DEF Requested, Types, CpStates
    <3>2. \A q \in Requested : guest[q] \in Nat /\ guest'[q] \in Nat
      BY <2>2, <3>1 DEF Types, TypeOK
    <3> QED BY <1>1, <2>2, <3>1, <3>2 DEF SettledIsFresh, Requested, Unsettled, Fresh
  <2>10. CaptureIsCurrent'
    <3>1. Chunk' = Chunk
      BY <1>1 DEF Chunk
    <3>2. \A q \in valid \ written : At("changed") => guest'[q] = guest[q]
      BY <2>2, <2>3 DEF Types, TypeOK
    <3> QED BY <1>1, <3>1, <3>2 DEF CaptureIsCurrent, Fresh
  <2> QED BY <2>4, <2>5, <2>6, <2>7, <2>8, <2>9, <2>10
<1> QED BY <1>2, <1>3

(* What a guest thread does to the flags on its way through a fault: it     *)
(* takes pages from them that are its range's.                              *)
LEMMA FaultStepKeeps ==
  ASSUME IInv, UNCHANGED <<memoryVars, shadow, tokens, modes, cp>>,
         valid' \subseteq valid, written' \subseteq written, watched' \subseteq watched,
         valid \intersect written' \subseteq valid',
         valid' \intersect written \subseteq written',
         mirror' \subseteq mirror \intersect valid', valid' \intersect watched \subseteq watched',
         lock' \in Threads \union {NoThread},
         thread' \in [Threads -> ThreadStates], FaultOwnsRange'
  PROVE  IInv'
<1> USE DEF IInv, At, memoryVars
<1>1. Types'
  BY DEF Types, TypeOK, ThreadStates
<1>2. RequestShape' /\ WrittenIsGpu' /\ MirrorIsValid'
  BY DEF RequestShape, WrittenIsGpu, MirrorIsValid, Requested, Uncopied, Types, TypeOK
<1>3. ValidIsCurrent'
  BY DEF ValidIsCurrent, Requested, Uncopied
<1>4. ShadowTakesPart' /\ ShadowIsBuffer'
  BY DEF ShadowTakesPart, ShadowIsBuffer, Publishable, Uploading, Copying, Shadowing
<1>5. SettledIsFresh' /\ CaptureIsCurrent'
  <2>1. Chunk' = Chunk
    BY DEF Chunk
  <2> QED BY <2>1 DEF SettledIsFresh, CaptureIsCurrent, Requested, Unsettled, Fresh
<1> QED BY <1>1, <1>2, <1>3, <1>4, <1>5

LEMMA MinAndMaxOfPair ==
  ASSUME NEW p \in Nat, NEW q \in Nat
  PROVE  q \in Min({p, q}) .. Max({p, q})
<1>1. Min({p, q}) \in {p, q} /\ \A x \in {p, q} : Min({p, q}) <= x
  BY MinOfNaturals
<1>2. \E x \in {p, q} : \A y \in {p, q} : x >= y
  <2>1. CASE p >= q
    BY <2>1
  <2>2. CASE q >= p
    BY <2>2
  <2> QED BY <2>1, <2>2
<1>3. Max({p, q}) \in {p, q} /\ \A y \in {p, q} : Max({p, q}) >= y
  BY <1>2 DEF Max
<1> QED BY <1>1, <1>3

(* The range a fault is handled for, however wide, holds no page the GPU    *)
(* wrote but the faulting one.                                              *)
LEMMA WidenedAvoidsGpuData ==
  ASSUME NEW p \in Pages, NEW range \in {{p}, Widened(p), Capped(p)}
  PROVE  range \subseteq Pages /\ written \intersect range \subseteq {p}
<1>1. Widened(p) \subseteq Pages
  BY DEF Widened, Word
<1>2. ASSUME NEW q \in Widened(p), q # p
      PROVE  q \notin written
  <2>1. q \in Min({p, q}) .. Max({p, q})
    BY <1>1, MinAndMaxOfPair, PagesAreNaturals
  <2> QED BY <1>2, <2>1 DEF Widened
<1>3. Capped(p) \subseteq Widened(p)
  BY DEF Capped
<1> QED BY <1>1, <1>2, <1>3

LEMMA FaultKeeps ==
  ASSUME IInv, NEW t \in Threads, Fault(t)
  PROVE  IInv'
<1> USE DEF IInv
<1> DEFINE page == thread[t].page
<1>1. /\ thread[t].pc = "fault" /\ lock = NoThread
      /\ UNCHANGED <<memoryVars, flagVars, cacheVars, cp>>
  BY DEF Fault, Free
<1>2. page \in Pages /\ mirror \subseteq valid
  BY DEF Types, ThreadStates, MirrorIsValid
<1>3. \A u \in Threads : thread[u].pc \notin Faulting
  BY <1>1, SharedMemoryAssumption DEF FaultOwnsRange
<1>4. CASE page \notin watched
  <2>1. thread' = [thread EXCEPT ![t].pc = "store"] /\ UNCHANGED lock
    BY <1>4 DEF Fault, Step
  <2>2. thread' \in [Threads -> ThreadStates]
    BY <2>1 DEF Types, ThreadStates
  <2>3. FaultOwnsRange'
    BY <1>1, <1>3, <2>1 DEF FaultOwnsRange, Types, ThreadStates, Faulting, flagVars, cacheVars
  <2> QED BY <1>1, <1>2, <2>1, <2>2, <2>3, FaultStepKeeps DEF flagVars, cacheVars, Types, TypeOK
<1>5. CASE page \in watched
  <2>1. PICK range \in {{page}, Widened(page), Capped(page)} :
          thread' = [thread EXCEPT ![t].pc = "mirror", ![t].range = range]
    BY <1>5 DEF Fault
  <2>2. lock' = t
    BY <1>5 DEF Fault
  <2>3. range \subseteq Pages /\ written \intersect range \subseteq {page}
    BY <1>2, WidenedAvoidsGpuData
  <2>4. /\ thread' \in [Threads -> ThreadStates]
        /\ thread'[t].pc = "mirror" /\ thread'[t].range = range /\ thread'[t].page = page
        /\ \A u \in Threads \ {t} : thread'[u] = thread[u]
    BY <2>1, <2>3 DEF Types, ThreadStates, Faulting
  <2>5. FaultOwnsRange'
    BY <1>1, <1>3, <2>2, <2>3, <2>4 DEF FaultOwnsRange, Faulting, flagVars, cacheVars
  <2> QED BY <1>1, <1>2, <2>2, <2>4, <2>5, FaultStepKeeps DEF flagVars, cacheVars, Types, TypeOK
<1> QED BY <1>4, <1>5

LEMMA ClearMirrorKeeps ==
  ASSUME IInv, NEW t \in Threads, ClearMirror(t)
  PROVE  IInv'
<1> USE DEF IInv
<1>1. /\ thread[t].pc = "mirror" /\ mirror' = mirror \ thread[t].range
      /\ thread' = [thread EXCEPT ![t].pc = "flags"]
      /\ UNCHANGED <<memoryVars, flagVars, shadow, tokens, modes, cp, lock>>
  BY DEF ClearMirror, Step
<1>2. /\ thread' \in [Threads -> ThreadStates]
      /\ thread'[t].pc = "flags" /\ thread'[t].range = thread[t].range
      /\ thread'[t].page = thread[t].page
      /\ \A u \in Threads \ {t} : thread'[u] = thread[u]
  BY <1>1 DEF Types, ThreadStates, Faulting
<1>3. FaultOwnsRange'
  BY <1>1, <1>2 DEF FaultOwnsRange, Faulting, flagVars
<1> QED BY <1>1, <1>2, <1>3, FaultStepKeeps DEF flagVars, Types, TypeOK, MirrorIsValid

LEMMA ClearFlagsKeeps ==
  ASSUME IInv, NEW t \in Threads, ClearFlags(t)
  PROVE  IInv'
<1> USE DEF IInv
<1> DEFINE range == thread[t].range
<1>1. /\ thread[t].pc = "flags" /\ valid' = valid \ range /\ written' = written \ range
      /\ thread' = [thread EXCEPT ![t].pc = "unwatch"]
      /\ UNCHANGED <<memoryVars, watched, mirror, shadow, tokens, modes, cp, lock>>
  BY DEF ClearFlags, Step, FireWatches
<1>2. /\ thread' \in [Threads -> ThreadStates]
      /\ thread'[t].pc = "unwatch" /\ thread'[t].range = range
      /\ thread'[t].page = thread[t].page
      /\ \A u \in Threads \ {t} : thread'[u] = thread[u]
  BY <1>1 DEF Types, ThreadStates, Faulting
<1>3. FaultOwnsRange'
  BY <1>1, <1>2 DEF FaultOwnsRange, Faulting
<1>4. mirror \intersect range = {}
  BY <1>1 DEF FaultOwnsRange
<1> QED BY <1>1, <1>2, <1>3, <1>4, FaultStepKeeps DEF Types, TypeOK, MirrorIsValid

LEMMA UnwatchKeeps ==
  ASSUME IInv, NEW t \in Threads, Unwatch(t)
  PROVE  IInv'
<1> USE DEF IInv
<1>1. /\ thread[t].pc = "unwatch" /\ watched' = watched \ thread[t].range
      /\ thread' = [thread EXCEPT ![t].pc = "store", ![t].range = {}]
      /\ lock' = NoThread
      /\ UNCHANGED <<memoryVars, valid, written, cacheVars, cp>>
  BY DEF Unwatch
<1>2. /\ thread' \in [Threads -> ThreadStates]
      /\ thread'[t].pc = "store" /\ \A u \in Threads \ {t} : thread'[u] = thread[u]
  BY <1>1 DEF Types, ThreadStates
<1>3. lock = t /\ valid \intersect thread[t].range = {}
  BY <1>1 DEF FaultOwnsRange, Faulting
<1>4. FaultOwnsRange'
  BY <1>1, <1>2, <1>3, SharedMemoryAssumption DEF FaultOwnsRange, Faulting, cacheVars
<1> QED BY <1>1, <1>2, <1>3, <1>4, FaultStepKeeps DEF cacheVars, Types, TypeOK, MirrorIsValid

-----------------------------------------------------------------------------
(* The invariant.                                                           *)

LEMMA CpContinueKeeps ==
  ASSUME IInv, CpContinue
  PROVE  IInv'
<1>1. CASE Use
  BY <1>1, UseKeeps DEF Use
<1>2. CASE ClearValid
  BY <1>2, FrameEndKeeps DEF ClearValid, At
<1>3. CASE ~Use /\ ~ClearValid
  BY <1>3, CheckMirrorKeeps, FailureKeeps, ScanKeeps, BeginUploadKeeps, AllocateRunKeeps,
     ProtectKeeps, CopyKeeps, CaptureKeeps, RefuseCaptureKeeps, ForgetRefusedKeeps,
     FallbackCopyKeeps, CopyChangedKeeps, FinishShadowKeeps, RangeWrittenByGpuKeeps,
     GpuRangeValidKeeps, GpuProtectKeeps DEF CpContinue
<1> QED BY <1>1, <1>2, <1>3

LEMMA CpCallKeeps ==
  ASSUME IInv, CpCall
  PROVE  IInv'
<1>1. CASE \E want \in (SUBSET Pages) \ {{}} : Request(want, FALSE)
  BY <1>1, RequestKeeps
<1>2. CASE \E want \in Ranges : Request(want, TRUE)
  BY <1>2, RequestKeeps DEF Ranges
<1>3. CASE CloseFrame
  BY <1>3, FrameEndKeeps DEF CloseFrame, At
<1>4. CASE ClearCache
  BY <1>4, ClearCacheKeeps
<1> QED BY <1>1, <1>2, <1>3, <1>4 DEF CpCall

LEMMA GuestStepKeeps ==
  ASSUME IInv, NEW t \in Threads, GuestStep(t)
  PROVE  IInv'
BY StoreKeeps, FaultKeeps, ClearMirrorKeeps, ClearFlagsKeeps, UnwatchKeeps DEF GuestStep

(* The notices are the native renderer's, and not in the invariant.         *)
LEMMA StutterKeeps ==
  ASSUME IInv, UNCHANGED <<memoryVars, flagVars, cacheVars, cp, guestVars>>
  PROVE  IInv'
<1> USE DEF IInv, memoryVars, flagVars, cacheVars, guestVars, At, Requested
<1>1. Types' /\ FaultOwnsRange' /\ RequestShape' /\ WrittenIsGpu'
  BY DEF Types, TypeOK, FaultOwnsRange, RequestShape, WrittenIsGpu
<1>2. ValidIsCurrent' /\ MirrorIsValid' /\ ShadowTakesPart' /\ ShadowIsBuffer'
  BY DEF ValidIsCurrent, MirrorIsValid, Uncopied, ShadowTakesPart, ShadowIsBuffer, Publishable
<1>3. SettledIsFresh' /\ CaptureIsCurrent'
  BY DEF SettledIsFresh, CaptureIsCurrent, Unsettled, Fresh, Chunk
<1> QED BY <1>1, <1>2, <1>3

LEMMA NextKeeps ==
  ASSUME IInv, [Next]_vars
  PROVE  IInv'
BY CpCallKeeps, CpContinueKeeps, InvalidateAllPagesKeeps, GuestStepKeeps, StutterKeeps
   DEF Next, vars

(* The flags, the mirror, the shadow and the CP's request agree, whatever   *)
(* stores, invalidations and GPU writes come between the request's steps.   *)
THEOREM Invariance == Spec => []IInv
<1> QED BY InitEstablishes, NextKeeps, PTL DEF Spec

-----------------------------------------------------------------------------
(* What follows from it.                                                    *)

LEMMA InvariantIsFresh ==
  ASSUME IInv
  PROVE  RequestedIsFresh
<1> SUFFICES ASSUME At("returned"), cp.ok
             PROVE  \A p \in Requested \ gpuData : buffer[p] >= cp.since[p]
  BY DEF RequestedIsFresh
<1>1. cp.left = {} /\ cp.todo = {}
  BY DEF IInv, RequestShape, At, Uploading, Copying, Shadowing
<1> QED BY <1>1 DEF IInv, SettledIsFresh, Unsettled, Fresh, At

(* "Pages whose contents in the buffer are in sync with guest memory" are   *)
(* marked valid, whatever the guest threads and the GPU write meanwhile,    *)
(* and the lock-free mirror never shows another page (MakeRangeValid,       *)
(* MemoryInvalidationCallback, NativeSharedResidencyMirror).                *)
THEOREM ValidIsCurrentAlways == Spec => [](ValidIsCurrent /\ MirrorIsValid)
<1>1. IInv => ValidIsCurrent /\ MirrorIsValid
  BY DEF IInv
<1> QED BY <1>1, Invariance, PTL

(* RequestRanges returns TRUE only when each page it was asked for is as    *)
(* recent as guest memory was at the call, through the mirror, the scan,    *)
(* the plain upload, the shadow or its second attempt.                      *)
THEOREM RequestedIsFreshAlways == Spec => []RequestedIsFresh
<1> QED BY Invariance, InvariantIsFresh, PTL

(* NativeUploadShadow publishes and keeps bytes only while the buffer holds *)
(* the same ones and the GPU has not written the page.                      *)
THEOREM ShadowIsBufferAlways == Spec => []ShadowIsBuffer
<1>1. IInv => ShadowIsBuffer
  BY DEF IInv
<1> QED BY <1>1, Invariance, PTL

(* A guest write takes the GPU's data from no page but its own, however     *)
(* wide the invalidation (MemoryInvalidationCallback's search for the       *)
(* neighbouring GPU data).                                                  *)
LEMMA StepKeepsWritten ==
  ASSUME IInv, Next, NEW p \in written \ written'
  PROVE  \/ \E t \in Threads : thread[t].pc = "flags" /\ thread[t].page = p
         \/ InvalidateAllPages
<1> USE DEF flagVars, SetSystemPageBlocksValidWithGpuDataWritten
<1>1. ASSUME AllocateRun PROVE FALSE
  <2>1. PICK last \in FirstRun(cp.todo) : written' = written \ (Min(cp.todo) .. last)
    BY <1>1 DEF AllocateRun, MakeRangeValid
  <2>2. Min(cp.todo) .. last \subseteq cp.todo
    BY RunOfTodo DEF IInv, Types, CpStates
  <2> QED BY <2>1, <2>2 DEF IInv, RequestShape
<1>2. ASSUME CpContinue PROVE FALSE
  <2>1. ~AllocateRun
    BY <1>1
  <2> QED BY <1>2, <2>1
          DEF CpContinue, CheckMirror, AllocationFailure, Scan, BeginUpload, UploadFailure,
              Protect, Copy, Capture, RefuseCapture, ForgetRefused, FallbackCopy, CopyChanged,
              FinishShadow, Use, RangeWrittenByGpu, GpuRangeValid, MakeRangeValid, GpuProtect,
              ClearValid
<1>3. ASSUME CpCall PROVE FALSE
  BY <1>3 DEF CpCall, Request, CloseFrame, ClearCache
<1>4. ASSUME NEW t \in Threads, GuestStep(t)
      PROVE  thread[t].pc = "flags" /\ thread[t].page = p
  <2>1. ClearFlags(t)
    BY <1>4 DEF GuestStep, Store, Fault, ClearMirror, Unwatch
  <2>2. thread[t].pc = "flags" /\ p \in thread[t].range
    BY <2>1 DEF ClearFlags
  <2> QED BY <2>2 DEF IInv, FaultOwnsRange
<1> QED BY <1>2, <1>3, <1>4 DEF Next

(* What the GPU wrote stays valid until MemoryInvalidationCallback comes for *)
(* that very page or InvalidateAllPages for every one.                      *)
THEOREM WrittenIsKeptAlways == Spec => WrittenIsKept
<1>1. ASSUME IInv, [Next]_vars
      PROVE  [\A p \in written \ written' :
                \/ \E t \in Threads : thread[t].pc = "flags" /\ thread[t].page = p
                \/ InvalidateAllPages]_vars
  BY <1>1, StepKeepsWritten
<1> QED BY <1>1, Invariance, PTL DEF Spec, WrittenIsKept

=============================================================================
