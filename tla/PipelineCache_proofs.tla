------------------------ MODULE PipelineCache_proofs ------------------------
(***************************************************************************)
(* The pipelines' way through the queue and the creation threads' hands,   *)
(* and the records' way into the storage files, for every set of pipelines *)
(* and every number of threads and openings.                               *)
(***************************************************************************)
EXTENDS PipelineCache, FiniteSetTheorems, SequenceTheorems, TLAPS

(* The CP's steps that have a pipeline at hand, before and after it is an  *)
(* entry of pipelines_.                                                    *)
BeforeEntry == {"shader_queued", "translated"}
AfterEntry == {"creation_queued", "configured", "described"}

(* The threads that creation_threads_busy_ counts.                         *)
Busy == {t \in Threads : tpc[t] \in {"create", "created"}}

Types ==
  /\ pipe \in [Pipelines -> {"absent", "pending", "settled", "deleted"}]
  /\ creation_queue \in SUBSET Pipelines
  /\ tpc \in [Threads -> {"loop", "waiting", "create", "created", "ended"}]
  /\ taken \in [Threads -> Pipelines \union {NoPipeline}]
  /\ cp_taken \in Pipelines \union {NoPipeline}
  /\ recorded \in SUBSET Pipelines

BusyIsCount == creation_threads_busy = Cardinality(Busy)

InHand(p) ==
  \/ \E t \in Threads : taken[t] = p
  \/ cpc = "create" /\ cp_taken = p

(* What a thread has taken is its own.                                     *)
ThreadOwns ==
  \A t \in Threads :
    /\ tpc[t] = "create" <=> taken[t] # NoPipeline
    /\ taken[t] # NoPipeline =>
         /\ pipe[taken[t]] = "pending"
         /\ taken[t] \notin creation_queue
         /\ ~(cpc = "create" /\ cp_taken = taken[t])
         /\ \A u \in Threads : taken[u] = taken[t] => u = t

(* What the CP has taken, or is about to enter or to record.               *)
CpOwns ==
  /\ cpc = "create" => /\ cp_taken \in Pipelines
                       /\ pipe[cp_taken] = "pending"
                       /\ cp_taken \notin creation_queue
  /\ cpc \in BeforeEntry => /\ cp_taken \in Pipelines
                            /\ pipe[cp_taken] = "absent"
  /\ cpc \in AfterEntry => /\ cp_taken \in Pipelines
                           /\ pipe[cp_taken] # "absent"

QueueIsPending ==
  \A p \in Pipelines :
    /\ p \in creation_queue => pipe[p] \in {"pending", "deleted"}
    /\ pipe[p] = "pending" => p \in creation_queue \/ InHand(p)
    /\ pipe[p] = "deleted" => cpc = "ended"
    /\ p \in recorded => pipe[p] # "absent"

(* No pipeline is queued or in creation from the time the event is seen,   *)
(* or found unnecessary, until the handles are resolved; while the CP      *)
(* awaits it, the event tells so.                                          *)
AwaitIsSound ==
  /\ cpc \in {"await_notify", "await"} =>
       /\ creation_queue = {}
       /\ creation_completion_event => creation_threads_busy = 0
  /\ cpc = "resolve" => creation_queue = {} /\ creation_threads_busy = 0

(* Once Shutdown has joined the threads they stay ended.                   *)
JoinedStaysEnded ==
  /\ cpc \in {"stop_writer", "notify_writer", "join_writer"} =>
       cp_call \in {"open", "shutdown"}
  /\ cpc \in {"notify_threads", "join_threads", "delete", "ended"} =>
       cp_call = "shutdown"
  /\ /\ cp_call = "shutdown"
     /\ cpc \notin {"notify_threads", "join_threads"}
     => \A t \in Threads : tpc[t] = "ended"
  /\ cp_call = "shutdown" =>
       cpc \in {"notify_threads", "join_threads", "stop_writer",
                "notify_writer", "join_writer", "delete", "ended"}

IInv ==
  /\ Types
  /\ BusyIsCount
  /\ ThreadOwns
  /\ CpOwns
  /\ QueueIsPending
  /\ AwaitIsSound
  /\ JoinedStaysEnded

LEMMA ThreadsFinite == IsFiniteSet(Threads)
<1>1. NumThreads \in Nat
  BY PipelineCacheAssumption
<1> QED BY <1>1, FS_Interval DEF Threads

LEMMA BusyFinite == IsFiniteSet(Busy)
BY ThreadsFinite, FS_Subset DEF Busy

(* With no busy thread, nothing is in a thread's hands.                    *)
LEMMA IdleMeansNobodyCreates ==
  ASSUME BusyIsCount, ThreadOwns, creation_threads_busy = 0
  PROVE  \A t \in Threads : taken[t] = NoPipeline
<1>1. Busy = {}
  BY BusyFinite, FS_EmptySet DEF BusyIsCount
<1> QED BY <1>1 DEF Busy, ThreadOwns

LEMMA InitEstablishes == Init => IInv
<1> SUFFICES ASSUME Init PROVE IInv
  OBVIOUS
<1>1. Types
  BY DEF Init, Types
<1>2. BusyIsCount
  <2>1. Busy = {}
    BY DEF Init, Busy
  <2> QED BY <2>1, FS_EmptySet DEF Init, BusyIsCount
<1>3. ThreadOwns
  BY DEF Init, ThreadOwns
<1>4. CpOwns /\ QueueIsPending /\ AwaitIsSound /\ JoinedStaysEnded
  BY DEF Init, CpOwns, QueueIsPending, AwaitIsSound, JoinedStaysEnded,
         BeforeEntry, AfterEntry
<1> QED BY <1>1, <1>2, <1>3, <1>4 DEF IInv

(* A step that moves no thread in or out of the busy ones and leaves the   *)
(* count alone.                                                            *)
LEMMA BusyKept ==
  ASSUME BusyIsCount, UNCHANGED creation_threads_busy,
         \A t \in Threads : tpc'[t] \in {"create", "created"}
                             <=> tpc[t] \in {"create", "created"}
  PROVE  BusyIsCount'
<1>1. Busy' = Busy
  BY DEF Busy
<1> QED BY <1>1 DEF BusyIsCount

LEMMA SleepKeeps ==
  ASSUME IInv, NEW t \in Threads, Sleep(t), UNCHANGED cpVars
  PROVE  IInv'
<1> USE DEF IInv, Sleep, countVars, cpVars, callVars
<1>1. Types'
  BY DEF Types
<1>2. BusyIsCount'
  BY BusyKept DEF Types
<1>3. ThreadOwns'
  BY DEF ThreadOwns, Types
<1>4. CpOwns' /\ QueueIsPending'
  BY DEF CpOwns, QueueIsPending, InHand
<1>5. AwaitIsSound'
  BY DEF AwaitIsSound, CompletionIsDue
<1>6. JoinedStaysEnded'
  BY DEF JoinedStaysEnded, Types
<1> QED BY <1>1, <1>2, <1>3, <1>4, <1>5, <1>6

LEMMA TakeKeeps ==
  ASSUME IInv, NEW t \in Threads, Take(t), UNCHANGED cpVars
  PROVE  IInv'
<1> USE DEF IInv, Take, eventVars, cpVars, callVars
<1>1. PICK p \in creation_queue : /\ creation_queue' = creation_queue \ {p}
                                  /\ taken' = [taken EXCEPT ![t] = p]
  OBVIOUS
<1>2. p \in Pipelines /\ p # NoPipeline /\ taken[t] = NoPipeline
  BY PipelineCacheAssumption DEF Types, ThreadOwns
<1>3. Types'
  BY <1>1, <1>2 DEF Types
<1>4. BusyIsCount'
  <2>1. Busy' = Busy \union {t} /\ t \notin Busy
    BY DEF Busy, Types
  <2> QED BY <2>1, BusyFinite, FS_AddElement DEF BusyIsCount
<1>5. pipe[p] = "pending"
  <2>1. cpc # "ended"
    BY DEF JoinedStaysEnded
  <2> QED BY <1>2, <2>1 DEF QueueIsPending
<1>6. ThreadOwns'
  BY <1>1, <1>2, <1>5 DEF ThreadOwns, CpOwns, Types
<1>7. CpOwns'
  BY <1>1 DEF CpOwns
<1>8. QueueIsPending'
  <2>1. taken'[t] = p /\ \A u \in Threads \ {t} : taken'[u] = taken[u]
    BY <1>1 DEF Types
  <2>2. InHand(p)'
    BY <2>1 DEF InHand
  <2>3. ASSUME NEW q \in Pipelines, InHand(q) PROVE InHand(q)'
    BY <1>2, <2>1, <2>3, PipelineCacheAssumption DEF InHand
  <2> QED BY <1>1, <1>2, <1>5, <2>2, <2>3 DEF QueueIsPending
<1>9. AwaitIsSound'
  BY <1>1 DEF AwaitIsSound
<1>10. JoinedStaysEnded'
  BY DEF JoinedStaysEnded, Types
<1> QED BY <1>3, <1>4, <1>6, <1>7, <1>8, <1>9, <1>10

LEMMA CreateKeeps ==
  ASSUME IInv, NEW t \in Threads, Create(t), UNCHANGED cpVars
  PROVE  IInv'
<1> USE DEF IInv, Create, eventVars, cpVars, callVars
<1>1. taken[t] \in Pipelines /\ pipe[taken[t]] = "pending"
  BY DEF Types, ThreadOwns
<1>2. Types'
  BY DEF Types
<1>3. BusyIsCount'
  BY BusyKept DEF Types
<1>4. ThreadOwns'
  BY <1>1 DEF ThreadOwns, Types
<1>5. CpOwns'
  BY <1>1 DEF CpOwns, ThreadOwns, Types, BeforeEntry, AfterEntry
<1>6. QueueIsPending'
  BY <1>1 DEF QueueIsPending, InHand, ThreadOwns, Types
<1>7. AwaitIsSound'
  BY DEF AwaitIsSound
<1>8. JoinedStaysEnded'
  BY DEF JoinedStaysEnded, Types
<1> QED BY <1>2, <1>3, <1>4, <1>5, <1>6, <1>7, <1>8

LEMMA FinishKeeps ==
  ASSUME IInv, NEW t \in Threads, Finish(t), UNCHANGED cpVars
  PROVE  IInv'
<1> USE DEF IInv, Finish, eventVars, cpVars, callVars
<1>1. Busy' = Busy \ {t} /\ t \in Busy
  BY DEF Busy, Types
<1>2. BusyIsCount'
  BY <1>1, BusyFinite, FS_RemoveElement DEF BusyIsCount
<1>3. creation_threads_busy # 0
  BY <1>1, BusyFinite, FS_EmptySet DEF BusyIsCount
<1>4. Types'
  BY DEF Types
<1>5. ThreadOwns'
  BY DEF ThreadOwns, Types
<1>6. CpOwns' /\ QueueIsPending'
  BY DEF CpOwns, QueueIsPending, InHand
<1>7. AwaitIsSound'
  BY <1>3 DEF AwaitIsSound
<1>8. JoinedStaysEnded'
  BY DEF JoinedStaysEnded, Types
<1> QED BY <1>2, <1>4, <1>5, <1>6, <1>7, <1>8

(* Nothing happens to pipelines and threads, but that some are woken.      *)
Woken ==
  /\ tpc' \in [Threads -> {"loop", "waiting", "create", "created", "ended"}]
  /\ \A t \in Threads :
       \/ tpc'[t] = tpc[t]
       \/ tpc[t] = "waiting" /\ tpc'[t] = "loop"
  /\ UNCHANGED <<pipe, creation_queue, creation_threads_busy, taken>>

LEMMA NotifyOneWakes ==
  ASSUME Types, NotifyOneThread
  PROVE  Woken
<1>1. CASE Waiting = {}
  BY <1>1 DEF NotifyOneThread, Woken, Types, eventVars, countVars
<1>2. CASE Waiting # {}
  <2>1. PICK t \in Waiting : tpc' = [tpc EXCEPT ![t] = "loop"]
    BY <1>2 DEF NotifyOneThread
  <2> QED BY <2>1 DEF NotifyOneThread, Woken, Types, eventVars, countVars, Waiting
<1> QED BY <1>1, <1>2

LEMMA NotifyAllWakes ==
  ASSUME Types, NotifyAllThreads
  PROVE  Woken
BY DEF NotifyAllThreads, Woken, Types, eventVars, countVars, Waiting

LEMMA UnchangedWakes ==
  ASSUME Types, UNCHANGED creationVars
  PROVE  Woken
BY DEF Woken, Types, creationVars, eventVars, countVars

(* What a step of the CP has to keep that creates nothing.                 *)
LEMMA CalmStepKeeps ==
  ASSUME IInv, Woken, cpc \notin {"create", "ended"}, cpc' # "create",
         cp_taken' \in Pipelines \union {NoPipeline},
         recorded' \subseteq {p \in Pipelines : pipe[p] # "absent"},
         CpOwns', AwaitIsSound', JoinedStaysEnded'
  PROVE  IInv'
<1> USE DEF IInv, Woken
<1>1. Types'
  BY DEF Types
<1>2. BusyIsCount'
  BY BusyKept
<1>3. ThreadOwns'
  BY DEF ThreadOwns
<1>4. QueueIsPending'
  BY DEF QueueIsPending, InHand
<1> QED BY <1>1, <1>2, <1>3, <1>4

(* What CalmStepKeeps asks of a step.                                      *)
Calm ==
  /\ Woken
  /\ cpc \notin {"create", "ended"} /\ cpc' # "create"
  /\ cp_taken' \in Pipelines \union {NoPipeline}
  /\ recorded' \subseteq {p \in Pipelines : pipe[p] # "absent"}
  /\ CpOwns' /\ AwaitIsSound' /\ JoinedStaysEnded'

LEMMA CalmKeeps ==
  ASSUME IInv, Calm
  PROVE  IInv'
BY CalmStepKeeps DEF Calm

LEMMA ConfigureKeeps ==
  ASSUME IInv,
         \/ ConfigureFound \/ ConfigureNew \/ ShaderQueued
         \/ CreationQueued \/ StoreDescription \/ DescriptionQueued
  PROVE  IInv'
<1> USE DEF IInv, GoTo, callVars
<1> SUFFICES Calm
  BY CalmKeeps
<1> USE DEF Calm
<1> USE DEF Types, CpOwns, AwaitIsSound, JoinedStaysEnded, QueueIsPending,
            BeforeEntry, AfterEntry
<1>1. CASE ConfigureFound
  BY <1>1, UnchangedWakes DEF ConfigureFound, creationVars
<1>2. CASE ConfigureNew
  BY <1>2, UnchangedWakes DEF ConfigureNew, creationVars
<1>3. CASE ShaderQueued
  BY <1>3, UnchangedWakes DEF ShaderQueued, creationVars
<1>4. CASE CreationQueued
  BY <1>4, NotifyOneWakes DEF CreationQueued, Woken
<1>5. CASE StoreDescription
  BY <1>5, UnchangedWakes DEF StoreDescription, creationVars
<1>6. CASE DescriptionQueued
  BY <1>6, UnchangedWakes DEF DescriptionQueued, creationVars
<1> QED BY <1>1, <1>2, <1>3, <1>4, <1>5, <1>6

LEMMA ResolveKeeps ==
  ASSUME IInv,
         \/ ReplayNativeDrawBoundary \/ ResolvePipelineHandles
         \/ EndSubmission \/ NotifyFlush \/ NothingToAwait \/ AwaitNotify
         \/ AwaitReturn
  PROVE  IInv'
<1> SUFFICES Calm
  BY CalmKeeps
<1> USE DEF IInv, GoTo, callVars, Calm, Types, CpOwns, AwaitIsSound,
            JoinedStaysEnded, QueueIsPending, BeforeEntry, AfterEntry
<1>1. CASE ReplayNativeDrawBoundary
  BY <1>1, UnchangedWakes
     DEF ReplayNativeDrawBoundary, creationVars, eventVars, countVars, IsCreatingPipelines
<1>2. CASE ResolvePipelineHandles
  BY <1>2, UnchangedWakes DEF ResolvePipelineHandles, creationVars
<1>3. CASE EndSubmission
  BY <1>3, UnchangedWakes DEF EndSubmission, creationVars
<1>4. CASE NotifyFlush
  BY <1>4, UnchangedWakes DEF NotifyFlush, creationVars
<1>5. CASE NothingToAwait
  BY <1>5, UnchangedWakes
     DEF NothingToAwait, creationVars, eventVars, countVars
<1>6. CASE AwaitNotify
  BY <1>6, NotifyOneWakes DEF AwaitNotify, Woken, NotifyOneThread, eventVars, countVars
<1>7. CASE AwaitReturn
  BY <1>7, UnchangedWakes
     DEF AwaitReturn, creationVars, eventVars, countVars
<1> QED BY <1>1, <1>2, <1>3, <1>4, <1>5, <1>6, <1>7

LEMMA StorageKeeps ==
  ASSUME IInv,
         \/ StopWriter \/ NotifyStop \/ CloseStorage
         \/ InitializeShaderStorage \/ OpenStorage \/ OpenStorageFails
         \/ PreloadNotify \/ PreloadAll \/ Drained \/ StartWriter
         \/ Opened
  PROVE  IInv'
<1> SUFFICES Calm
  BY CalmKeeps
<1> USE DEF IInv, GoTo, callVars, Calm, Types, CpOwns, AwaitIsSound,
            JoinedStaysEnded, QueueIsPending, BeforeEntry, AfterEntry
<1>1. CASE StopWriter
  BY <1>1, UnchangedWakes DEF StopWriter, creationVars
<1>2. CASE NotifyStop
  BY <1>2, UnchangedWakes DEF NotifyStop, creationVars
<1>3. CASE CloseStorage
  BY <1>3, UnchangedWakes DEF CloseStorage, creationVars
<1>4. CASE InitializeShaderStorage
  BY <1>4, UnchangedWakes DEF InitializeShaderStorage, creationVars
<1>5. CASE OpenStorage
  BY <1>5, UnchangedWakes DEF OpenStorage, creationVars
<1>6. CASE OpenStorageFails
  BY <1>6, UnchangedWakes DEF OpenStorageFails, creationVars, ReturnFromOpen
<1>7. CASE PreloadNotify
  BY <1>7, NotifyOneWakes DEF PreloadNotify, Woken, countVars
<1>8. CASE PreloadAll
  BY <1>8, UnchangedWakes DEF PreloadAll, creationVars
<1>9. CASE Drained
  BY <1>9, UnchangedWakes DEF Drained, creationVars
<1>10. CASE StartWriter
  BY <1>10, UnchangedWakes DEF StartWriter, creationVars
<1>11. CASE Opened
  BY <1>11, UnchangedWakes DEF Opened, creationVars, ReturnFromOpen
<1> QED BY <1>1, <1>2, <1>3, <1>4, <1>5, <1>6, <1>7, <1>8, <1>9, <1>10, <1>11

LEMMA JoinKeeps ==
  ASSUME IInv,
         \/ NotifyThreads \/ JoinThreads
  PROVE  IInv'
<1> SUFFICES Calm
  BY CalmKeeps
<1> USE DEF IInv, GoTo, callVars, Calm, Types, CpOwns, AwaitIsSound,
            JoinedStaysEnded, QueueIsPending, BeforeEntry, AfterEntry
<1>1. CASE NotifyThreads
  BY <1>1, NotifyAllWakes DEF NotifyThreads, Woken, countVars
<1>2. CASE JoinThreads
  BY <1>2, UnchangedWakes DEF JoinThreads, creationVars
<1> QED BY <1>1, <1>2

(* A new pipeline enters the queue, from a draw or from the stored ones.   *)
LEMMA EnqueueKeeps ==
  ASSUME IInv, NEW p \in Pipelines, pipe[p] = "absent",
         pipe' = [pipe EXCEPT ![p] = "pending"],
         creation_queue' = creation_queue \union {p},
         UNCHANGED <<eventVars, countVars, tpc, callVars>>,
         \/ GoTo("translated", "creation_queued") /\ cp_taken = p
         \/ GoTo("preload", "preload_notify")
  PROVE  IInv'
<1> USE DEF IInv, GoTo, eventVars, countVars, callVars
<1>1. Types'
  BY DEF Types
<1>2. BusyIsCount'
  BY BusyKept DEF Types
<1>3. ThreadOwns'
  BY DEF ThreadOwns, Types
<1>4. CpOwns'
  BY DEF CpOwns, Types, BeforeEntry, AfterEntry
<1>5. QueueIsPending'
  BY DEF QueueIsPending, InHand, Types
<1>6. AwaitIsSound' /\ JoinedStaysEnded'
  BY DEF AwaitIsSound, JoinedStaysEnded
<1> QED BY <1>1, <1>2, <1>3, <1>4, <1>5, <1>6

LEMMA QueueKeeps ==
  ASSUME IInv, QueueCreation \/ PreloadQueue
  PROVE  IInv'
<1>1. CASE QueueCreation
  <2>1. cp_taken \in Pipelines /\ pipe[cp_taken] = "absent"
    BY <1>1 DEF QueueCreation, GoTo, IInv, CpOwns, BeforeEntry
  <2> QED BY <1>1, <2>1, EnqueueKeeps DEF QueueCreation
<1>2. CASE PreloadQueue
  BY <1>2, EnqueueKeeps DEF PreloadQueue
<1> QED BY <1>1, <1>2

(* The CP settles the pipeline it has at hand.                             *)
LEMMA SettleKeeps ==
  ASSUME IInv, CreateAtOnce \/ DrainCreate
  PROVE  IInv'
<1> USE DEF IInv, GoTo, eventVars, countVars, callVars, CreateAtOnce,
            DrainCreate
<1>1. /\ cp_taken \in Pipelines
      /\ pipe' = [pipe EXCEPT ![cp_taken] = "settled"]
      /\ \A t \in Threads : taken[t] # cp_taken
  BY PipelineCacheAssumption DEF CpOwns, ThreadOwns, BeforeEntry, Types
<1>2. Types'
  BY <1>1 DEF Types
<1>3. BusyIsCount'
  BY BusyKept DEF Types
<1>4. ThreadOwns'
  BY <1>1 DEF ThreadOwns, Types
<1>5. CpOwns'
  BY <1>1 DEF CpOwns, Types, BeforeEntry, AfterEntry
<1>6. cp_taken \notin creation_queue
  BY DEF CpOwns, QueueIsPending, BeforeEntry
<1>7. QueueIsPending'
  BY <1>1, <1>6 DEF QueueIsPending, InHand, Types
<1>8. AwaitIsSound' /\ JoinedStaysEnded'
  BY DEF AwaitIsSound, JoinedStaysEnded
<1> QED BY <1>2, <1>3, <1>4, <1>5, <1>7, <1>8

LEMMA DrainTakeKeeps ==
  ASSUME IInv, DrainTake
  PROVE  IInv'
<1> USE DEF IInv, GoTo, eventVars, countVars, callVars, DrainTake
<1>1. PICK p \in creation_queue : /\ creation_queue' = creation_queue \ {p}
                                  /\ cp_taken' = p
  OBVIOUS
<1>2. p \in Pipelines /\ pipe[p] = "pending"
  BY DEF Types, QueueIsPending
<1>3. Types'
  BY <1>1, <1>2 DEF Types
<1>4. BusyIsCount'
  BY BusyKept DEF Types
<1>5. ThreadOwns'
  BY <1>1, <1>2, PipelineCacheAssumption DEF ThreadOwns, Types
<1>6. CpOwns'
  BY <1>1, <1>2 DEF CpOwns, BeforeEntry, AfterEntry
<1>7. QueueIsPending'
  BY <1>1, <1>2 DEF QueueIsPending, InHand, Types
<1>8. AwaitIsSound' /\ JoinedStaysEnded'
  BY DEF AwaitIsSound, JoinedStaysEnded
<1> QED BY <1>3, <1>4, <1>5, <1>6, <1>7, <1>8

LEMMA AwaitKeeps ==
  ASSUME IInv, Await \/ Shutdown
  PROVE  IInv'
<1> USE DEF IInv, GoTo, eventVars, countVars, callVars, Await, Shutdown
<1>1. Types' /\ ThreadOwns' /\ QueueIsPending'
  BY DEF Types, ThreadOwns, QueueIsPending, InHand
<1>2. BusyIsCount'
  BY BusyKept DEF Types
<1>3. CpOwns'
  BY DEF CpOwns, BeforeEntry, AfterEntry
<1>4. AwaitIsSound' /\ JoinedStaysEnded'
  BY DEF AwaitIsSound, JoinedStaysEnded
<1> QED BY <1>1, <1>2, <1>3, <1>4

LEMMA DeleteKeeps ==
  ASSUME IInv, DeletePipelines
  PROVE  IInv'
<1> USE DEF IInv, GoTo, eventVars, countVars, callVars, DeletePipelines
<1>1. \A t \in Threads : taken[t] = NoPipeline
  BY DEF JoinedStaysEnded, ThreadOwns
<1>2. Types' /\ ThreadOwns'
  BY <1>1 DEF Types, ThreadOwns
<1>3. BusyIsCount'
  BY BusyKept DEF Types
<1>4. CpOwns' /\ AwaitIsSound' /\ JoinedStaysEnded'
  BY DEF CpOwns, AwaitIsSound, JoinedStaysEnded, BeforeEntry, AfterEntry
<1>5. QueueIsPending'
  BY DEF QueueIsPending, Types
<1> QED BY <1>2, <1>3, <1>4, <1>5

(* Steps that concern neither pipelines nor the CP.                        *)
LEMMA AsideKeeps ==
  ASSUME IInv, Woken, UNCHANGED <<eventVars, cpVars>>
  PROVE  IInv'
<1> USE DEF IInv, Woken, eventVars, cpVars, callVars
<1>1. Types' /\ ThreadOwns' /\ CpOwns' /\ QueueIsPending'
  BY DEF Types, ThreadOwns, CpOwns, QueueIsPending, InHand
<1>2. BusyIsCount'
  BY BusyKept
<1>3. AwaitIsSound' /\ JoinedStaysEnded'
  BY DEF AwaitIsSound, JoinedStaysEnded, Types
<1> QED BY <1>1, <1>2, <1>3

LEMMA NextKeeps == IInv /\ [Next]_vars => IInv'
<1> SUFFICES ASSUME IInv, [Next]_vars PROVE IInv'
  OBVIOUS
<1>0. Types
  BY DEF IInv
<1>1. CASE CpCall
  BY <1>1, ConfigureKeeps, ResolveKeeps, StorageKeeps, AwaitKeeps DEF CpCall
<1>2. CASE CpContinue
  <2>1. CASE \/ ShaderQueued \/ CreationQueued \/ StoreDescription
             \/ DescriptionQueued
    BY <2>1, ConfigureKeeps
  <2>2. CASE QueueCreation \/ PreloadQueue
    BY <2>2, QueueKeeps
  <2>3. CASE CreateAtOnce \/ DrainCreate
    BY <2>3, SettleKeeps
  <2>4. CASE \/ ResolvePipelineHandles \/ NotifyFlush \/ NothingToAwait
             \/ AwaitNotify \/ AwaitReturn
    BY <2>4, ResolveKeeps
  <2>5. CASE DrainTake
    BY <2>5, DrainTakeKeeps
  <2>6. CASE Await
    BY <2>6, AwaitKeeps
  <2>7. CASE \/ StopWriter \/ NotifyStop \/ CloseStorage \/ OpenStorage
             \/ OpenStorageFails \/ PreloadNotify \/ PreloadAll \/ Drained
             \/ StartWriter \/ Opened
    BY <2>7, StorageKeeps
  <2>8. CASE NotifyThreads \/ JoinThreads
    BY <2>8, JoinKeeps
  <2>9. CASE DeletePipelines
    BY <2>9, DeleteKeeps
  <2> QED BY <1>2, <2>1, <2>2, <2>3, <2>4, <2>5, <2>6, <2>7, <2>8, <2>9
             DEF CpContinue
<1>3. ASSUME NEW t \in Threads, CreationThread(t)
      PROVE  IInv'
  BY <1>3, SleepKeeps, TakeKeeps, CreateKeeps, FinishKeeps
     DEF CreationThread
<1>4. CASE StorageWriteThread
  <2>1. UNCHANGED <<creationVars, cpVars>>
    BY <1>4 DEF StorageWriteThread
  <2>2. UNCHANGED eventVars
    BY <2>1 DEF creationVars
  <2> QED BY <1>0, <2>1, <2>2, UnchangedWakes, AsideKeeps
<1>5. CASE SpuriousWake
  <2>1. CASE NotifyOneThread
    <3>1. UNCHANGED eventVars
      BY <2>1 DEF NotifyOneThread
    <3> QED BY <1>0, <1>5, <2>1, <3>1, NotifyOneWakes, AsideKeeps
            DEF SpuriousWake
  <2>2. CASE UNCHANGED creationVars
    <3>1. UNCHANGED eventVars
      BY <2>2 DEF creationVars
    <3> QED BY <1>0, <1>5, <2>2, <3>1, UnchangedWakes, AsideKeeps
            DEF SpuriousWake
  <2> QED BY <1>5, <2>1, <2>2 DEF SpuriousWake
<1>6. CASE UNCHANGED vars
  <2>1. UNCHANGED <<creationVars, cpVars>> /\ UNCHANGED eventVars
    BY <1>6 DEF vars, creationVars
  <2> QED BY <1>0, <2>1, UnchangedWakes, AsideKeeps
<1> QED BY <1>1, <1>2, <1>3, <1>4, <1>5, <1>6 DEF Next

LEMMA Invariance == Spec => []IInv
BY InitEstablishes, NextKeeps, PTL DEF Spec

LEMMA OnePlace ==
  ASSUME IInv
  PROVE  PendingHasOnePlace
<1> USE DEF IInv
<1> SUFFICES ASSUME NEW p \in Pipelines
             PROVE  IF pipe[p] = "pending"
                    THEN \/ p \in creation_queue /\ Takers(p) = {}
                         \/ /\ p \notin creation_queue
                            /\ \E x \in 0 .. Never : Takers(p) = {x}
                    ELSE /\ Takers(p) = {}
                         /\ pipe[p] # "deleted" => p \notin creation_queue
  BY DEF PendingHasOnePlace
<1>1. p # NoPipeline
  BY PipelineCacheAssumption
<1>2. ASSUME NEW t \in Threads, taken[t] = p
      PROVE  /\ pipe[p] = "pending" /\ p \notin creation_queue
             /\ t \in 0 .. Never /\ Takers(p) = {t}
  BY <1>1, <1>2, PipelineCacheAssumption
     DEF ThreadOwns, Takers, Threads, Never
<1>3. ASSUME cpc = "create", cp_taken = p
      PROVE  /\ pipe[p] = "pending" /\ p \notin creation_queue
             /\ Never \in 0 .. Never /\ Takers(p) = {Never}
  BY <1>1, <1>2, <1>3, PipelineCacheAssumption
     DEF ThreadOwns, CpOwns, Takers, Never
<1>4. CASE InHand(p)
  BY <1>2, <1>3, <1>4 DEF InHand
<1>5. CASE ~InHand(p)
  <2>1. Takers(p) = {}
    BY <1>5 DEF InHand, Takers
  <2> QED BY <1>5, <2>1 DEF QueueIsPending
<1> QED BY <1>4, <1>5

LEMMA Settled ==
  ASSUME IInv
  PROVE  ResolvedIsSettled
<1> USE DEF IInv
<1> SUFFICES ASSUME cpc = "resolve", NEW p \in recorded
             PROVE  pipe[p] = "settled"
  BY DEF ResolvedIsSettled
<1>1. p \in Pipelines
  BY DEF Types
<1>2. ~InHand(p) /\ p \notin creation_queue
  BY <1>1, IdleMeansNobodyCreates, PipelineCacheAssumption
     DEF AwaitIsSound, InHand
<1> QED BY <1>1, <1>2 DEF QueueIsPending, Types

(* No pipeline is created twice, forgotten or taken by two threads,        *)
(* whatever the number of creation threads.                                *)
THEOREM PendingHasOnePlaceAlways == Spec => []PendingHasOnePlace
BY Invariance, OnePlace, PTL

(* Neither a chunk boundary nor EndSubmission ever resolves a handle whose *)
(* pipeline is still to be created.                                        *)
THEOREM ResolvedIsSettledAlways == Spec => []ResolvedIsSettled
BY Invariance, Settled, PTL

(***************************************************************************)
(* The storage files.                                                      *)
(***************************************************************************)
ControlTypes ==
  /\ creation_completion_set_event \in BOOLEAN
  /\ creation_completion_event \in BOOLEAN
  /\ creation_threads_shutdown_from \in {0, Never}
  /\ cpc \in {"idle", "shader_queued", "translated", "creation_queued",
              "configured", "described", "resolve", "flush", "drain",
              "create", "await_notify", "await", "stop_writer",
              "notify_writer", "join_writer", "open", "preload",
              "preload_notify", "start_writer", "opened", "notify_threads",
              "join_threads", "delete", "ended"}
  /\ cp_call \in {"none", "submission", "open", "shutdown"}
  /\ opens \in 0 .. MaxOpens

StorageTypes ==
  /\ storage_open \in BOOLEAN
  /\ write_queue \in [Kinds -> Seq(Pipelines)]
  /\ flush_needed \in [Kinds -> BOOLEAN]
  /\ flush_requested \in [Kinds -> BOOLEAN]
  /\ storage_write_thread_shutdown \in BOOLEAN
  /\ spc \in {"loop", "waiting", "write", "ended"}
  /\ writing \in [Kinds -> Pipelines \union {NoPipeline}]
  /\ flushing \in [Kinds -> BOOLEAN]
  /\ file \in [Kinds -> Seq(Pipelines)]
  /\ requested \in [Kinds -> Seq(Pipelines)]

(* InitializeShaderStorage's steps that come after the files were opened.  *)
Opening == {"preload", "preload_notify", "start_writer", "opened"}

(* The writer is started over open files only, and they are opened anew    *)
(* only when they have been closed.                                        *)
OpenFollows ==
  /\ \/ cpc \in Opening
     \/ cpc \in {"drain", "create"} /\ cp_call = "open"
     => storage_open
  /\ cpc = "open" => ~storage_open
  /\ cpc = "flush" => cp_call = "submission"

(* The last writer has ended before the next one is started.               *)
WriterFollows ==
  \/ cpc \in Opening \ {"opened"}
  \/ cpc \in {"drain", "create"} /\ cp_call = "open"
  => spc = "ended"

(* Without a storage there is no writer and nothing is queued for it.      *)
ClosedIsQuiet ==
  ~storage_open => /\ spc = "ended"
                   /\ \A k \in Kinds : write_queue[k] = <<>>

(* Only between its two steps does the writer hold records.                *)
HoldsWhileWriting ==
  spc # "write" => \A k \in Kinds : writing[k] = NoPipeline

(* What the records themselves need.                                       *)
FileInv == StorageTypes /\ ClosedIsQuiet /\ HoldsWhileWriting /\ StoredInOrder

(* What the CP's place in its call needs.                                  *)
CallInv == ControlTypes /\ OpenFollows /\ WriterFollows

LEMMA InParts ==
  ASSUME NEW r \in Seq(Pipelines), NEW s \in Seq(Pipelines),
         NEW t \in Seq(Pipelines)
  PROVE  (r \o s) \o t = r \o (s \o t)
BY ConcatAssociative

LEMMA RecordIsSequence ==
  ASSUME NEW p \in Pipelines \union {NoPipeline}
  PROVE  Record(p) \in Seq(Pipelines)
<1>1. <<>> \in Seq(Pipelines)
  OBVIOUS
<1>2. ASSUME p # NoPipeline PROVE <<p>> \in Seq(Pipelines)
  <2>1. p \in Pipelines
    BY <1>2
  <2> QED BY <2>1
<1> QED BY <1>1, <1>2 DEF Record

LEMMA InitFiles == Init => FileInv /\ CallInv
<1> SUFFICES ASSUME Init PROVE FileInv /\ CallInv
  OBVIOUS
<1> USE DEF Init
<1>0. <<>> \in Seq(Pipelines)
  OBVIOUS
<1>1. StorageTypes
  BY <1>0 DEF StorageTypes
<1>2. ControlTypes
  <2>1. 0 \in 0 .. MaxOpens
    BY PipelineCacheAssumption
  <2> QED BY <2>1 DEF ControlTypes
<1>3. OpenFollows /\ ClosedIsQuiet /\ HoldsWhileWriting
  BY DEF OpenFollows, Opening, ClosedIsQuiet, HoldsWhileWriting
<1>4. WriterFollows
  BY DEF WriterFollows
<1>5. StoredInOrder
  <2>1. IsPrefix(<<>>, <<>>)
    BY DEF IsPrefix
  <2> QED BY <2>1 DEF StoredInOrder
<1> QED BY <1>1, <1>2, <1>3, <1>4, <1>5 DEF FileInv, CallInv

(* The records stay where they are.                                        *)
LEMMA FilesStay ==
  ASSUME FileInv, UNCHANGED storageVars
  PROVE  FileInv'
<1>1. /\ storage_open' = storage_open /\ write_queue' = write_queue
      /\ flush_needed' = flush_needed /\ flush_requested' = flush_requested
      /\ storage_write_thread_shutdown' = storage_write_thread_shutdown
      /\ spc' = spc /\ writing' = writing /\ flushing' = flushing
      /\ file' = file /\ requested' = requested
  BY DEF storageVars, requestVars, writerVars
<1>2. StorageTypes'
  BY <1>1 DEF FileInv, StorageTypes
<1>3. ClosedIsQuiet' /\ HoldsWhileWriting' /\ StoredInOrder'
  BY <1>1 DEF FileInv, ClosedIsQuiet, HoldsWhileWriting, StoredInOrder
<1> QED BY <1>2, <1>3 DEF FileInv

LEMMA NotifyKeepsFiles ==
  ASSUME FileInv, NotifyWriter
  PROVE  FileInv'
<1>1. /\ storage_open' = storage_open /\ write_queue' = write_queue
      /\ flush_needed' = flush_needed /\ flush_requested' = flush_requested
      /\ storage_write_thread_shutdown' = storage_write_thread_shutdown
      /\ writing' = writing /\ flushing' = flushing
      /\ file' = file /\ requested' = requested
  BY DEF NotifyWriter, requestVars, writerVars
<1>2. spc' = spc \/ (spc = "waiting" /\ spc' = "loop")
  BY DEF NotifyWriter
<1>3. StorageTypes'
  BY <1>1, <1>2 DEF FileInv, StorageTypes
<1>4. ClosedIsQuiet' /\ HoldsWhileWriting'
  BY <1>1, <1>2 DEF FileInv, ClosedIsQuiet, HoldsWhileWriting
<1>5. StoredInOrder'
  BY <1>1 DEF FileInv, StoredInOrder
<1> QED BY <1>3, <1>4, <1>5 DEF FileInv

(* A record is queued for the files and noted as asked for.                *)
LEMMA EnqueueKeepsFiles ==
  ASSUME FileInv, storage_open, NEW k \in Kinds, NEW p \in Pipelines,
         Enqueue(k, p)
  PROVE  FileInv'
<1>1. /\ storage_open' = storage_open
      /\ flush_requested' = flush_requested
      /\ storage_write_thread_shutdown' = storage_write_thread_shutdown
      /\ writing' = writing /\ flushing' = flushing
      /\ file' = file /\ spc' = spc
      /\ write_queue' = [write_queue EXCEPT ![k] = Append(@, p)]
      /\ requested' = [requested EXCEPT ![k] = Append(@, p)]
      /\ flush_needed' = [flush_needed EXCEPT ![k] = TRUE]
  BY DEF Enqueue, writerVars
<1>2. \A s \in Seq(Pipelines) : /\ Append(s, p) \in Seq(Pipelines)
                                /\ Append(s, p) = s \o <<p>>
  BY AppendIsConcat
<1>3. StorageTypes'
  BY <1>1, <1>2 DEF FileInv, StorageTypes
<1>4. ClosedIsQuiet' /\ HoldsWhileWriting'
  BY <1>1 DEF FileInv, ClosedIsQuiet, HoldsWhileWriting
<1>5. StoredInOrder'
  <2> SUFFICES ASSUME NEW j \in Kinds
               PROVE  (file'[j] \o Record(writing'[j])) \o write_queue'[j]
                        = requested'[j]
    BY <1>1 DEF StoredInOrder
  <2>1. (file[j] \o Record(writing[j])) \o write_queue[j] = requested[j]
    BY DEF FileInv, StoredInOrder
  <2>2. CASE j # k
    BY <1>1, <2>1, <2>2 DEF FileInv, StorageTypes
  <2>3. CASE j = k
    <3> DEFINE front == file[j] \o Record(writing[j])
    <3>1. /\ file[j] \in Seq(Pipelines) /\ write_queue[j] \in Seq(Pipelines)
          /\ requested[j] \in Seq(Pipelines)
          /\ writing[j] \in Pipelines \union {NoPipeline}
      BY DEF FileInv, StorageTypes
    <3>2. front \in Seq(Pipelines)
      BY <3>1, RecordIsSequence, ConcatProperties
    <3>3. <<p>> \in Seq(Pipelines)
      OBVIOUS
    <3>4. /\ write_queue'[j] = write_queue[j] \o <<p>>
          /\ requested'[j] = requested[j] \o <<p>>
      BY <1>1, <1>2, <2>3, <3>1 DEF FileInv, StorageTypes
    <3>5. file'[j] \o Record(writing'[j]) = front
      BY <1>1
    <3>6. front \o write_queue[j] = requested[j]
      BY <2>1
    <3> HIDE DEF front
    <3>7. \A s \in Seq(Pipelines) :
            (front \o write_queue[j]) \o s = front \o (write_queue[j] \o s)
      BY <3>1, <3>2, InParts, Zenon
    <3> QED BY <3>3, <3>4, <3>5, <3>6, <3>7
  <2> QED BY <2>2, <2>3
<1> QED BY <1>3, <1>4, <1>5 DEF FileInv

(***************************************************************************)
(* The writer thread's turns.                                              *)
(***************************************************************************)
LEMMA FlushKeepsFiles ==
  ASSUME FileInv, StorageWriteThread, Flush \/ StopWriting
  PROVE  FileInv'
<1>1. /\ storage_open' = storage_open /\ write_queue' = write_queue
      /\ flush_needed' = flush_needed /\ flush_requested' = flush_requested
      /\ storage_write_thread_shutdown' = storage_write_thread_shutdown
      /\ writing' = writing /\ file' = file /\ requested' = requested
  BY DEF StorageWriteThread, Flush, StopWriting, writerVars
<1>2. /\ spc = "loop" /\ spc' \in {"loop", "ended"}
      /\ flushing' \in [Kinds -> BOOLEAN]
  <2>1. CASE Flush
    BY <2>1 DEF Flush
  <2>2. CASE StopWriting
    BY <2>2 DEF StopWriting, writerVars, FileInv, StorageTypes
  <2> QED BY <2>1, <2>2
<1>3. StorageTypes'
  BY <1>1, <1>2 DEF FileInv, StorageTypes
<1>4. ClosedIsQuiet' /\ HoldsWhileWriting'
  BY <1>1, <1>2 DEF FileInv, ClosedIsQuiet, HoldsWhileWriting
<1>5. StoredInOrder'
  BY <1>1 DEF FileInv, StoredInOrder
<1> QED BY <1>3, <1>4, <1>5 DEF FileInv

(* The head of a queue moves into the writer's hands.                      *)
LEMMA TakeRecordsKeepsFiles ==
  ASSUME FileInv, StorageWriteThread, TakeRecords
  PROVE  FileInv'
<1>1. /\ storage_open' = storage_open /\ flush_needed' = flush_needed
      /\ storage_write_thread_shutdown' = storage_write_thread_shutdown
      /\ file' = file /\ requested' = requested
  BY DEF StorageWriteThread, TakeRecords
<1>2. /\ spc = "loop"
      /\ writing' = [k \in Kinds |->
                       IF Queued(k) THEN Head(write_queue[k]) ELSE NoPipeline]
      /\ write_queue' = [k \in Kinds |->
                           IF Queued(k) THEN Tail(write_queue[k]) ELSE <<>>]
      /\ flushing' = [k \in Kinds |-> flush_requested[k] /\ ~Queued(k)]
      /\ flush_requested' = [k \in Kinds |-> flush_requested[k] /\ Queued(k)]
      /\ spc' = IF \E k \in Kinds : Queued(k) THEN "write" ELSE "waiting"
  BY DEF TakeRecords
<1>3. storage_open
  BY <1>2 DEF FileInv, ClosedIsQuiet, StorageTypes
<1>4. \A k \in Kinds : writing[k] = NoPipeline
  BY <1>2 DEF FileInv, HoldsWhileWriting
<1>5. ASSUME NEW k \in Kinds
      PROVE  /\ writing'[k] \in Pipelines \union {NoPipeline}
             /\ write_queue'[k] \in Seq(Pipelines)
             /\ Record(writing'[k]) \o write_queue'[k] = write_queue[k]
  <2>1. write_queue[k] \in Seq(Pipelines)
    BY DEF FileInv, StorageTypes
  <2>2. CASE Queued(k)
    <3>1. writing'[k] = Head(write_queue[k]) /\ write_queue'[k] = Tail(write_queue[k])
      BY <1>2, <2>2
    <3>2. write_queue[k] # <<>>
      BY <2>2 DEF Queued
    <3>3. /\ Head(write_queue[k]) \in Pipelines
          /\ Tail(write_queue[k]) \in Seq(Pipelines)
          /\ <<Head(write_queue[k])>> \o Tail(write_queue[k]) = write_queue[k]
      BY <2>1, <3>2, HeadTailProperties
    <3>4. Record(writing'[k]) = <<Head(write_queue[k])>>
      BY <3>1, <3>3, PipelineCacheAssumption DEF Record
    <3> QED BY <3>1, <3>3, <3>4
  <2>3. CASE ~Queued(k)
    <3>1. writing'[k] = NoPipeline /\ write_queue'[k] = <<>>
      BY <1>2, <2>3
    <3>2. write_queue[k] = <<>>
      BY <2>3 DEF Queued
    <3>3. <<>> \in Seq(Pipelines) /\ <<>> \o <<>> = <<>>
      OBVIOUS
    <3> QED BY <3>1, <3>2, <3>3 DEF Record
  <2> QED BY <2>2, <2>3
<1>6. StorageTypes'
  <2>1. /\ writing' \in [Kinds -> Pipelines \union {NoPipeline}]
        /\ write_queue' \in [Kinds -> Seq(Pipelines)]
    BY <1>2, <1>5
  <2>2. flushing' \in [Kinds -> BOOLEAN] /\ flush_requested' \in [Kinds -> BOOLEAN]
    <3>1. \A k \in Kinds : /\ (flush_requested[k] /\ ~Queued(k)) \in BOOLEAN
                           /\ (flush_requested[k] /\ Queued(k)) \in BOOLEAN
      OBVIOUS
    <3> QED BY <1>2, <3>1
  <2>3. spc' \in {"write", "waiting"}
    BY <1>2
  <2> QED BY <1>1, <2>1, <2>2, <2>3 DEF FileInv, StorageTypes
<1>7. HoldsWhileWriting'
  <2> SUFFICES ASSUME spc' # "write", NEW k \in Kinds
               PROVE  writing'[k] = NoPipeline
    BY DEF HoldsWhileWriting
  <2>1. ~Queued(k)
    BY <1>2
  <2> QED BY <1>2, <2>1
<1>8. ClosedIsQuiet'
  BY <1>1, <1>3 DEF ClosedIsQuiet
<1>9. StoredInOrder'
  <2> SUFFICES ASSUME NEW k \in Kinds
               PROVE  (file'[k] \o Record(writing'[k])) \o write_queue'[k]
                        = requested'[k]
    BY <1>1, <1>3 DEF StoredInOrder
  <2>1. file[k] \in Seq(Pipelines) /\ write_queue[k] \in Seq(Pipelines)
    BY DEF FileInv, StorageTypes
  <2>2. file[k] \o write_queue[k] = requested[k]
    <3>1. (file[k] \o Record(writing[k])) \o write_queue[k] = requested[k]
      BY <1>3 DEF FileInv, StoredInOrder
    <3>2. Record(writing[k]) = <<>>
      BY <1>4 DEF Record
    <3>3. file[k] \o <<>> = file[k]
      BY <2>1, ConcatEmptySeq
    <3> QED BY <3>1, <3>2, <3>3
  <2>3. /\ Record(writing'[k]) \in Seq(Pipelines)
        /\ write_queue'[k] \in Seq(Pipelines)
    BY <1>5, RecordIsSequence
  <2>4. (file[k] \o Record(writing'[k])) \o write_queue'[k]
          = file[k] \o (Record(writing'[k]) \o write_queue'[k])
    BY <2>1, <2>3, InParts, Zenon
  <2> QED BY <1>1, <1>5, <2>2, <2>4
<1> QED BY <1>6, <1>7, <1>8, <1>9 DEF FileInv

(* What the writer holds goes to the end of the file.                      *)
LEMMA WriteKeepsFiles ==
  ASSUME FileInv, StorageWriteThread, Write
  PROVE  FileInv'
<1>1. /\ storage_open' = storage_open /\ flush_needed' = flush_needed
      /\ storage_write_thread_shutdown' = storage_write_thread_shutdown
      /\ requested' = requested /\ write_queue' = write_queue
      /\ flushing' = flushing /\ flush_requested' = flush_requested
  BY DEF StorageWriteThread, Write
<1>2. /\ spc = "write" /\ spc' = "loop"
      /\ file' = [k \in Kinds |-> file[k] \o Record(writing[k])]
      /\ writing' = [k \in Kinds |-> NoPipeline]
  BY DEF Write
<1>3. storage_open
  BY <1>2 DEF FileInv, ClosedIsQuiet, StorageTypes
<1>4. ASSUME NEW k \in Kinds
      PROVE  /\ file'[k] = file[k] \o Record(writing[k])
             /\ file'[k] \in Seq(Pipelines)
             /\ Record(writing'[k]) = <<>>
  <2>1. file[k] \in Seq(Pipelines) /\ writing[k] \in Pipelines \union {NoPipeline}
    BY DEF FileInv, StorageTypes
  <2>2. file[k] \o Record(writing[k]) \in Seq(Pipelines)
    BY <2>1, RecordIsSequence, ConcatProperties
  <2> QED BY <1>2, <2>2 DEF Record
<1>5. StorageTypes'
  <2>1. file' \in [Kinds -> Seq(Pipelines)]
    BY <1>2, <1>4
  <2> QED BY <1>1, <1>2, <2>1 DEF FileInv, StorageTypes
<1>6. ClosedIsQuiet' /\ HoldsWhileWriting'
  BY <1>1, <1>2, <1>3 DEF ClosedIsQuiet, HoldsWhileWriting
<1>7. StoredInOrder'
  <2> SUFFICES ASSUME NEW k \in Kinds
               PROVE  (file'[k] \o Record(writing'[k])) \o write_queue'[k]
                        = requested'[k]
    BY <1>1, <1>3 DEF StoredInOrder
  <2>1. (file[k] \o Record(writing[k])) \o write_queue[k] = requested[k]
    BY <1>3 DEF FileInv, StoredInOrder
  <2>2. file'[k] \o <<>> = file'[k]
    BY <1>4, ConcatEmptySeq
  <2>3. file'[k] \o Record(writing'[k]) = file[k] \o Record(writing[k])
    BY <1>4, <2>2
  <2> QED BY <1>1, <2>1, <2>3
<1> QED BY <1>5, <1>6, <1>7 DEF FileInv

LEMMA WriterKeepsFiles ==
  ASSUME FileInv, StorageWriteThread
  PROVE  FileInv'
BY FlushKeepsFiles, TakeRecordsKeepsFiles, WriteKeepsFiles
   DEF StorageWriteThread

(***************************************************************************)
(* The CP's steps that open and close the storage and ask for flushes.     *)
(***************************************************************************)
LEMMA AskingKeepsFiles ==
  ASSUME FileInv, EndSubmission \/ StopWriter
  PROVE  FileInv'
<1>1. /\ storage_open' = storage_open /\ write_queue' = write_queue
      /\ spc' = spc /\ writing' = writing /\ flushing' = flushing
      /\ file' = file /\ requested' = requested
  BY DEF EndSubmission, StopWriter, writerVars
<1>2. /\ storage_write_thread_shutdown' \in BOOLEAN
      /\ flush_requested' \in [Kinds -> BOOLEAN]
      /\ flush_needed' \in [Kinds -> BOOLEAN]
  <2>1. CASE EndSubmission
    <3>1. \A k \in Kinds : (flush_requested[k] \/ flush_needed[k]) \in BOOLEAN
      OBVIOUS
    <3> QED BY <2>1, <3>1 DEF EndSubmission, FileInv, StorageTypes
  <2>2. CASE StopWriter
    BY <2>2 DEF StopWriter, FileInv, StorageTypes
  <2> QED BY <2>1, <2>2
<1>3. StorageTypes'
  BY <1>1, <1>2 DEF FileInv, StorageTypes
<1>4. ClosedIsQuiet' /\ HoldsWhileWriting' /\ StoredInOrder'
  BY <1>1 DEF FileInv, ClosedIsQuiet, HoldsWhileWriting, StoredInOrder
<1> QED BY <1>3, <1>4 DEF FileInv

LEMMA ConcatIsPrefix ==
  ASSUME NEW r \in Seq(Pipelines), NEW s \in Seq(Pipelines)
  PROVE  IsPrefix(r, r \o s)
<1>1. /\ r \o s \in Seq(Pipelines)
      /\ Len(r \o s) = Len(r) + Len(s)
      /\ \A i \in 1 .. Len(r) + Len(s) :
           (r \o s)[i] = IF i <= Len(r) THEN r[i] ELSE s[i - Len(r)]
  BY ConcatProperties
<1>2. Len(r) \in Nat /\ Len(s) \in Nat
  OBVIOUS
<1>3. SubSeq(r, 1, Len(r)) = SubSeq(r \o s, 1, Len(r))
  <2>1. CASE Len(r) = 0
    BY <2>1, <1>1, <1>2
  <2>2. CASE Len(r) # 0
    <3>1. 1 \in 1 .. Len(r) /\ Len(r) \in 1 .. Len(r)
      BY <1>2, <2>2
    <3> QED BY <3>1, SubSeqOfConcat1
  <2> QED BY <2>1, <2>2
<1> QED BY <1>1, <1>2, <1>3 DEF IsPrefix

(* Only what the writer has not written yet is dropped: the end.           *)
LEMMA CloseKeepsFiles ==
  ASSUME FileInv, CloseStorage
  PROVE  FileInv'
<1>1. /\ storage_open' = FALSE /\ spc = "ended"
      /\ write_queue' = [k \in Kinds |-> <<>>]
      /\ flush_needed' = [k \in Kinds |-> FALSE]
      /\ flush_requested' = flush_requested
      /\ storage_write_thread_shutdown' = storage_write_thread_shutdown
      /\ spc' = spc /\ writing' = writing /\ flushing' = flushing
      /\ file' = file /\ requested' = requested
  BY DEF CloseStorage, writerVars, WriterJoined
<1>2. <<>> \in Seq(Pipelines)
  OBVIOUS
<1>3. StorageTypes'
  BY <1>1, <1>2 DEF FileInv, StorageTypes
<1>4. ClosedIsQuiet' /\ HoldsWhileWriting'
  BY <1>1 DEF FileInv, ClosedIsQuiet, HoldsWhileWriting
<1>5. ASSUME NEW k \in Kinds PROVE IsPrefix(file[k], requested[k])
  <2>1. CASE storage_open
    <3>1. file[k] \in Seq(Pipelines) /\ write_queue[k] \in Seq(Pipelines)
      BY DEF FileInv, StorageTypes
    <3>2. (file[k] \o Record(writing[k])) \o write_queue[k] = requested[k]
      BY <2>1 DEF FileInv, StoredInOrder
    <3>3. Record(writing[k]) = <<>>
      BY <1>1 DEF FileInv, HoldsWhileWriting, Record
    <3>4. file[k] \o <<>> = file[k]
      BY <3>1, ConcatEmptySeq
    <3> QED BY <3>1, <3>2, <3>3, <3>4, ConcatIsPrefix
  <2>2. CASE ~storage_open
    BY <2>2 DEF FileInv, StoredInOrder
  <2> QED BY <2>1, <2>2
<1>6. StoredInOrder'
  BY <1>1, <1>5 DEF StoredInOrder
<1> QED BY <1>3, <1>4, <1>6 DEF FileInv

(* The files begin empty, with nothing queued and nobody writing.          *)
LEMMA OpenKeepsFiles ==
  ASSUME FileInv, OpenFollows, OpenStorage
  PROVE  FileInv'
<1>1. /\ cpc = "open" /\ storage_open' = TRUE
      /\ file' = [k \in Kinds |-> <<>>]
      /\ requested' = [k \in Kinds |-> <<>>]
      /\ write_queue' = write_queue
      /\ flush_needed' = flush_needed /\ flush_requested' = flush_requested
      /\ storage_write_thread_shutdown' = storage_write_thread_shutdown
      /\ spc' = spc /\ writing' = writing /\ flushing' = flushing
  BY DEF OpenStorage
<1>2. ~storage_open
  BY <1>1 DEF OpenFollows
<1>3. <<>> \in Seq(Pipelines) /\ <<>> \o <<>> = <<>>
  OBVIOUS
<1>4. StorageTypes'
  BY <1>1, <1>3 DEF FileInv, StorageTypes
<1>5. ClosedIsQuiet' /\ HoldsWhileWriting'
  BY <1>1 DEF FileInv, ClosedIsQuiet, HoldsWhileWriting
<1>6. \A k \in Kinds : Record(writing[k]) = <<>> /\ write_queue[k] = <<>>
  BY <1>2 DEF FileInv, ClosedIsQuiet, HoldsWhileWriting, Record
<1>7. StoredInOrder'
  BY <1>1, <1>3, <1>6 DEF StoredInOrder
<1> QED BY <1>4, <1>5, <1>7 DEF FileInv

LEMMA StartKeepsFiles ==
  ASSUME FileInv, OpenFollows, WriterFollows, StartWriter
  PROVE  FileInv'
<1>1. /\ cpc = "start_writer"
      /\ storage_open' = storage_open /\ write_queue' = write_queue
      /\ flush_needed' = flush_needed
      /\ flush_requested' = [k \in Kinds |-> FALSE]
      /\ storage_write_thread_shutdown' = FALSE /\ spc' = "loop"
      /\ writing' = writing /\ flushing' = flushing
      /\ file' = file /\ requested' = requested
  BY DEF StartWriter, GoTo, writerVars
<1>2. storage_open
  BY <1>1 DEF OpenFollows, Opening
<1>3. \A k \in Kinds : writing[k] = NoPipeline
  BY <1>1 DEF WriterFollows, Opening, FileInv, HoldsWhileWriting
<1>4. StorageTypes' /\ ClosedIsQuiet'
  BY <1>1, <1>2 DEF FileInv, StorageTypes, ClosedIsQuiet
<1>5. HoldsWhileWriting' /\ StoredInOrder'
  BY <1>1, <1>2, <1>3 DEF FileInv, HoldsWhileWriting, StoredInOrder
<1> QED BY <1>4, <1>5 DEF FileInv

LEMMA NextKeepsFiles ==
  ASSUME IInv, FileInv, CallInv, [Next]_vars
  PROVE  FileInv'
<1>0. OpenFollows /\ WriterFollows
  BY DEF CallInv
<1>1. CASE UNCHANGED storageVars
  BY <1>1, FilesStay
<1>2. CASE NotifyWriter
  BY <1>2, NotifyKeepsFiles
<1>3. CASE StorageWriteThread
  BY <1>3, WriterKeepsFiles
<1>4. CASE EndSubmission \/ StopWriter
  BY <1>4, AskingKeepsFiles
<1>5. CASE CloseStorage
  BY <1>5, CloseKeepsFiles
<1>6. CASE OpenStorage
  BY <1>0, <1>6, OpenKeepsFiles
<1>7. CASE StartWriter
  BY <1>0, <1>7, StartKeepsFiles
<1>8. CASE ConfigureNew
  <2>1. PICK p \in Pipelines, translates \in BOOLEAN :
          IF translates /\ storage_open
          THEN Enqueue("shader", p) ELSE UNCHANGED storageVars
    BY <1>8 DEF ConfigureNew
  <2>2. CASE translates /\ storage_open
    BY <2>1, <2>2, EnqueueKeepsFiles DEF Kinds
  <2> QED BY <1>1, <2>1, <2>2
<1>9. CASE StoreDescription
  <2>1. cp_taken \in Pipelines
    BY <1>9 DEF StoreDescription, GoTo, IInv, CpOwns, AfterEntry
  <2>2. IF storage_open THEN Enqueue("pipeline", cp_taken)
        ELSE UNCHANGED storageVars
    BY <1>9 DEF StoreDescription
  <2>3. CASE storage_open
    BY <2>1, <2>2, <2>3, EnqueueKeepsFiles DEF Kinds
  <2> QED BY <1>1, <2>2, <2>3
<1>10. CASE CpCall
  <2>1. CASE ConfigureFound \/ ReplayNativeDrawBoundary
             \/ InitializeShaderStorage \/ Shutdown
    <3>1. UNCHANGED storageVars
      BY <2>1 DEF ConfigureFound, ReplayNativeDrawBoundary,
                  InitializeShaderStorage, Shutdown
    <3> QED BY <1>1, <3>1
  <2> QED BY <1>4, <1>8, <1>10, <2>1 DEF CpCall
<1>11. CASE CpContinue
  <2>1. CASE ShaderQueued \/ DescriptionQueued \/ NotifyFlush \/ NotifyStop
    <3>1. NotifyWriter
      BY <2>1 DEF ShaderQueued, DescriptionQueued, NotifyFlush, NotifyStop
    <3> QED BY <1>2, <3>1
  <2>2. CASE \/ QueueCreation \/ CreateAtOnce \/ CreationQueued
             \/ ResolvePipelineHandles \/ DrainTake \/ DrainCreate
             \/ NothingToAwait \/ Await \/ AwaitNotify \/ AwaitReturn
    <3>1. UNCHANGED storageVars
      BY <2>2 DEF QueueCreation, CreateAtOnce, CreationQueued,
                  ResolvePipelineHandles, DrainTake, DrainCreate,
                  NothingToAwait, Await, AwaitNotify, AwaitReturn
    <3> QED BY <1>1, <3>1
  <2>3. CASE \/ OpenStorageFails \/ PreloadQueue \/ PreloadNotify
             \/ PreloadAll \/ Drained \/ Opened
             \/ NotifyThreads \/ JoinThreads \/ DeletePipelines
    <3>1. UNCHANGED storageVars
      BY <2>3 DEF OpenStorageFails, PreloadQueue, PreloadNotify, PreloadAll,
                  Drained, Opened, ReturnFromOpen, NotifyThreads,
                  JoinThreads, DeletePipelines
    <3> QED BY <1>1, <3>1
  <2> QED BY <1>4, <1>5, <1>6, <1>7, <1>9, <1>11, <2>1, <2>2, <2>3
          DEF CpContinue
<1>12. ASSUME NEW t \in Threads, CreationThread(t) PROVE FileInv'
  BY <1>1, <1>12 DEF CreationThread
<1>13. CASE SpuriousWake
  BY <1>1, <1>2, <1>13 DEF SpuriousWake
<1>14. CASE UNCHANGED vars
  BY <1>1, <1>14 DEF vars
<1> QED BY <1>3, <1>10, <1>11, <1>12, <1>13, <1>14 DEF Next

(***************************************************************************)
(* The CP's place in its call.                                             *)
(***************************************************************************)
EventTypes ==
  /\ creation_completion_set_event \in BOOLEAN
  /\ creation_completion_event \in BOOLEAN
  /\ creation_threads_shutdown_from \in {0, Never}

(* A step that neither opens nor closes the storage nor starts the writer. *)
Aside ==
  /\ storage_open' = storage_open
  /\ spc = "ended" => spc' = "ended"
  /\ EventTypes'

LEMMA StorageAside ==
  ASSUME StorageWriteThread \/ NotifyWriter \/ UNCHANGED storageVars
         \/ EndSubmission \/ StopWriter
         \/ (\E k \in Kinds, p \in Pipelines : Enqueue(k, p))
  PROVE  storage_open' = storage_open /\ (spc = "ended" => spc' = "ended")
<1>1. CASE StorageWriteThread
  <2>1. storage_open' = storage_open
    BY <1>1 DEF StorageWriteThread
  <2>2. spc # "ended"
    BY <1>1 DEF StorageWriteThread, Flush, StopWriting, TakeRecords, Write
  <2> QED BY <2>1, <2>2
<1>2. CASE NotifyWriter
  BY <1>2 DEF NotifyWriter, requestVars
<1>3. CASE UNCHANGED storageVars
  BY <1>3 DEF storageVars, requestVars
<1>4. CASE EndSubmission \/ StopWriter
  BY <1>4 DEF EndSubmission, StopWriter
<1>5. CASE \E k \in Kinds, p \in Pipelines : Enqueue(k, p)
  BY <1>5 DEF Enqueue
<1> QED BY <1>1, <1>2, <1>3, <1>4, <1>5

LEMMA EventsAside ==
  ASSUME CallInv, UNCHANGED creationVars \/ NotifyOneThread \/ NotifyAllThreads
                  \/ (\E t \in Threads : CreationThread(t))
  PROVE  EventTypes'
<1> USE DEF CallInv, ControlTypes, EventTypes, eventVars, countVars
<1>1. CASE UNCHANGED creationVars
  BY <1>1 DEF creationVars
<1>2. CASE NotifyOneThread \/ NotifyAllThreads
  BY <1>2 DEF NotifyOneThread, NotifyAllThreads
<1>3. CASE \E t \in Threads : CreationThread(t)
  BY <1>3 DEF CreationThread, Sleep, Take, Create, Finish
<1> QED BY <1>1, <1>2, <1>3

LEMMA CallStays ==
  ASSUME CallInv, Aside, UNCHANGED cpVars
  PROVE  CallInv'
BY DEF CallInv, Aside, cpVars, callVars, ControlTypes, EventTypes,
       OpenFollows, WriterFollows

LEMMA ConfigureKeepsCall ==
  ASSUME CallInv,
         \/ ConfigureFound \/ ConfigureNew \/ ShaderQueued \/ QueueCreation
         \/ CreateAtOnce \/ CreationQueued \/ StoreDescription
         \/ DescriptionQueued
  PROVE  CallInv'
<1>1. Aside
  <2>1. CASE ConfigureFound \/ ShaderQueued \/ CreationQueued
             \/ DescriptionQueued
    BY <2>1, StorageAside, EventsAside
       DEF Aside, ConfigureFound, ShaderQueued, CreationQueued,
           DescriptionQueued
  <2>2. CASE QueueCreation \/ CreateAtOnce
    <3>1. UNCHANGED storageVars /\ EventTypes'
      BY <2>2 DEF QueueCreation, CreateAtOnce, CallInv, ControlTypes,
                  EventTypes, eventVars, countVars
    <3> QED BY <3>1, StorageAside DEF Aside
  <2>3. CASE ConfigureNew
    <3>1. /\ UNCHANGED creationVars
          /\ \/ UNCHANGED storageVars
             \/ \E k \in Kinds, p \in Pipelines : Enqueue(k, p)
      BY <2>3 DEF ConfigureNew, Kinds
    <3> QED BY <3>1, StorageAside, EventsAside DEF Aside
  <2>4. CASE StoreDescription
    <3>1. /\ UNCHANGED creationVars
          /\ storage_open' = storage_open /\ (spc = "ended" => spc' = "ended")
      BY <2>4, StorageAside DEF StoreDescription, Enqueue
    <3> QED BY <3>1, EventsAside DEF Aside
  <2> QED BY <2>1, <2>2, <2>3, <2>4
<1>2. /\ cp_call' = cp_call /\ opens' = opens
      /\ cpc' \in {"idle", "shader_queued", "translated", "creation_queued",
                   "configured", "described"}
  BY DEF ConfigureFound, ConfigureNew, ShaderQueued, QueueCreation,
         CreateAtOnce, CreationQueued, StoreDescription, DescriptionQueued,
         GoTo, callVars, CallInv
<1> QED BY <1>1, <1>2 DEF CallInv, Aside, EventTypes, ControlTypes,
           OpenFollows, WriterFollows, Opening

LEMMA SubmissionKeepsCall ==
  ASSUME CallInv,
         \/ ReplayNativeDrawBoundary \/ ResolvePipelineHandles
         \/ EndSubmission \/ NotifyFlush \/ DrainTake \/ DrainCreate
         \/ NothingToAwait \/ Await \/ AwaitNotify \/ AwaitReturn
  PROVE  CallInv'
<1>1. Aside
  <2>1. CASE ReplayNativeDrawBoundary \/ ResolvePipelineHandles
             \/ EndSubmission \/ NotifyFlush \/ NothingToAwait
             \/ AwaitNotify \/ AwaitReturn
    <3>1. UNCHANGED creationVars \/ NotifyOneThread
      BY <2>1 DEF ReplayNativeDrawBoundary, ResolvePipelineHandles,
                  EndSubmission, NotifyFlush, NothingToAwait, AwaitNotify,
                  AwaitReturn
    <3>2. NotifyWriter \/ UNCHANGED storageVars \/ EndSubmission
      BY <2>1 DEF ReplayNativeDrawBoundary, ResolvePipelineHandles,
                  NotifyFlush, NothingToAwait, AwaitNotify, AwaitReturn
    <3> QED BY <3>1, <3>2, StorageAside, EventsAside DEF Aside
  <2>2. CASE DrainTake \/ DrainCreate \/ Await
    <3>1. UNCHANGED storageVars /\ EventTypes'
      BY <2>2 DEF DrainTake, DrainCreate, Await, CallInv, ControlTypes,
                  EventTypes, eventVars, countVars
    <3> QED BY <3>1, StorageAside DEF Aside
  <2> QED BY <2>1, <2>2
<1>2. CASE ReplayNativeDrawBoundary \/ ResolvePipelineHandles
           \/ NothingToAwait \/ Await \/ AwaitNotify \/ AwaitReturn
  <2>1. /\ cp_call' \in {cp_call, "none"} /\ opens' = opens
        /\ cpc' \in {"idle", "resolve", "await_notify", "await"}
    BY <1>2 DEF ReplayNativeDrawBoundary, ResolvePipelineHandles,
                NothingToAwait, Await, AwaitNotify, AwaitReturn, GoTo,
                callVars
  <2> QED BY <1>1, <2>1 DEF CallInv, Aside, EventTypes, ControlTypes,
             OpenFollows, WriterFollows, Opening
<1>3. CASE EndSubmission
  <2>1. /\ cp_call' = "submission" /\ opens' = opens
        /\ cpc' \in {"flush", "drain"}
    BY <1>3 DEF EndSubmission, GoTo
  <2> QED BY <1>1, <2>1 DEF CallInv, Aside, EventTypes, ControlTypes,
             OpenFollows, WriterFollows, Opening
<1>4. CASE NotifyFlush
  <2>1. cpc = "flush" /\ cpc' = "drain" /\ cp_call' = cp_call /\ opens' = opens
    BY <1>4 DEF NotifyFlush, GoTo, callVars
  <2> QED BY <1>1, <2>1 DEF CallInv, Aside, EventTypes, ControlTypes,
             OpenFollows, WriterFollows, Opening
<1>5. CASE DrainTake \/ DrainCreate
  <2>1. /\ cpc \in {"drain", "create"} /\ cpc' \in {"drain", "create"}
        /\ cp_call' = cp_call /\ opens' = opens
    BY <1>5 DEF DrainTake, DrainCreate, GoTo
  <2> QED BY <1>1, <2>1 DEF CallInv, Aside, EventTypes, ControlTypes,
             OpenFollows, WriterFollows, Opening
<1> QED BY <1>2, <1>3, <1>4, <1>5

LEMMA StorageKeepsCall ==
  ASSUME CallInv, FileInv,
         \/ StopWriter \/ NotifyStop \/ CloseStorage
         \/ InitializeShaderStorage \/ OpenStorage \/ OpenStorageFails
         \/ PreloadQueue \/ PreloadNotify \/ PreloadAll \/ Drained
         \/ StartWriter \/ Opened
  PROVE  CallInv'
<1>1. EventTypes'
  <2>1. CASE PreloadQueue
    BY <2>1 DEF PreloadQueue, CallInv, ControlTypes, EventTypes, eventVars,
                countVars
  <2>2. CASE ~PreloadQueue
    <3>1. UNCHANGED creationVars \/ NotifyOneThread
      BY <2>2 DEF StopWriter, NotifyStop, CloseStorage,
                  InitializeShaderStorage, OpenStorage, OpenStorageFails,
                  PreloadNotify, PreloadAll, Drained, StartWriter, Opened,
                  ReturnFromOpen
    <3> QED BY <3>1, EventsAside
  <2> QED BY <2>1, <2>2
<1> USE <1>1 DEF CallInv, EventTypes, ControlTypes, OpenFollows,
                 WriterFollows, Opening, GoTo, callVars
<1>2. CASE \/ StopWriter \/ NotifyStop \/ InitializeShaderStorage
           \/ OpenStorageFails \/ PreloadQueue \/ PreloadNotify
           \/ PreloadAll \/ Drained \/ Opened
  <2>1. storage_open' = storage_open /\ (spc = "ended" => spc' = "ended")
    <3>1. NotifyWriter \/ UNCHANGED storageVars \/ StopWriter
      BY <1>2 DEF NotifyStop, InitializeShaderStorage, OpenStorageFails,
                  PreloadQueue, PreloadNotify, PreloadAll, Drained, Opened,
                  ReturnFromOpen
    <3> QED BY <3>1, StorageAside
  <2>2. CASE StopWriter \/ NotifyStop \/ PreloadQueue
             \/ PreloadNotify \/ PreloadAll \/ Drained
    BY <2>1, <2>2 DEF StopWriter, NotifyStop, PreloadQueue, PreloadNotify,
                      PreloadAll, Drained
  <2>3. CASE OpenStorageFails \/ Opened
    BY <2>1, <2>3 DEF OpenStorageFails, Opened, ReturnFromOpen
  <2>4. CASE InitializeShaderStorage
    <3>1. opens' \in 0 .. MaxOpens
      BY <2>4, PipelineCacheAssumption DEF InitializeShaderStorage
    <3> QED BY <2>1, <2>4, <3>1 DEF InitializeShaderStorage, FileInv,
               StorageTypes
  <2> QED BY <1>2, <2>2, <2>3, <2>4
<1>3. CASE CloseStorage
  BY <1>3 DEF CloseStorage
<1>4. CASE OpenStorage
  <2>1. spc = "ended"
    BY <1>4 DEF OpenStorage, FileInv, ClosedIsQuiet
  <2> QED BY <1>4, <2>1 DEF OpenStorage
<1>5. CASE StartWriter
  BY <1>5 DEF StartWriter
<1> QED BY <1>2, <1>3, <1>4, <1>5

LEMMA ShutdownKeepsCall ==
  ASSUME CallInv,
         Shutdown \/ NotifyThreads \/ JoinThreads \/ DeletePipelines
  PROVE  CallInv'
<1>1. Aside
  <2>1. UNCHANGED storageVars
    BY DEF Shutdown, NotifyThreads, JoinThreads, DeletePipelines
  <2>2. EventTypes'
    <3>1. CASE NotifyThreads \/ JoinThreads
      BY <3>1, EventsAside DEF NotifyThreads, JoinThreads
    <3>2. CASE Shutdown \/ DeletePipelines
      BY <3>2 DEF Shutdown, DeletePipelines, CallInv, ControlTypes,
                  EventTypes, eventVars, countVars
    <3> QED BY <3>1, <3>2
  <2> QED BY <2>1, <2>2, StorageAside DEF Aside
<1>2. /\ cp_call' \in {cp_call, "shutdown"} /\ opens' = opens
      /\ cpc' \in {"notify_threads", "join_threads", "stop_writer", "delete",
                   "ended"}
  BY DEF Shutdown, NotifyThreads, JoinThreads, DeletePipelines, GoTo,
         callVars
<1> QED BY <1>1, <1>2 DEF CallInv, Aside, EventTypes, ControlTypes,
           OpenFollows, WriterFollows, Opening

LEMMA NextKeepsCall ==
  ASSUME CallInv, FileInv, [Next]_vars
  PROVE  CallInv'
<1>1. CASE CpCall
  BY <1>1, ConfigureKeepsCall, SubmissionKeepsCall, StorageKeepsCall,
     ShutdownKeepsCall DEF CpCall
<1>2. CASE CpContinue
  BY <1>2, ConfigureKeepsCall, SubmissionKeepsCall, StorageKeepsCall,
     ShutdownKeepsCall DEF CpContinue
<1>3. ASSUME NEW t \in Threads, CreationThread(t) PROVE CallInv'
  <2>1. UNCHANGED storageVars /\ UNCHANGED cpVars
    BY <1>3 DEF CreationThread
  <2> QED BY <1>3, <2>1, StorageAside, EventsAside, CallStays DEF Aside
<1>4. CASE StorageWriteThread
  <2>1. UNCHANGED creationVars /\ UNCHANGED cpVars
    BY <1>4 DEF StorageWriteThread
  <2> QED BY <1>4, <2>1, StorageAside, EventsAside, CallStays DEF Aside
<1>5. CASE SpuriousWake
  <2>1. /\ UNCHANGED storageVars \/ NotifyWriter
        /\ UNCHANGED creationVars \/ NotifyOneThread
        /\ UNCHANGED cpVars
    BY <1>5 DEF SpuriousWake
  <2> QED BY <2>1, StorageAside, EventsAside, CallStays DEF Aside
<1>6. CASE UNCHANGED vars
  <2>1. UNCHANGED storageVars /\ UNCHANGED creationVars /\ UNCHANGED cpVars
    BY <1>6 DEF vars
  <2> QED BY <2>1, StorageAside, EventsAside, CallStays DEF Aside
<1> QED BY <1>1, <1>2, <1>3, <1>4, <1>5, <1>6 DEF Next

(***************************************************************************)
(* Both invariants together.                                               *)
(***************************************************************************)
WholeInv == IInv /\ FileInv /\ CallInv

LEMMA StorageInvariance == Spec => []WholeInv
<1>1. Init => WholeInv
  BY InitEstablishes, InitFiles DEF WholeInv
<1>2. WholeInv /\ [Next]_vars => WholeInv'
  BY NextKeeps, NextKeepsFiles, NextKeepsCall DEF WholeInv
<1> QED BY <1>1, <1>2, PTL DEF Spec

(* Each thread is counted busy at most once.                               *)
LEMMA BusyIsBounded ==
  ASSUME BusyIsCount
  PROVE  creation_threads_busy \in 0 .. NumThreads
<1>1. NumThreads \in Nat \ {0}
  BY PipelineCacheAssumption
<1>2. Cardinality(Threads) = NumThreads
  BY <1>1, FS_Interval DEF Threads
<1>3. Busy \subseteq Threads
  BY DEF Busy
<1>4. Cardinality(Busy) <= Cardinality(Threads)
  BY <1>3, ThreadsFinite, FS_Subset
<1>5. Cardinality(Busy) \in Nat
  BY BusyFinite, FS_CardinalityType
<1> QED BY <1>1, <1>2, <1>4, <1>5 DEF BusyIsCount

LEMMA StorageIsSafe ==
  ASSUME WholeInv
  PROVE  StorageInv
<1>1. TypeOK
  <2>1. creation_threads_busy \in 0 .. NumThreads
    BY BusyIsBounded DEF WholeInv, IInv
  <2> QED BY <2>1 DEF WholeInv, IInv, Types, FileInv, StorageTypes, CallInv,
             ControlTypes, TypeOK
<1>2. StoredInOrder
  BY DEF WholeInv, FileInv
<1>3. TeardownIsQuiet
  <2>1. ~storage_open => spc = "ended"
    BY DEF WholeInv, FileInv, ClosedIsQuiet
  <2>2. ASSUME cpc \in {"delete", "ended"}, NEW t \in Threads
        PROVE  tpc[t] = "ended" /\ taken[t] = NoPipeline
    BY <2>2 DEF WholeInv, IInv, JoinedStaysEnded, ThreadOwns
  <2> QED BY <2>1, <2>2 DEF TeardownIsQuiet
<1> QED BY <1>1, <1>2, <1>3 DEF StorageInv

(* The writer thread puts every queued shader and description into its     *)
(* file once and in the order they were queued, however its turns and its  *)
(* restarts interleave with the CP; it never outlives the open files, and  *)
(* no creation thread outlives the pipelines.                              *)
THEOREM StorageInvAlways == Spec => []StorageInv
BY StorageInvariance, StorageIsSafe, PTL

===============================================================================
