--------------------------- MODULE PipelineCache ----------------------------
(***************************************************************************)
(* The threads of the Direct3D 12 pipeline cache (pipeline_cache.cpp).     *)
(*                                                                         *)
(* The command processor thread (CP) finds or makes the pipeline of every  *)
(* draw.  A new one is either created at once or queued for the creation   *)
(* threads, and its handle is recorded in the deferred command list        *)
(* without waiting.  Before the list is replayed, a handle is resolved to  *)
(* the pipeline state object, or to null when its creation has failed; so  *)
(* nothing may be resolved that is still to be created.  New shaders and   *)
(* pipeline descriptions are also handed to a thread that appends them to  *)
(* two files, from which the next run creates its pipelines in advance.    *)
(*                                                                         *)
(* A mutex section is one action; a condition variable is the set of its   *)
(* waiters; notifications come after the lock is released, as in the code. *)
(* What a pipeline is, and the priority by which the queue is ordered, are *)
(* abstracted: any queued pipeline may be the queue's top.                 *)
(***************************************************************************)
EXTENDS Naturals, Sequences, SequencesExt, FiniteSets

CONSTANTS
  Pipelines,    (* pipeline descriptions, each with the shaders it needs   *)
  NoPipeline,
  NumThreads,   (* creation_threads_.size(); 0 would leave no concurrency  *)
  MaxOpens      (* bound: calls to InitializeShaderStorage                 *)

ASSUME PipelineCacheAssumption ==
  /\ IsFiniteSet(Pipelines)
  /\ NoPipeline \notin Pipelines
  /\ NumThreads \in Nat \ {0}
  /\ MaxOpens \in Nat

Threads == 0 .. NumThreads - 1

(* SIZE_MAX: no thread has this index or a higher one.                     *)
Never == NumThreads

(* The two storage files and the queues before them.                       *)
Kinds == {"shader", "pipeline"}

VARIABLES
  pipe,              (* of each description: its entry in pipelines_       *)
  creation_queue,
  creation_threads_busy,
  creation_completion_set_event,
  creation_completion_event,
  creation_threads_shutdown_from,
  tpc, taken,        (* creation threads, and what each of them creates    *)
  storage_open,      (* the two storage files are open                     *)
  write_queue,
  flush_needed,      (* CP: something was queued since the last flush      *)
  flush_requested,
  storage_write_thread_shutdown,
  spc, writing, flushing,      (* StorageWriteThread and its locals        *)
  file,              (* records appended since the storage was opened      *)
  requested,         (* history: records queued since it was opened        *)
  cpc, cp_call, cp_taken,      (* the CP thread inside the cache           *)
  recorded,          (* handles in the deferred command list               *)
  opens

eventVars == <<creation_completion_set_event, creation_completion_event>>
countVars == <<creation_threads_busy, creation_threads_shutdown_from, taken>>
creationVars == <<pipe, creation_queue, eventVars, countVars, tpc>>
requestVars == <<storage_open, write_queue, flush_needed, flush_requested,
                 storage_write_thread_shutdown, requested>>
writerVars == <<writing, flushing, file>>
storageVars == <<requestVars, writerVars, spc>>
callVars == <<cp_call, cp_taken, recorded, opens>>
cpVars == <<cpc, callVars>>

vars == <<creationVars, storageVars, cpVars>>

Init ==
  /\ pipe = [p \in Pipelines |-> "absent"]
  /\ creation_queue = {}
  /\ creation_threads_busy = 0
  /\ creation_completion_set_event = FALSE
  /\ creation_completion_event = TRUE
  /\ creation_threads_shutdown_from = Never
  /\ tpc = [t \in Threads |-> "loop"]
  /\ taken = [t \in Threads |-> NoPipeline]
  /\ storage_open = FALSE
  /\ write_queue = [k \in Kinds |-> <<>>]
  /\ flush_needed = [k \in Kinds |-> FALSE]
  /\ flush_requested = [k \in Kinds |-> FALSE]
  /\ storage_write_thread_shutdown = FALSE
  /\ spc = "ended"
  /\ writing = [k \in Kinds |-> NoPipeline]
  /\ flushing = [k \in Kinds |-> FALSE]
  /\ file = [k \in Kinds |-> <<>>]
  /\ requested = [k \in Kinds |-> <<>>]
  /\ cpc = "idle"
  /\ cp_call = "none"
  /\ cp_taken = NoPipeline
  /\ recorded = {}
  /\ opens = 0

(***************************************************************************)
(* Condition variables: notify_one frees one waiter, if there is one.      *)
(***************************************************************************)
Waiting == {t \in Threads : tpc[t] = "waiting"}

(* Mutant of NotifyOneThread: the wake-up is lost. *)
NotifyNoThread == UNCHANGED creationVars

NotifyOneThread ==
  /\ IF Waiting = {} THEN UNCHANGED tpc
     ELSE \E t \in Waiting : tpc' = [tpc EXCEPT ![t] = "loop"]
  /\ UNCHANGED <<pipe, creation_queue, eventVars, countVars>>

NotifyAllThreads ==
  /\ tpc' = [t \in Threads |-> IF t \in Waiting THEN "loop" ELSE tpc[t]]
  /\ UNCHANGED <<pipe, creation_queue, eventVars, countVars>>

NotifyWriter ==
  /\ spc' = IF spc = "waiting" THEN "loop" ELSE spc
  /\ UNCHANGED <<requestVars, writerVars>>

(* A condition variable may also wake without having been notified.        *)
SpuriousWake ==
  /\ \/ Waiting # {} /\ NotifyOneThread /\ UNCHANGED storageVars
     \/ spc = "waiting" /\ NotifyWriter /\ UNCHANGED creationVars
  /\ UNCHANGED cpVars

(***************************************************************************)
(* CreationThread: its loop under creation_request_lock_ (sleep or take),  *)
(* the creation outside it, and the lock again to be no longer busy.       *)
(***************************************************************************)
StopsNow(t) == t >= creation_threads_shutdown_from

(* The last pipeline of the queue has been created and the CP awaits it.   *)
CompletionIsDue ==
  creation_completion_set_event /\ creation_threads_busy = 0

Sleep(t) ==
  /\ tpc[t] = "loop"
  /\ StopsNow(t) \/ creation_queue = {}
  /\ creation_completion_set_event' =
       (creation_completion_set_event /\ ~CompletionIsDue)
  /\ creation_completion_event' =
       (creation_completion_event \/ CompletionIsDue)
  /\ tpc' = [tpc EXCEPT ![t] = IF StopsNow(t) THEN "ended" ELSE "waiting"]
  /\ UNCHANGED <<pipe, creation_queue, countVars>>

(* Mutant of Take: the pipeline stays in the queue. *)
TakeAndLeaveQueued(t) ==
  /\ tpc[t] = "loop"
  /\ ~StopsNow(t)
  /\ \E p \in creation_queue : taken' = [taken EXCEPT ![t] = p]
  /\ creation_threads_busy' = creation_threads_busy + 1
  /\ tpc' = [tpc EXCEPT ![t] = "create"]
  /\ UNCHANGED <<pipe, creation_queue, eventVars,
                 creation_threads_shutdown_from>>

Take(t) ==
  /\ tpc[t] = "loop"
  /\ ~StopsNow(t)
  /\ \E p \in creation_queue : /\ creation_queue' = creation_queue \ {p}
                               /\ taken' = [taken EXCEPT ![t] = p]
  /\ creation_threads_busy' = creation_threads_busy + 1
  /\ tpc' = [tpc EXCEPT ![t] = "create"]
  /\ UNCHANGED <<pipe, eventVars, creation_threads_shutdown_from>>

(* Creation may fail, in PrepareRuntimeDescriptionForQueuedCreation (whose *)
(* translations the CP has already made) or in CreateD3D12Pipeline: the    *)
(* state stays null, and the pipeline is settled all the same.             *)
Create(t) ==
  /\ tpc[t] = "create"
  /\ pipe' = [pipe EXCEPT ![taken[t]] = "settled"]
  /\ taken' = [taken EXCEPT ![t] = NoPipeline]
  /\ tpc' = [tpc EXCEPT ![t] = "created"]
  /\ UNCHANGED <<creation_queue, eventVars, creation_threads_busy,
                 creation_threads_shutdown_from>>

(* Mutant of Finish: the thread sleeps at once, without looking at the     *)
(* queue and the await again.                                              *)
FinishAndWait(t) ==
  /\ tpc[t] = "created"
  /\ creation_threads_busy' = creation_threads_busy - 1
  /\ tpc' = [tpc EXCEPT ![t] = "waiting"]
  /\ UNCHANGED <<pipe, creation_queue, eventVars,
                 creation_threads_shutdown_from, taken>>

Finish(t) ==
  /\ tpc[t] = "created"
  /\ creation_threads_busy' = creation_threads_busy - 1
  /\ tpc' = [tpc EXCEPT ![t] = "loop"]
  /\ UNCHANGED <<pipe, creation_queue, eventVars,
                 creation_threads_shutdown_from, taken>>

CreationThread(t) ==
  /\ Sleep(t) \/ Take(t) \/ Create(t) \/ Finish(t)
  /\ UNCHANGED <<storageVars, cpVars>>

(***************************************************************************)
(* StorageWriteThread.  One turn takes at most one record of each kind; a  *)
(* kind with an empty queue has its flush done instead, at the start of    *)
(* the next turn, which a turn without records begins by waiting.          *)
(***************************************************************************)
Record(p) == IF p = NoPipeline THEN <<>> ELSE <<p>>

Flush ==
  /\ spc = "loop"
  /\ \E k \in Kinds : flushing[k]
  /\ flushing' = [k \in Kinds |-> FALSE]
  /\ UNCHANGED <<spc, writing, file, write_queue, flush_requested>>

StopWriting ==
  /\ spc = "loop"
  /\ \A k \in Kinds : ~flushing[k]
  /\ storage_write_thread_shutdown
  /\ spc' = "ended"
  /\ UNCHANGED <<writerVars, write_queue, flush_requested>>

Queued(k) == write_queue[k] # <<>>

TakeRecords ==
  /\ spc = "loop"
  /\ \A k \in Kinds : ~flushing[k]
  /\ ~storage_write_thread_shutdown
  /\ writing' = [k \in Kinds |->
                   IF Queued(k) THEN Head(write_queue[k]) ELSE NoPipeline]
  /\ write_queue' = [k \in Kinds |->
                       IF Queued(k) THEN Tail(write_queue[k]) ELSE <<>>]
  /\ flushing' = [k \in Kinds |-> flush_requested[k] /\ ~Queued(k)]
  /\ flush_requested' = [k \in Kinds |-> flush_requested[k] /\ Queued(k)]
  /\ spc' = IF \E k \in Kinds : Queued(k) THEN "write" ELSE "waiting"
  /\ UNCHANGED file

(* Mutant of Write: a turn that took two records writes one. *)
WriteOneOfTwo ==
  /\ spc = "write"
  /\ \E k \in Kinds : /\ writing[k] # NoPipeline
                      /\ file' = [file EXCEPT ![k] = Append(@, writing[k])]
  /\ writing' = [k \in Kinds |-> NoPipeline]
  /\ spc' = "loop"
  /\ UNCHANGED <<flushing, write_queue, flush_requested>>

Write ==
  /\ spc = "write"
  /\ file' = [k \in Kinds |-> file[k] \o Record(writing[k])]
  /\ writing' = [k \in Kinds |-> NoPipeline]
  /\ spc' = "loop"
  /\ UNCHANGED <<flushing, write_queue, flush_requested>>

StorageWriteThread ==
  /\ Flush \/ StopWriting \/ TakeRecords \/ Write
  /\ UNCHANGED <<creationVars, cpVars, storage_open, flush_needed,
                 storage_write_thread_shutdown, requested>>

(***************************************************************************)
(* The CP.  GoTo leads from one step of a call to the next.                *)
(***************************************************************************)
GoTo(from, to) == cpc = from /\ cpc' = to

Enqueue(k, p) ==
  /\ write_queue' = [write_queue EXCEPT ![k] = Append(@, p)]
  /\ requested' = [requested EXCEPT ![k] = Append(@, p)]
  /\ flush_needed' = [flush_needed EXCEPT ![k] = TRUE]
  /\ UNCHANGED <<storage_open, flush_requested,
                 storage_write_thread_shutdown, writerVars, spc>>

(* ConfigurePipeline: current_pipeline_ or an entry of pipelines_ matches, *)
(* and the draw's handle goes into the deferred command list.              *)
ConfigureFound ==
  /\ cpc = "idle"
  /\ \E p \in Pipelines : /\ pipe[p] # "absent"
                          /\ recorded' = recorded \union {p}
  /\ UNCHANGED <<creationVars, storageVars, cpc, cp_call, cp_taken, opens>>

(* PrepareShaderTranslations: a shader not translated before is also       *)
(* queued to be stored, if a storage is open.                              *)
ConfigureNew ==
  /\ \E p \in Pipelines, translates \in BOOLEAN :
       /\ pipe[p] = "absent"
       /\ cp_taken' = p
       /\ IF translates /\ storage_open
          THEN GoTo("idle", "shader_queued") /\ Enqueue("shader", p)
          ELSE GoTo("idle", "translated") /\ UNCHANGED storageVars
  /\ UNCHANGED <<creationVars, cp_call, recorded, opens>>

ShaderQueued ==
  /\ GoTo("shader_queued", "translated")
  /\ NotifyWriter
  /\ UNCHANGED <<creationVars, callVars>>

(* use_async: the option is on and there is a pixel shader.                *)
QueueCreation ==
  /\ GoTo("translated", "creation_queued")
  /\ pipe' = [pipe EXCEPT ![cp_taken] = "pending"]
  /\ creation_queue' = creation_queue \union {cp_taken}
  /\ UNCHANGED <<eventVars, countVars, tpc, storageVars, callVars>>

CreateAtOnce ==
  /\ GoTo("translated", "configured")
  /\ pipe' = [pipe EXCEPT ![cp_taken] = "settled"]
  /\ UNCHANGED <<creation_queue, eventVars, countVars, tpc, storageVars,
                 callVars>>

CreationQueued ==
  /\ GoTo("creation_queued", "configured")
  /\ NotifyOneThread
  /\ UNCHANGED <<storageVars, callVars>>

StoreDescription ==
  /\ GoTo("configured", "described")
  /\ IF storage_open THEN Enqueue("pipeline", cp_taken)
     ELSE UNCHANGED storageVars
  /\ UNCHANGED <<creationVars, callVars>>

DescriptionQueued ==
  /\ GoTo("described", "idle")
  /\ NotifyWriter
  /\ recorded' = recorded \union {cp_taken}
  /\ cp_taken' = NoPipeline
  /\ UNCHANGED <<creationVars, cp_call, opens>>

(***************************************************************************)
(* Resolving the recorded handles: at a chunk boundary, where a pipeline   *)
(* still being created puts the boundary off, and behind EndSubmission.    *)
(***************************************************************************)
IsCreatingPipelines == creation_queue # {} \/ creation_threads_busy # 0

ReplayNativeDrawBoundary ==
  /\ GoTo("idle", "resolve")
  /\ recorded # {}
  /\ ~IsCreatingPipelines
  /\ UNCHANGED <<creationVars, storageVars, callVars>>

ResolvePipelineHandles ==
  /\ GoTo("resolve", "idle")
  /\ recorded' = {}
  /\ cp_call' = "none"
  /\ UNCHANGED <<creationVars, storageVars, cp_taken, opens>>

(***************************************************************************)
(* EndSubmission: ask for a flush, help to create what is queued, await    *)
(* what the creation threads still create.                                 *)
(***************************************************************************)
EndSubmission ==
  /\ GoTo("idle", IF \E k \in Kinds : flush_needed[k] THEN "flush"
                  ELSE "drain")
  /\ cp_call' = "submission"
  /\ flush_requested' = [k \in Kinds |-> flush_requested[k] \/ flush_needed[k]]
  /\ flush_needed' = [k \in Kinds |-> FALSE]
  /\ UNCHANGED <<creationVars, storage_open, write_queue,
                 storage_write_thread_shutdown, requested, writerVars, spc,
                 cp_taken, recorded, opens>>

NotifyFlush ==
  /\ GoTo("flush", "drain")
  /\ NotifyWriter
  /\ UNCHANGED <<creationVars, callVars>>

(* CreateQueuedPipelinesOnProcessorThread; nobody but the CP queues.       *)
DrainTake ==
  /\ GoTo("drain", "create")
  /\ \E p \in creation_queue : /\ creation_queue' = creation_queue \ {p}
                               /\ cp_taken' = p
  /\ UNCHANGED <<pipe, eventVars, countVars, tpc, storageVars, cp_call,
                 recorded, opens>>

DrainCreate ==
  /\ GoTo("create", "drain")
  /\ pipe' = [pipe EXCEPT ![cp_taken] = "settled"]
  /\ cp_taken' = NoPipeline
  /\ UNCHANGED <<creation_queue, eventVars, countVars, tpc, storageVars,
                 cp_call, recorded, opens>>

NothingToAwait ==
  /\ GoTo("drain", "resolve")
  /\ cp_call = "submission"
  /\ creation_queue = {}
  /\ creation_threads_busy = 0
  /\ UNCHANGED <<creationVars, storageVars, callVars>>

(* Mutant of Await: the event still tells of an earlier await. *)
AwaitWithoutReset ==
  /\ GoTo("drain", "await_notify")
  /\ cp_call = "submission"
  /\ creation_queue = {}
  /\ creation_threads_busy # 0
  /\ creation_completion_set_event' = TRUE
  /\ UNCHANGED <<pipe, creation_queue, creation_completion_event, countVars,
                 tpc, storageVars, callVars>>

Await ==
  /\ GoTo("drain", "await_notify")
  /\ cp_call = "submission"
  /\ creation_queue = {}
  /\ creation_threads_busy # 0
  /\ creation_completion_event' = FALSE
  /\ creation_completion_set_event' = TRUE
  /\ UNCHANGED <<pipe, creation_queue, countVars, tpc, storageVars, callVars>>

AwaitNotify ==
  /\ GoTo("await_notify", "await")
  /\ NotifyOneThread
  /\ UNCHANGED <<storageVars, callVars>>

AwaitReturn ==
  /\ GoTo("await", "resolve")
  /\ creation_completion_event
  /\ UNCHANGED <<creationVars, storageVars, callVars>>

(***************************************************************************)
(* ShutdownShaderStorage, a part of InitializeShaderStorage and Shutdown.  *)
(***************************************************************************)
StopWriter ==
  /\ GoTo("stop_writer", "notify_writer")
  /\ storage_write_thread_shutdown' = TRUE
  /\ UNCHANGED <<creationVars, storage_open, write_queue, flush_needed,
                 flush_requested, requested, writerVars, spc, callVars>>

NotifyStop ==
  /\ GoTo("notify_writer", "join_writer")
  /\ NotifyWriter
  /\ UNCHANGED <<creationVars, callVars>>

WriterJoined == spc = "ended"

(* What the writer has not written yet is dropped.                         *)
CloseStorage ==
  /\ GoTo("join_writer", IF cp_call = "open" THEN "open" ELSE "delete")
  /\ WriterJoined
  /\ storage_open' = FALSE
  /\ write_queue' = [k \in Kinds |-> <<>>]
  /\ flush_needed' = [k \in Kinds |-> FALSE]
  /\ UNCHANGED <<creationVars, flush_requested,
                 storage_write_thread_shutdown, requested, writerVars, spc,
                 callVars>>

(***************************************************************************)
(* InitializeShaderStorage: open the files, queue what they describe and   *)
(* is not known yet, help to create it, start the writer.  The argument    *)
(* "blocking" is left out: all it decides is the await that Drained omits. *)
(***************************************************************************)
InitializeShaderStorage ==
  /\ GoTo("idle", IF storage_open THEN "stop_writer" ELSE "open")
  /\ opens < MaxOpens
  /\ opens' = opens + 1
  /\ cp_call' = "open"
  /\ UNCHANGED <<creationVars, storageVars, cp_taken, recorded>>

(* With no description in the file nothing is queued and nothing drained.  *)
OpenStorage ==
  /\ cpc = "open" /\ cpc' \in {"preload", "start_writer"}
  /\ storage_open' = TRUE
  /\ file' = [k \in Kinds |-> <<>>]
  /\ requested' = [k \in Kinds |-> <<>>]
  /\ UNCHANGED <<creationVars, write_queue, flush_needed, flush_requested,
                 storage_write_thread_shutdown, spc, writing, flushing,
                 callVars>>

ReturnFromOpen ==
  /\ cp_call' = "none"
  /\ UNCHANGED <<creationVars, storageVars, cp_taken, recorded, opens>>

(* A file cannot be opened: no storage from here on.                       *)
OpenStorageFails == GoTo("open", "idle") /\ ReturnFromOpen

PreloadQueue ==
  /\ GoTo("preload", "preload_notify")
  /\ \E p \in Pipelines :
       /\ pipe[p] = "absent"
       /\ pipe' = [pipe EXCEPT ![p] = "pending"]
       /\ creation_queue' = creation_queue \union {p}
  /\ UNCHANGED <<eventVars, countVars, tpc, storageVars, callVars>>

PreloadNotify ==
  /\ GoTo("preload_notify", "preload")
  /\ NotifyOneThread
  /\ UNCHANGED <<storageVars, callVars>>

PreloadAll ==
  /\ GoTo("preload", "drain")
  /\ UNCHANGED <<creationVars, storageVars, callVars>>

(* The code awaits the creation threads here only if it has launched       *)
(* additional ones, and the loop that would launch them runs while there   *)
(* are fewer threads than there are, that is, never.                       *)
Drained ==
  /\ GoTo("drain", "start_writer")
  /\ cp_call = "open"
  /\ creation_queue = {}
  /\ UNCHANGED <<creationVars, storageVars, callVars>>

StartWriter ==
  /\ GoTo("start_writer", "opened")
  /\ flush_requested' = [k \in Kinds |-> FALSE]
  /\ storage_write_thread_shutdown' = FALSE
  /\ spc' = "loop"
  /\ UNCHANGED <<creationVars, storage_open, write_queue, flush_needed,
                 requested, writerVars, callVars>>

Opened == GoTo("opened", "idle") /\ ReturnFromOpen

(***************************************************************************)
(* Shutdown: the threads first, since they may be creating pipelines, then *)
(* the storage, then the pipelines.                                        *)
(***************************************************************************)
Shutdown ==
  /\ GoTo("idle", "notify_threads")
  /\ cp_call' = "shutdown"
  /\ creation_threads_shutdown_from' = 0
  /\ UNCHANGED <<pipe, creation_queue, creation_threads_busy, eventVars, tpc,
                 taken, storageVars, cp_taken, recorded, opens>>

NotifyThreads ==
  /\ GoTo("notify_threads", "join_threads")
  /\ NotifyAllThreads
  /\ UNCHANGED <<storageVars, callVars>>

JoinThreads ==
  /\ GoTo("join_threads", IF storage_open THEN "stop_writer" ELSE "delete")
  /\ \A t \in Threads : tpc[t] = "ended"
  /\ UNCHANGED <<creationVars, storageVars, callVars>>

DeletePipelines ==
  /\ GoTo("delete", "ended")
  /\ pipe' = [p \in Pipelines |-> IF pipe[p] = "absent" THEN "absent"
                                  ELSE "deleted"]
  /\ UNCHANGED <<creation_queue, eventVars, countVars, tpc, storageVars,
                 callVars>>

(***************************************************************************)
(* The specification.  What the CP is asked to do is free; a call it has   *)
(* begun goes on, and so do the threads.                                   *)
(***************************************************************************)
CpCall ==
  \/ ConfigureFound \/ ConfigureNew
  \/ ReplayNativeDrawBoundary \/ EndSubmission
  \/ InitializeShaderStorage \/ Shutdown

CpContinue ==
  \/ ShaderQueued \/ QueueCreation \/ CreateAtOnce \/ CreationQueued
  \/ StoreDescription \/ DescriptionQueued
  \/ ResolvePipelineHandles
  \/ NotifyFlush \/ DrainTake \/ DrainCreate
  \/ NothingToAwait \/ Await \/ AwaitNotify \/ AwaitReturn
  \/ StopWriter \/ NotifyStop \/ CloseStorage
  \/ OpenStorage \/ OpenStorageFails
  \/ PreloadQueue \/ PreloadNotify \/ PreloadAll \/ Drained
  \/ StartWriter \/ Opened
  \/ NotifyThreads \/ JoinThreads \/ DeletePipelines

Next ==
  \/ CpCall
  \/ CpContinue
  \/ \E t \in Threads : CreationThread(t)
  \/ StorageWriteThread
  \/ SpuriousWake

Spec == Init /\ [][Next]_vars

FairSpec ==
  /\ Spec
  /\ WF_vars(CpContinue)
  /\ \A t \in Threads : WF_vars(CreationThread(t))
  /\ WF_vars(StorageWriteThread)

(***************************************************************************)
(* Properties.                                                             *)
(***************************************************************************)
TypeOK ==
  /\ pipe \in [Pipelines ->
                {"absent", "pending", "settled", "deleted"}]
  /\ creation_queue \in SUBSET Pipelines
  /\ creation_threads_busy \in 0 .. NumThreads
  /\ creation_completion_set_event \in BOOLEAN
  /\ creation_completion_event \in BOOLEAN
  /\ creation_threads_shutdown_from \in {0, Never}
  /\ tpc \in [Threads -> {"loop", "waiting", "create", "created", "ended"}]
  /\ taken \in [Threads -> Pipelines \union {NoPipeline}]
  /\ storage_open \in BOOLEAN
  /\ write_queue \in [Kinds -> Seq(Pipelines)]
  /\ flush_needed \in [Kinds -> BOOLEAN]
  /\ flush_requested \in [Kinds -> BOOLEAN]
  /\ storage_write_thread_shutdown \in BOOLEAN
  /\ spc \in {"loop", "waiting", "write", "ended"}
  /\ writing \in [Kinds -> Pipelines \union {NoPipeline}]
  /\ flushing \in [Kinds -> BOOLEAN]
  /\ file \in [Kinds -> Seq(Pipelines)]
  /\ requested \in [Kinds -> Seq(Pipelines)]
  /\ cpc \in {"idle", "shader_queued", "translated", "creation_queued",
              "configured", "described", "resolve", "flush", "drain",
              "create", "await_notify", "await", "stop_writer",
              "notify_writer", "join_writer", "open", "preload",
              "preload_notify", "start_writer", "opened", "notify_threads",
              "join_threads", "delete", "ended"}
  /\ cp_call \in {"none", "submission", "open", "shutdown"}
  /\ cp_taken \in Pipelines \union {NoPipeline}
  /\ recorded \in SUBSET Pipelines
  /\ opens \in 0 .. MaxOpens

(* Who is about to create a pipeline: a creation thread, or the CP.        *)
Takers(p) ==
  {t \in Threads : taken[t] = p}
    \union (IF cpc = "create" /\ cp_taken = p THEN {Never} ELSE {})

(* A pipeline waits for its creation in one place: in the queue, or in the *)
(* hands of one thread.  creation_request_lock_ makes the step from the    *)
(* queue into a thread's hands, on three code paths, a single one, so      *)
(* none is created twice, dropped, or created after it was deleted.        *)
PendingHasOnePlace ==
  \A p \in Pipelines :
    IF pipe[p] = "pending"
    THEN \/ p \in creation_queue /\ Takers(p) = {}
         \/ p \notin creation_queue /\ \E x \in 0 .. Never : Takers(p) = {x}
    ELSE Takers(p) = {} /\ (pipe[p] # "deleted" => p \notin creation_queue)

(* "EndSubmission waits for queued pipeline creation before the deferred   *)
(* list executes, so a null resolved PSO at Execute means creation failed" *)
(* (command_processor.cpp), and the same at a chunk boundary: whatever the *)
(* CP resolves has been created or has failed.                             *)
ResolvedIsSettled ==
  cpc = "resolve" => \A p \in recorded : pipe[p] = "settled"

(* The storage files receive what was queued, in that order and once, up   *)
(* to what the writer holds and what is still queued; closing the files    *)
(* drops only the end.                                                     *)
StoredInOrder ==
  \A k \in Kinds :
    IF storage_open
    THEN file[k] \o Record(writing[k]) \o write_queue[k] = requested[k]
    ELSE IsPrefix(file[k], requested[k])

(* Nobody writes to files that are closed or reads pipelines that are      *)
(* deleted: the writer lives only while the storage is open, and the       *)
(* threads have ended before the pipelines go.                             *)
TeardownIsQuiet ==
  /\ ~storage_open => spc = "ended"
  /\ cpc \in {"delete", "ended"} =>
       \A t \in Threads : tpc[t] = "ended" /\ taken[t] = NoPipeline

(* The storage: its files are in order, and teardown leaves nobody to       *)
(* write them or to read what is deleted.                                  *)
StorageInv ==
  /\ TypeOK
  /\ StoredInOrder
  /\ TeardownIsQuiet

(* No call into the cache waits for ever: the completion event is set for  *)
(* whoever awaits it, and both joins return.                               *)
CpReturns == cpc # "idle" ~> cpc \in {"idle", "ended"}

(* No notification is lost, of the creation threads or of the writer: what *)
(* has been queued for them is done in the end without another call, or    *)
(* one of the two shutdowns has begun.                                     *)
QueuedWorkIsDone ==
  IsCreatingPipelines \/ (\E k \in Kinds : Queued(k)) ~>
    \/ ~IsCreatingPipelines /\ file = requested
    \/ creation_threads_shutdown_from = 0
    \/ storage_write_thread_shutdown

(* "If the invocation is blocking, all the shader storage initialization   *)
(* is expected to be done before proceeding, to avoid latency in the       *)
(* command processor after the invocation" (InitializeShaderStorage): no   *)
(* pipeline is left pending but those that draws have asked for.           *)
BlockingInitializationIsDone ==
  cpc = "opened" =>
    \A p \in Pipelines \ recorded : pipe[p] # "pending"
=============================================================================
