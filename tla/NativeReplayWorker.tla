------------------------- MODULE NativeReplayWorker -------------------------
(***************************************************************************)
(* The optional CPU replay worker of src/src/gpu/native/                   *)
(* native_replay_worker.{h,cpp}: one thread, one job slot guarded by one   *)
(* mutex and one condition variable, and a private command stream that is  *)
(* swapped with the caller's.  This module gives the worker thread's steps *)
(* and the effect of each operation the command processor (CP) may call;   *)
(* the modules that extend it say when the CP calls them.                  *)
(*                                                                         *)
(* A region executed under mutex_ is one step.  ExecuteJob runs unlocked,  *)
(* so each of its Direct3D calls is a step of its own, and so is the       *)
(* store to the atomic result_, which the CP reads without the lock.       *)
(***************************************************************************)
EXTENDS Naturals, Sequences, SequencesExt

CONSTANTS Allocators,   (* the command allocators a caller may hand over   *)
          NoAllocator   (* the null allocator reference                    *)

ASSUME AllocatorsAssumption == NoAllocator \notin Allocators

VARIABLES
  state,           (* state_, the job slot: Idle, Queued, Running, Complete *)
  stop,            (* stop_                                                 *)
  session_active,  (* session_active_: a chunk session holds the list open  *)
  result,          (* result_, the sticky failure latch                     *)
  job,             (* job_ with the parts of its JobResult that are read    *)
  stream,          (* stream_, the commands the worker replays              *)
  source,          (* the caller's DeferredCommandList                      *)
  list,            (* list_: its allocator and the commands recorded        *)
  replay_state,    (* replay_state_: the commands it has followed           *)
  stats,           (* stats_                                                *)
  waiters,         (* threads blocked on condition_                         *)
  wpc,             (* where the worker thread is in Run and ExecuteJob      *)
  whr,             (* the HRESULT ExecuteJob is about to return             *)
  queue            (* what reached the Direct3D queue, oldest first         *)

workerVars == <<state, stop, session_active, result, job, stream, source,
                list, replay_state, stats, waiters, wpc, whr, queue>>
slotVars == <<state, stop, session_active, result, job, stats, waiters>>

Operations == {"Whole", "Begin", "Append", "Finish"}
FinalOperations == {"Whole", "Finish"}
HResults == {"S_OK", "E_FAIL"}
Failed(hr) == hr # "S_OK"

(* The worker's program counter while it holds the slot without the lock. *)
ExecutePCs == {"reset_allocator", "reset_list", "replay", "close",
               "execute", "signal", "store_result", "publish"}

ExecuteEntry(commands, allocator) ==
  [kind |-> "execute", commands |-> commands, allocator |-> allocator,
   value |-> 0]
SignalEntry(value) ==
  [kind |-> "signal", commands |-> <<>>, allocator |-> NoAllocator,
   value |-> value]

EmptyJob == [operation |-> "Whole", allocator |-> NoAllocator,
             fence_value |-> 0, result |-> "S_OK"]

InitStats ==
  [submitted |-> 0, completed |-> 0, failed |-> 0, chunk_sessions |-> 0,
   chunks_submitted |-> 0, chunks_completed |-> 0,
   chunk_sessions_completed |-> 0, chunks_failed |-> 0]

(* TryCreate and Initialize: every member is ready before the thread runs. *)
WorkerInit ==
  /\ state = "Idle"
  /\ stop = FALSE
  /\ session_active = FALSE
  /\ result = "S_OK"
  /\ job = EmptyJob
  /\ stream = <<>>
  /\ source = <<>>
  /\ list = [allocator |-> NoAllocator, commands |-> <<>>, open |-> FALSE]
  /\ replay_state = <<>>
  /\ stats = InitStats
  /\ waiters = {}
  /\ wpc = "lock"
  /\ whr = "S_OK"
  /\ queue = <<>>

-----------------------------------------------------------------------------
(* Operations of the owning command processor. *)

(* Mutant of SlotOpen: the slot is not tested. *)
SlotOpenWhileBusy(slot) == ~stop /\ ~Failed(result)

(* Mutant of SlotOpen: the latch is not tested. *)
SlotOpenAfterFailure(slot) == ~stop /\ slot = "Idle"

(* The part of every acceptance test shared by all operations. *)
SlotOpen(slot) == ~stop /\ slot = "Idle" /\ ~Failed(result)

(* Exchange of the worker's stream with the caller's. *)
SwapStorage ==
  /\ stream' = source
  /\ source' = stream

CanStart == SlotOpen(state) /\ ~session_active

(* Start: Submit when chunks is FALSE, BeginChunks when it is TRUE. *)
Start(allocator, value, chunks) ==
  /\ CanStart
  /\ job' = [operation |-> IF chunks THEN "Begin" ELSE "Whole",
             allocator |-> allocator, fence_value |-> value,
             result |-> "S_OK"]
  /\ SwapStorage
  /\ session_active' = chunks
  /\ state' = "Queued"
  /\ stats' = IF chunks
              THEN [stats EXCEPT !.chunk_sessions = @ + 1,
                                 !.chunks_submitted = @ + 1]
              ELSE [stats EXCEPT !.submitted = @ + 1]
  /\ UNCHANGED <<stop, result, list, replay_state, waiters, wpc, whr, queue>>

(* ReapCompletedLocked: the values it leaves in each of its targets. *)
Reaping == state = "Complete"
ReapingFinal == Reaping /\ job.operation \in FinalOperations

ReapedState == IF Reaping THEN "Idle" ELSE state
ReapedSession == session_active /\ ~ReapingFinal
ReapedJob == IF ReapingFinal THEN [job EXCEPT !.allocator = NoAllocator]
                             ELSE job
ReapedStats ==
  LET one(cond) == IF Reaping /\ cond THEN 1 ELSE 0
      final  == job.operation \in FinalOperations
      chunk  == job.operation # "Whole"
      failed == Failed(job.result)
  IN [stats EXCEPT
        !.chunks_completed = @ + one(chunk),
        !.chunks_failed    = @ + one(chunk /\ failed),
        !.completed        = @ + one(final),
        !.failed           = @ + one(final /\ failed),
        !.chunk_sessions_completed =
          @ + one(job.operation = "Finish" /\ ~failed)]

ReapCompleted ==
  /\ state' = ReapedState
  /\ session_active' = ReapedSession
  /\ job' = ReapedJob
  /\ stats' = ReapedStats

(* ReadyForChunk reaps and then answers; the answer is ReadyForChunk's. *)
ReadyForChunk == SlotOpen(ReapedState)

(* Mutant of CanAppend: a chunk is taken while the last one is queued. *)
CanAppendWhileBusy == ~stop /\ ReapedSession /\ ~Failed(result)

(* TryAppendChunk: reaps in any case, takes the source when it accepts. *)
CanAppend == SlotOpen(ReapedState) /\ ReapedSession

TryAppendChunk ==
  /\ IF CanAppend
     THEN /\ job' = [ReapedJob EXCEPT !.operation = "Append"]
          /\ SwapStorage
          /\ state' = "Queued"
          /\ session_active' = ReapedSession
          /\ stats' = [ReapedStats EXCEPT !.chunks_submitted = @ + 1]
     ELSE /\ ReapCompleted
          /\ UNCHANGED <<stream, source>>
  /\ UNCHANGED <<stop, result, list, replay_state, waiters, wpc, whr, queue>>

CanFinish == SlotOpen(state) /\ session_active

FinishChunks ==
  /\ CanFinish
  /\ job' = [job EXCEPT !.operation = "Finish"]
  /\ SwapStorage
  /\ state' = "Queued"
  /\ stats' = [stats EXCEPT !.chunks_submitted = @ + 1, !.submitted = @ + 1]
  /\ UNCHANGED <<stop, session_active, result, list, replay_state, waiters,
                 wpc, whr, queue>>

(* notify_one after an acceptance or a stop, outside the lock: it wakes    *)
(* any one blocked thread, and is lost when there is none.                 *)
NotifyOne ==
  \/ waiters = {} /\ UNCHANGED waiters
  \/ \E t \in waiters : waiters' = waiters \ {t}

(* Wait: under the lock, either the predicate holds and the slot is        *)
(* reaped, or the caller blocks on the condition variable.                 *)
WaitDone == state \in {"Idle", "Complete"}

WaitReturn ==
  /\ WaitDone
  /\ ReapCompleted
  /\ UNCHANGED <<stop, result, stream, source, list, replay_state, waiters,
                 wpc, whr, queue>>

WaitBlock ==
  /\ ~WaitDone
  /\ waiters' = waiters \union {"cp"}
  /\ UNCHANGED <<state, stop, session_active, result, job, stream, source,
                 list, replay_state, stats, wpc, whr, queue>>

(* The destructor's locked store of stop_, made after its Wait. *)
RequestStop ==
  /\ stop' = TRUE
  /\ UNCHANGED <<state, session_active, result, job, stream, source, list,
                 replay_state, stats, waiters, wpc, whr, queue>>

-----------------------------------------------------------------------------
(* The worker thread: Run. *)

RunAcquire ==
  /\ wpc = "lock"
  /\ IF stop
     THEN /\ wpc' = "exited"
          /\ UNCHANGED <<state, waiters>>
     ELSE IF state = "Queued"
     THEN /\ state' = "Running"
          /\ wpc' = IF job.operation \in {"Whole", "Begin"}
                    THEN "reset_allocator" ELSE "replay"
          /\ UNCHANGED waiters
     ELSE /\ wpc' = "waiting"
          /\ waiters' = waiters \union {"worker"}
          /\ UNCHANGED state
  /\ UNCHANGED <<stop, session_active, result, job, stream, source, list,
                 replay_state, stats, whr, queue>>

(* A notified worker takes the mutex again and retests its predicate. *)
RunWoken ==
  /\ wpc = "waiting"
  /\ "worker" \notin waiters
  /\ wpc' = "lock"
  /\ UNCHANGED <<slotVars, stream, source, list, replay_state, whr, queue>>

(* ExecuteJob. *)
Finishes(hr) == wpc' = "store_result" /\ whr' = hr

ResetAllocator ==
  /\ wpc = "reset_allocator"
  /\ \E hr \in HResults :
       IF Failed(hr) THEN Finishes(hr)
                     ELSE wpc' = "reset_list" /\ UNCHANGED whr
  /\ UNCHANGED <<slotVars, stream, source, list, replay_state, queue>>

ResetList ==
  /\ wpc = "reset_list"
  /\ \E hr \in HResults :
       IF Failed(hr)
       THEN Finishes(hr) /\ UNCHANGED <<list, replay_state>>
       ELSE /\ list' = [allocator |-> job.allocator, commands |-> <<>>,
                        open |-> TRUE]
            /\ replay_state' = <<>>
            /\ wpc' = "replay"
            /\ UNCHANGED whr
  /\ UNCHANGED <<slotVars, stream, source, queue>>

(* stream_.Execute records the stream; an exception leaves a prefix of it. *)
Replay ==
  /\ wpc = "replay"
  /\ \/ /\ list' = [list EXCEPT !.commands = @ \o stream]
        /\ replay_state' = IF job.operation = "Whole" THEN replay_state
                           ELSE replay_state \o stream
        /\ IF job.operation \in {"Begin", "Append"}
           THEN Finishes("S_OK")
           ELSE wpc' = "close" /\ UNCHANGED whr
     \/ \E n \in 0 .. Len(stream) :
          /\ list' = [list EXCEPT !.commands = @ \o SubSeq(stream, 1, n)]
          /\ replay_state' = IF job.operation = "Whole" THEN replay_state
                             ELSE replay_state \o SubSeq(stream, 1, n)
          /\ Finishes("E_FAIL")
  /\ UNCHANGED <<slotVars, stream, source, queue>>

Close ==
  /\ wpc = "close"
  /\ \E hr \in HResults :
       IF Failed(hr)
       THEN Finishes(hr) /\ UNCHANGED list
       ELSE /\ list' = [list EXCEPT !.open = FALSE]
            /\ wpc' = "execute"
            /\ UNCHANGED whr
  /\ UNCHANGED <<slotVars, stream, source, replay_state, queue>>

Execute ==
  /\ wpc = "execute"
  /\ queue' = Append(queue, ExecuteEntry(list.commands, list.allocator))
  /\ wpc' = "signal"
  /\ UNCHANGED <<slotVars, stream, source, list, replay_state, whr>>

(* Mutant of Signal: a failure is reported and the value signalled anyway. *)
SignalAlways ==
  /\ wpc = "signal"
  /\ \E hr \in HResults : Finishes(hr)
  /\ queue' = Append(queue, SignalEntry(job.fence_value))
  /\ UNCHANGED <<slotVars, stream, source, list, replay_state>>

Signal ==
  /\ wpc = "signal"
  /\ \E hr \in HResults :
       /\ Finishes(hr)
       /\ queue' = IF Failed(hr) THEN queue
                   ELSE Append(queue, SignalEntry(job.fence_value))
  /\ UNCHANGED <<slotVars, stream, source, list, replay_state>>

(* The release store of a failure, before the lock is taken again. *)
StoreResult ==
  /\ wpc = "store_result"
  /\ result' = IF Failed(whr) THEN whr ELSE result
  /\ wpc' = "publish"
  /\ UNCHANGED <<state, stop, session_active, job, stream, source, list,
                 replay_state, stats, waiters, whr, queue>>

(* Publication and notify_all, then the next wait under the same lock; the *)
(* local result goes out of scope.                                         *)
(* Mutant of Publish: condition_ is not notified. *)
PublishSilently ==
  /\ wpc = "publish"
  /\ job' = [job EXCEPT !.result = whr]
  /\ state' = "Complete"
  /\ whr' = "S_OK"
  /\ wpc' = IF stop THEN "exited" ELSE "waiting"
  /\ waiters' = IF stop THEN waiters ELSE waiters \union {"worker"}
  /\ UNCHANGED <<stop, session_active, result, stream, source, list,
                 replay_state, stats, queue>>

Publish ==
  /\ wpc = "publish"
  /\ job' = [job EXCEPT !.result = whr]
  /\ state' = "Complete"
  /\ whr' = "S_OK"
  /\ wpc' = IF stop THEN "exited" ELSE "waiting"
  /\ waiters' = IF stop THEN {} ELSE {"worker"}
  /\ UNCHANGED <<stop, session_active, result, stream, source, list,
                 replay_state, stats, queue>>

ExecuteJob ==
  ResetAllocator \/ ResetList \/ Replay \/ Close \/ Execute \/ Signal

WorkerNext == RunAcquire \/ RunWoken \/ ExecuteJob \/ StoreResult \/ Publish

(* A condition variable may also wake without a notification. *)
SpuriousWakeup ==
  /\ \E t \in waiters : waiters' = waiters \ {t}
  /\ UNCHANGED <<state, stop, session_active, result, job, stream, source,
                 list, replay_state, stats, wpc, whr, queue>>

=============================================================================
