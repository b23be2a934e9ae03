------------------------- MODULE NativeReplayClient -------------------------
(***************************************************************************)
(* The replay worker with the most general caller its header allows: one   *)
(* CP thread that records commands, makes any call at any time (a refused  *)
(* call changes nothing), hands over only allocators whose last fence      *)
(* value has completed, resets the stream an accepted call gave back, and  *)
(* at last destroys the worker.  The GPU consumes the queue in order.      *)
(***************************************************************************)
EXTENDS NativeReplayWorker

CONSTANTS MaxCommands,  (* bound: commands recorded in a behaviour          *)
          MaxValue,     (* bound: fence values, one for each submission     *)
          MaxChunks     (* bound: chunks accepted in a behaviour            *)

ASSUME BoundsAssumption ==
  MaxCommands \in Nat /\ MaxValue \in Nat /\ MaxChunks \in Nat

VARIABLES
  cpc,       (* where the CP thread is                                      *)
  closing,   (* the destructor is running                                   *)
  recorded,  (* commands recorded so far; they are the numbers 1..recorded  *)
  value,     (* the last fence value reserved                               *)
  used,      (* the fence value that retires each allocator                 *)
  gpu        (* how much of queue the GPU has consumed                      *)

cpVars == <<cpc, closing, recorded, value, used, gpu>>
vars == <<workerVars, cpVars>>

Init ==
  /\ WorkerInit
  /\ cpc = "ready"
  /\ closing = FALSE
  /\ recorded = 0
  /\ value = 0
  /\ used = [a \in Allocators |-> 0]
  /\ gpu = 0

(* GetCompletedValue of the fence: the last value the GPU has signalled.   *)
Completed(v) == v = 0 \/ \E i \in 1 .. gpu : queue[i].value = v

-----------------------------------------------------------------------------
(* The CP thread. *)

Record ==
  /\ cpc = "ready"
  /\ recorded < MaxCommands
  /\ recorded' = recorded + 1
  /\ source' = Append(source, recorded')
  /\ UNCHANGED <<slotVars, stream, list, replay_state, wpc, whr, queue,
                 cpc, closing, value, used, gpu>>

CallStart(allocator, chunks) ==
  /\ cpc = "ready"
  /\ value < MaxValue
  /\ chunks => stats.chunks_submitted < MaxChunks
  /\ Completed(used[allocator])
  /\ Start(allocator, value + 1, chunks)
  /\ value' = value + 1
  /\ used' = [used EXCEPT ![allocator] = value + 1]
  /\ cpc' = "notify"
  /\ UNCHANGED <<closing, recorded, gpu>>

CallReadyForChunk ==
  /\ cpc = "ready"
  /\ ReapCompleted
  /\ UNCHANGED <<stop, result, stream, source, list, replay_state, waiters,
                 wpc, whr, queue, cpVars>>

CallTryAppendChunk ==
  /\ cpc = "ready"
  /\ stats.chunks_submitted < MaxChunks
  /\ TryAppendChunk
  /\ cpc' = IF CanAppend THEN "notify" ELSE "ready"
  /\ UNCHANGED <<closing, recorded, value, used, gpu>>

CallFinishChunks ==
  /\ cpc = "ready"
  /\ stats.chunks_submitted < MaxChunks
  /\ FinishChunks
  /\ cpc' = "notify"
  /\ UNCHANGED <<closing, recorded, value, used, gpu>>

(* The end of an accepted call, then the reset of the returned stream.     *)
Notify ==
  /\ cpc = "notify"
  /\ NotifyOne
  /\ source' = <<>>
  /\ cpc' = "ready"
  /\ UNCHANGED <<state, stop, session_active, result, job, stats, stream,
                 list, replay_state, wpc, whr, queue, closing, recorded,
                 value, used, gpu>>

CallWait(destroying) ==
  /\ cpc = "ready"
  /\ cpc' = "wait"
  /\ closing' = destroying
  /\ UNCHANGED <<workerVars, recorded, value, used, gpu>>

Wait ==
  /\ cpc = "wait"
  /\ \/ WaitReturn /\ cpc' = IF closing THEN "stop" ELSE "ready"
     \/ WaitBlock /\ cpc' = "blocked"
  /\ UNCHANGED <<closing, recorded, value, used, gpu>>

WaitWoken ==
  /\ cpc = "blocked"
  /\ "cp" \notin waiters
  /\ cpc' = "wait"
  /\ UNCHANGED <<workerVars, closing, recorded, value, used, gpu>>

Stop ==
  /\ cpc = "stop"
  /\ RequestStop
  /\ cpc' = "notify_stop"
  /\ UNCHANGED <<closing, recorded, value, used, gpu>>

(* Mutant of NotifyStop: the destructor does not wake the worker. *)
StopWithoutNotify ==
  /\ cpc = "notify_stop"
  /\ cpc' = "join"
  /\ UNCHANGED <<workerVars, closing, recorded, value, used, gpu>>

NotifyStop ==
  /\ cpc = "notify_stop"
  /\ NotifyOne
  /\ cpc' = "join"
  /\ UNCHANGED <<state, stop, session_active, result, job, stats, stream,
                 source, list, replay_state, wpc, whr, queue, closing,
                 recorded, value, used, gpu>>

Join ==
  /\ cpc = "join"
  /\ wpc = "exited"
  /\ cpc' = "done"
  /\ UNCHANGED <<workerVars, closing, recorded, value, used, gpu>>

CpCall ==
  \/ Record
  \/ \E a \in Allocators, chunks \in BOOLEAN : CallStart(a, chunks)
  \/ CallReadyForChunk
  \/ CallTryAppendChunk
  \/ CallFinishChunks
  \/ \E destroying \in BOOLEAN : CallWait(destroying)

(* The steps of a call the CP thread is already in. *)
CpContinue == Notify \/ Wait \/ WaitWoken \/ Stop \/ NotifyStop \/ Join

(* The GPU consumes one entry of its queue. *)
GpuStep ==
  /\ gpu < Len(queue)
  /\ gpu' = gpu + 1
  /\ UNCHANGED <<workerVars, cpc, closing, recorded, value, used>>

WorkerStep == WorkerNext /\ UNCHANGED cpVars
WakeStep == SpuriousWakeup /\ UNCHANGED cpVars

Next == CpCall \/ CpContinue \/ GpuStep \/ WorkerStep \/ WakeStep

Spec == Init /\ [][Next]_vars

(* A started thread runs until it blocks; nothing is assumed of the calls  *)
(* the CP chooses to make, of the GPU or of spurious wake-ups.             *)
FairSpec == Spec /\ WF_vars(CpContinue) /\ WF_vars(WorkerStep)

-----------------------------------------------------------------------------
(* Where the commands are. *)

Executing == wpc \in ExecutePCs
Broken == Failed(result) \/ (wpc = "store_result" /\ Failed(whr))

(* The stream holds commands no list has recorded yet. *)
StreamPending ==
  \/ state = "Queued"
  \/ wpc \in {"reset_allocator", "reset_list", "replay"}

(* The list holds commands of a batch the queue has not received. *)
ListPending ==
  \/ session_active /\ job.operation \in {"Append", "Finish"}
     /\ (state = "Queued" \/ wpc \in {"replay", "close", "execute"})
  \/ wpc \in {"close", "execute"}
  \/ session_active /\ job.operation \in {"Begin", "Append"}
     /\ ~StreamPending

Pending == (IF ListPending THEN list.commands ELSE <<>>)
           \o (IF StreamPending THEN stream ELSE <<>>)

Held == IF cpc = "notify" THEN <<>> ELSE source

QueuedCommands == FlattenSeq([i \in 1 .. Len(queue) |-> queue[i].commands])

(* The part of queue the GPU still has to consume. *)
GpuPending == {queue[i] : i \in gpu + 1 .. Len(queue)}

(* The batch the caller is owed, as OrderedSubmission sees it. *)
InBatch ==
  \/ session_active /\ ~(job.operation = "Finish"
                         /\ (state = "Complete"
                             \/ wpc \in {"store_result", "publish"}))
  \/ job.operation = "Whole"
     /\ (state = "Queued" \/ wpc \in ExecutePCs \ {"store_result", "publish"})

AbstractBatch ==
  IF Broken \/ ~InBatch
  THEN [phase |-> "none", allocator |-> NoAllocator, value |-> 0,
        commands |-> <<>>]
  ELSE [phase |-> IF wpc = "signal" THEN "executed"
                  ELSE IF job.operation \in FinalOperations THEN "closed"
                  ELSE "open",
        allocator |-> job.allocator,
        value |-> job.fence_value,
        commands |-> IF wpc = "signal" THEN list.commands ELSE Pending]

Ordered == INSTANCE OrderedSubmission
             WITH batch <- AbstractBatch, broken <- Broken

-----------------------------------------------------------------------------
(* Properties. *)

States == {"Idle", "Queued", "Running", "Complete"}
CpPCs == {"ready", "notify", "wait", "blocked", "stop", "notify_stop",
          "join", "done"}
Commands == Seq(1 .. recorded)
Jobs == [operation : Operations, allocator : Allocators \union {NoAllocator},
         fence_value : Nat, result : HResults]
Stats == [DOMAIN InitStats -> Nat]
Lists == [allocator : Allocators \union {NoAllocator}, commands : Commands,
          open : BOOLEAN]
Entries == [kind : {"execute", "signal"}, commands : Commands,
            allocator : Allocators \union {NoAllocator}, value : Nat]

(* Every variable keeps the shape its declaration in the header gives it,   *)
(* and a job in the slot holds a reference to its allocator.               *)
TypeOK ==
  /\ state \in States
  /\ stop \in BOOLEAN
  /\ session_active \in BOOLEAN
  /\ result \in HResults
  /\ job \in Jobs
  /\ state \in {"Queued", "Running"} => job.allocator \in Allocators
  /\ stream \in Commands /\ source \in Commands /\ replay_state \in Commands
  /\ list \in Lists
  /\ stats \in Stats
  /\ waiters \subseteq {"cp", "worker"}
  /\ wpc \in {"lock", "waiting", "exited"} \union ExecutePCs
  /\ whr \in HResults
  /\ cpc \in CpPCs
  /\ closing \in BOOLEAN
  /\ recorded \in 0 .. MaxCommands
  /\ value \in 0 .. MaxValue
  /\ used \in [Allocators -> 0 .. MaxValue]
  /\ queue \in Seq(Entries)
  /\ gpu \in 0 .. Len(queue)

(* While Run has released the mutex, the slot is its own: no call of the   *)
(* CP swaps the stream, changes the job or reaps it under ExecuteJob.      *)
SlotIsExclusive ==
  [][Executing /\ ~WorkerStep
     => UNCHANGED <<state, job, stream, list, replay_state, session_active>>
    ]_vars

(* SwapStorage and the single slot keep the commands: what the queue got,  *)
(* then the open batch, then what the CP still holds, is everything that   *)
(* was recorded, in recording order; a failure only cuts off its tail.     *)
CommandsInOrder ==
  IF Broken
  THEN \A i \in 1 .. Len(QueuedCommands) : QueuedCommands[i] = i
  ELSE QueuedCommands \o Pending \o Held = [i \in 1 .. recorded |-> i]

(* "Failure never fabricates a fence": once result_ holds a failure, no    *)
(* later call makes the worker reach the queue again.                      *)
StickyFailure == [][Failed(result) => UNCHANGED <<queue, result>>]_vars

(* ExecuteJob resets an allocator and replays into it only when the GPU    *)
(* has retired every list recorded from it.                                *)
AllocatorIsIdle ==
  wpc \in {"reset_allocator", "reset_list", "replay", "close"}
    => \A e \in GpuPending : e.allocator # job.allocator

(* Over the chunks of a session replay_state_ has followed exactly the     *)
(* commands of the open list, so elided rebinds stay correct.              *)
ReplayStateFollowsList ==
  session_active /\ list.open /\ ~Broken
    /\ wpc \notin {"reset_allocator", "reset_list"}
    /\ ~(state = "Queued" /\ job.operation = "Begin")
  => replay_state = list.commands

(* The counters of Stats agree with the slot: what was accepted and not    *)
(* yet reaped is the job in the slot, and a session is open, finished or   *)
(* was ended by a failure.                                                 *)
StatsAgree ==
  LET one(cond) == IF cond THEN 1 ELSE 0
      owed  == state # "Idle"
      final == job.operation \in FinalOperations
  IN /\ stats.submitted = stats.completed + one(owed /\ final)
     /\ stats.chunks_submitted
          = stats.chunks_completed + one(owed /\ job.operation # "Whole")
     /\ stats.chunk_sessions
          = stats.chunk_sessions_completed + one(session_active)
            + one(~session_active /\ stats.chunks_failed > 0)
     /\ stats.failed + stats.chunks_failed > 0 => Failed(result)

(* The states of the worker and its client: the commands keep their order, *)
(* allocators are idle when reset, the remembered replay state is the      *)
(* list's, and the statistics agree with the slot.                         *)
WorkerInv ==
  /\ TypeOK
  /\ CommandsInOrder
  /\ AllocatorIsIdle
  /\ ReplayStateFollowsList
  /\ StatsAgree

(* The worker implements the contract stated by OrderedSubmission.         *)
ImplementsOrderedSubmission == Ordered!Spec

(* Wait always returns: no wake-up of the shared condition_ is lost.       *)
WaitReturns == cpc = "wait" ~> cpc \in {"ready", "stop"}

(* Destruction, whatever the slot holds, ends with the thread joined.      *)
DestructorReturns == closing ~> cpc = "done"

=============================================================================
