---------------------- MODULE NativeReplayClient_proofs ----------------------
(***************************************************************************)
(* Safety of the replay worker, for every set of allocators and every      *)
(* bound on commands, values and chunks: the slot and the failure latch,   *)
(* the order of the commands, the allocators, the elision state and the    *)
(* counters, and the refinement of OrderedSubmission.                      *)
(***************************************************************************)
EXTENDS NativeReplayClient, SequenceTheorems, WellFoundedInduction, TLAPS

(* Who owns the slot: exactly while the worker is inside ExecuteJob, or    *)
(* about to take the lock again after it, the slot is Running.             *)
SlotOwned == state = "Running" <=> wpc \in ExecutePCs

(* After the latch is set only the publication of that same job is left.   *)
LatchSettled ==
  Failed(result) => state # "Queued" /\ wpc \notin ExecutePCs \ {"publish"}

(* The inductive invariant: the latch needs the ownership of the slot,     *)
(* because StoreResult sets it while the slot is Running, not Queued.      *)
SlotInv ==
  /\ session_active \in BOOLEAN
  /\ SlotOwned
  /\ LatchSettled

LEMMA SlotInit == Init => SlotInv
BY DEF Init, WorkerInit, SlotInv, SlotOwned, LatchSettled, ExecutePCs, Failed

(* A reap by a caller is harmless: it only takes Complete back to Idle.    *)
LEMMA ReapKeepsSlot ==
  ASSUME SlotInv, ReapCompleted, UNCHANGED <<wpc, result>>
  PROVE  SlotInv'
BY DEF SlotInv, SlotOwned, LatchSettled, ReapCompleted, ReapedState,
       ReapedSession, Reaping, ReapingFinal, ExecutePCs, Failed

LEMMA CpCallKeepsSlot ==
  ASSUME SlotInv, CpCall
  PROVE  SlotInv'
<1>1. CASE Record
  BY <1>1 DEF Record, slotVars, SlotInv, SlotOwned, LatchSettled
<1>2. ASSUME NEW a \in Allocators, NEW chunks \in BOOLEAN,
             CallStart(a, chunks)
      PROVE  SlotInv'
  BY <1>2 DEF CallStart, Start, CanStart, SlotOpen, SlotInv, SlotOwned,
              LatchSettled, ExecutePCs, Failed
<1>3. CASE CallReadyForChunk
  BY <1>3, ReapKeepsSlot DEF CallReadyForChunk
<1>4. CASE CallTryAppendChunk
  <2>1. CASE CanAppend
    BY <1>4, <2>1 DEF CallTryAppendChunk, TryAppendChunk, CanAppend, SlotOpen,
       ReapedState, ReapedSession, Reaping, ReapingFinal, SlotInv, SlotOwned,
       LatchSettled, ExecutePCs, Failed
  <2>2. CASE ~CanAppend
    BY <1>4, <2>2, ReapKeepsSlot DEF CallTryAppendChunk, TryAppendChunk
  <2> QED BY <2>1, <2>2
<1>5. CASE CallFinishChunks
  BY <1>5 DEF CallFinishChunks, FinishChunks, CanFinish, SlotOpen, SlotInv,
              SlotOwned, LatchSettled, ExecutePCs, Failed
<1>6. ASSUME NEW destroying \in BOOLEAN, CallWait(destroying)
      PROVE  SlotInv'
  BY <1>6 DEF CallWait, workerVars, SlotInv, SlotOwned, LatchSettled
<1> QED BY <1>1, <1>2, <1>3, <1>4, <1>5, <1>6 DEF CpCall

LEMMA CpContinueKeepsSlot ==
  ASSUME SlotInv, CpContinue
  PROVE  SlotInv'
<1> USE DEF SlotInv, SlotOwned, LatchSettled
<1>1. CASE Notify
  BY <1>1 DEF Notify
<1>2. CASE Wait
  <2>1. CASE WaitReturn
    BY <2>1, ReapKeepsSlot DEF WaitReturn
  <2>2. CASE WaitBlock
    BY <2>2 DEF WaitBlock
  <2> QED BY <1>2, <2>1, <2>2 DEF Wait
<1>3. CASE WaitWoken
  BY <1>3 DEF WaitWoken, workerVars
<1>4. CASE Stop
  BY <1>4 DEF Stop, RequestStop
<1>5. CASE NotifyStop
  BY <1>5 DEF NotifyStop
<1>6. CASE Join
  BY <1>6 DEF Join, workerVars
<1> QED BY <1>1, <1>2, <1>3, <1>4, <1>5, <1>6 DEF CpContinue

LEMMA WorkerKeepsSlot ==
  ASSUME SlotInv, WorkerNext
  PROVE  SlotInv'
<1> USE DEF SlotInv, SlotOwned, LatchSettled, slotVars, ExecutePCs
<1>1. CASE RunAcquire
  BY <1>1 DEF RunAcquire
<1>2. CASE RunWoken
  BY <1>2 DEF RunWoken
<1>3. CASE ResetAllocator
  BY <1>3 DEF ResetAllocator, Finishes
<1>4. CASE ResetList
  BY <1>4 DEF ResetList, Finishes
<1>5. CASE Replay
  BY <1>5 DEF Replay, Finishes
<1>6. CASE Close
  BY <1>6 DEF Close, Finishes
<1>7. CASE Execute
  BY <1>7 DEF Execute
<1>8. CASE Signal
  BY <1>8 DEF Signal, Finishes
<1>9. CASE StoreResult
  BY <1>9 DEF StoreResult
<1>10. CASE Publish
  BY <1>10 DEF Publish
<1> QED
  BY <1>1, <1>2, <1>3, <1>4, <1>5, <1>6, <1>7, <1>8, <1>9, <1>10
  DEF WorkerNext, ExecuteJob

LEMMA SlotStep == SlotInv /\ [Next]_vars => SlotInv'
<1> SUFFICES ASSUME SlotInv, [Next]_vars PROVE SlotInv'
  OBVIOUS
<1>1. CASE CpCall
  BY <1>1, CpCallKeepsSlot
<1>2. CASE CpContinue
  BY <1>2, CpContinueKeepsSlot
<1>3. CASE GpuStep
  BY <1>3 DEF GpuStep, workerVars, SlotInv, SlotOwned, LatchSettled
<1>4. CASE WorkerStep
  BY <1>4, WorkerKeepsSlot DEF WorkerStep
<1>5. CASE WakeStep
  BY <1>5 DEF WakeStep, SpuriousWakeup, SlotInv, SlotOwned, LatchSettled
<1>6. CASE UNCHANGED vars
  BY <1>6 DEF vars, workerVars, SlotInv, SlotOwned, LatchSettled
<1> QED BY <1>1, <1>2, <1>3, <1>4, <1>5, <1>6 DEF Next

(* The slot is Running exactly while the worker executes, and nothing      *)
(* but the publication is left once the latch is set (Run, ExecuteJob).    *)
THEOREM SlotInvariance == Spec => []SlotInv
BY SlotInit, SlotStep, PTL DEF Spec

-----------------------------------------------------------------------------
(* A caller finds the slot Running and leaves it alone. *)
LEMMA CallerLeavesRunningSlot ==
  ASSUME SlotInv, Executing, CpCall \/ CpContinue
  PROVE  UNCHANGED <<state, job, stream, list, replay_state, session_active>>
<1>1. state = "Running" /\ session_active \in BOOLEAN
  BY DEF SlotInv, SlotOwned, Executing
<1>2. ~Reaping /\ ~WaitDone /\ ReapedState = "Running"
      /\ ReapedSession = session_active /\ ReapedJob = job
  BY <1>1 DEF Reaping, WaitDone, ReapedState, ReapedSession, ReapedJob,
              ReapingFinal
<1>3. ~CanStart /\ ~CanAppend /\ ~CanFinish
  BY <1>1, <1>2 DEF CanStart, CanAppend, CanFinish, SlotOpen
<1>4. CASE Record
  BY <1>4 DEF Record, slotVars
<1>5. ASSUME NEW a \in Allocators, NEW chunks \in BOOLEAN,
             CallStart(a, chunks)
      PROVE  FALSE
  BY <1>3, <1>5 DEF CallStart, Start
<1>6. CASE CallReadyForChunk
  BY <1>1, <1>2, <1>6 DEF CallReadyForChunk, ReapCompleted
<1>7. CASE CallTryAppendChunk
  BY <1>1, <1>2, <1>3, <1>7 DEF CallTryAppendChunk, TryAppendChunk,
                                ReapCompleted
<1>8. CASE CallFinishChunks
  BY <1>3, <1>8 DEF CallFinishChunks, FinishChunks
<1>9. ASSUME NEW destroying \in BOOLEAN, CallWait(destroying)
      PROVE  UNCHANGED <<state, job, stream, list, replay_state,
                         session_active>>
  BY <1>9 DEF CallWait, workerVars
<1>10. CASE Notify
  BY <1>10 DEF Notify
<1>11. CASE Wait
  BY <1>2, <1>11 DEF Wait, WaitReturn, WaitBlock
<1>12. CASE WaitWoken \/ Join
  BY <1>12 DEF WaitWoken, Join, workerVars
<1>13. CASE Stop
  BY <1>13 DEF Stop, RequestStop
<1>14. CASE NotifyStop
  BY <1>14 DEF NotifyStop
<1> QED
  BY <1>4, <1>5, <1>6, <1>7, <1>8, <1>9, <1>10, <1>11, <1>12, <1>13, <1>14
  DEF CpCall, CpContinue

(* No call of the CP touches the slot under ExecuteJob: the stream it     *)
(* replays unlocked cannot be swapped, nor its job changed or reaped.      *)
THEOREM SlotExclusive == Spec => SlotIsExclusive
<1>1. SlotInv /\ [Next]_vars
      => [Executing /\ ~WorkerStep
          => UNCHANGED <<state, job, stream, list, replay_state,
                         session_active>>]_vars
  <2> SUFFICES ASSUME SlotInv, Next, Executing, ~WorkerStep
      PROVE  UNCHANGED <<state, job, stream, list, replay_state,
                         session_active>>
    OBVIOUS
  <2>1. CASE CpCall \/ CpContinue
    BY <2>1, CallerLeavesRunningSlot
  <2>2. CASE GpuStep
    BY <2>2 DEF GpuStep, workerVars
  <2>3. CASE WakeStep
    BY <2>3 DEF WakeStep, SpuriousWakeup
  <2> QED BY <2>1, <2>2, <2>3 DEF Next
<1> QED BY <1>1, SlotInvariance, PTL DEF Spec, SlotIsExclusive

-----------------------------------------------------------------------------
(* Only ExecuteJob reaches the queue and only StoreResult writes result_.  *)
LEMMA OnlyWorkerReachesQueue ==
  ASSUME CpCall \/ CpContinue \/ GpuStep \/ WakeStep
  PROVE  UNCHANGED <<queue, result>>
<1>1. CASE CpCall
  BY <1>1 DEF CpCall, Record, CallStart, Start, CallReadyForChunk,
     CallTryAppendChunk, TryAppendChunk, CallFinishChunks, FinishChunks,
     CallWait, slotVars, workerVars
<1>2. CASE CpContinue
  BY <1>2 DEF CpContinue, Notify, Wait, WaitReturn, WaitBlock, WaitWoken,
     Stop, RequestStop, NotifyStop, Join, workerVars
<1> QED BY <1>1, <1>2 DEF GpuStep, WakeStep, SpuriousWakeup, workerVars

(* Once result_ holds a failure no later call, of any kind, makes the      *)
(* worker execute a list or signal a value (the sticky failure of Run).    *)
THEOREM FailureIsSticky == Spec => StickyFailure
<1>1. SlotInv /\ [Next]_vars
      => [Failed(result) => UNCHANGED <<queue, result>>]_vars
  <2> SUFFICES ASSUME SlotInv, Next, Failed(result)
      PROVE  UNCHANGED <<queue, result>>
    OBVIOUS
  <2>1. wpc \notin ExecutePCs \ {"publish"}
    BY DEF SlotInv, LatchSettled
  <2>2. CASE WorkerStep
    <3>1. CASE RunAcquire \/ RunWoken
      BY <3>1 DEF RunAcquire, RunWoken, slotVars
    <3>2. CASE Publish
      BY <3>2 DEF Publish
    <3>3. CASE ExecuteJob \/ StoreResult
      BY <2>1, <3>3 DEF ExecuteJob, ResetAllocator, ResetList, Replay, Close,
         Execute, Signal, StoreResult, ExecutePCs
    <3> QED BY <2>2, <3>1, <3>2, <3>3 DEF WorkerStep, WorkerNext
  <2>3. CASE CpCall \/ CpContinue \/ GpuStep \/ WakeStep
    BY <2>3, OnlyWorkerReachesQueue
  <2> QED BY <2>2, <2>3 DEF Next
<1> QED BY <1>1, SlotInvariance, PTL DEF Spec, StickyFailure

-----------------------------------------------------------------------------
(* The shape of every variable. *)

LEMMA StatsCounters ==
  /\ DOMAIN InitStats = {"submitted", "completed", "failed", "chunk_sessions",
       "chunks_submitted", "chunks_completed", "chunk_sessions_completed", "chunks_failed"}
  /\ InitStats \in Stats
BY DEF InitStats, Stats

(* A reap adds to the counters and leaves a slot of the same shape. *)
LEMMA ReapedShape ==
  ASSUME TypeOK
  PROVE  /\ ReapedState \in States /\ ReapedSession \in BOOLEAN /\ ReapedJob \in Jobs
         /\ ReapedState \in {"Queued", "Running"} => ReapedJob.allocator \in Allocators
         /\ ReapedStats \in Stats
         /\ ReapedJob.operation = job.operation /\ ReapedJob.fence_value = job.fence_value
         /\ ReapedJob.result = job.result
         /\ ~ReapingFinal => ReapedJob.allocator = job.allocator
         /\ ReapedState # "Complete"
<1>1. job \in Jobs /\ state \in States /\ session_active \in BOOLEAN /\ stats \in Stats
  BY DEF TypeOK
<1>2. /\ ReapedState \in States /\ ReapedSession \in BOOLEAN /\ ReapedJob \in Jobs
      /\ ReapedState \in {"Queued", "Running"} => ReapedJob.allocator \in Allocators
      /\ ReapedJob.operation = job.operation /\ ReapedJob.fence_value = job.fence_value
      /\ ReapedJob.result = job.result
      /\ ~ReapingFinal => ReapedJob.allocator = job.allocator
      /\ ReapedState # "Complete"
  BY <1>1 DEF TypeOK, ReapedState, ReapedSession, ReapedJob, Reaping, ReapingFinal, Jobs, States
<1>3. ReapedStats \in Stats
  <2> DEFINE one(cond) == IF Reaping /\ cond THEN 1 ELSE 0
             final == job.operation \in FinalOperations
             chunk == job.operation # "Whole"
             failed == Failed(job.result)
             a == stats.chunks_completed + one(chunk)
             b == stats.chunks_failed + one(chunk /\ failed)
             c == stats.completed + one(final)
             d == stats.failed + one(final /\ failed)
             e == stats.chunk_sessions_completed + one(job.operation = "Finish" /\ ~failed)
  <2>1. a \in Nat /\ b \in Nat /\ c \in Nat /\ d \in Nat /\ e \in Nat
    BY <1>1, StatsCounters DEF Stats
  <2>2. ReapedStats = [stats EXCEPT !.chunks_completed = a, !.chunks_failed = b, !.completed = c,
                                    !.failed = d, !.chunk_sessions_completed = e]
    BY DEF ReapedStats
  <2> HIDE DEF a, b, c, d, e
  <2> QED BY <1>1, <2>1, <2>2 DEF Stats
<1> QED BY <1>2, <1>3

(* One more chunk, submission or session. *)
LEMMA CountedShape ==
  ASSUME NEW s \in Stats
  PROVE  /\ [s EXCEPT !.submitted = @ + 1] \in Stats
         /\ [s EXCEPT !.chunks_submitted = @ + 1] \in Stats
         /\ [s EXCEPT !.chunk_sessions = @ + 1, !.chunks_submitted = @ + 1] \in Stats
         /\ [s EXCEPT !.chunks_submitted = @ + 1, !.submitted = @ + 1] \in Stats
<1> DEFINE a == s.submitted + 1
           b == s.chunks_submitted + 1
           c == s.chunk_sessions + 1
<1>1. a \in Nat /\ b \in Nat /\ c \in Nat
  BY StatsCounters DEF Stats
<1> HIDE DEF a, b, c
<1>2. [s EXCEPT !.submitted = a] \in Stats /\ [s EXCEPT !.chunks_submitted = b] \in Stats
  BY <1>1 DEF Stats
<1>3. /\ [s EXCEPT !.chunk_sessions = c, !.chunks_submitted = b] \in Stats
      /\ [s EXCEPT !.chunks_submitted = b, !.submitted = a] \in Stats
  BY <1>1 DEF Stats
<1> QED BY <1>2, <1>3 DEF a, b, c

LEMMA TypeInit == Init => TypeOK
<1> SUFFICES ASSUME Init PROVE TypeOK
  OBVIOUS
<1>1. <<>> \in Commands
  BY DEF Commands
<1>2. <<>> \in Seq(Entries) /\ Len(<<>>) = 0
  OBVIOUS
<1>3. EmptyJob \in Jobs
  BY DEF EmptyJob, Jobs, Operations, HResults
<1>4. list \in Lists
  BY <1>1 DEF Init, WorkerInit, Lists
<1>5. stats \in Stats
  BY StatsCounters DEF Init, WorkerInit
<1>6. used \in [Allocators -> 0 .. MaxValue] /\ recorded \in 0 .. MaxCommands /\ value \in 0 .. MaxValue
  BY BoundsAssumption DEF Init
<1>7. queue \in Seq(Entries) /\ gpu \in 0 .. Len(queue)
  BY <1>2 DEF Init, WorkerInit
<1>8. /\ state \in States /\ stop \in BOOLEAN /\ session_active \in BOOLEAN /\ result \in HResults
      /\ whr \in HResults /\ waiters \subseteq {"cp", "worker"} /\ wpc = "lock" /\ cpc \in CpPCs
      /\ closing \in BOOLEAN /\ state \notin {"Queued", "Running"}
  BY DEF Init, WorkerInit, States, HResults, CpPCs
<1>9. job \in Jobs /\ stream \in Commands /\ source \in Commands /\ replay_state \in Commands
  BY <1>1, <1>3 DEF Init, WorkerInit
<1> QED BY <1>4, <1>5, <1>6, <1>7, <1>8, <1>9 DEF TypeOK

(* The sequences of commands stay sequences when one more is recorded. *)
LEMMA CommandsGrow ==
  ASSUME NEW n \in Nat, NEW s \in Seq(1 .. n)
  PROVE  s \in Seq(1 .. n + 1)
<1> DEFINE S == 1 .. n
           T == 1 .. n + 1
<1>1. S \subseteq T /\ s \in Seq(S)
  OBVIOUS
<1> HIDE DEF S, T
<1>2. \A i \in 1 .. Len(s) : s[i] \in T
  BY <1>1, ElementOfSeq
<1>3. s \in Seq(T)
  BY <1>1, <1>2
<1> QED BY <1>3 DEF T

LEMMA TypeOfRecord == ASSUME TypeOK, Record PROVE TypeOK'
<1>1. recorded \in Nat /\ recorded' = recorded + 1 /\ recorded' \in 0 .. MaxCommands
  BY BoundsAssumption DEF TypeOK, Record
<1>2. ASSUME NEW s \in Commands PROVE s \in Commands'
  <2>1. s \in Seq(1 .. recorded + 1)
    BY <1>1, CommandsGrow DEF Commands
  <2> QED BY <1>1, <2>1 DEF Commands
<1>3. recorded' \in 1 .. recorded' /\ source \in Seq(1 .. recorded')
  BY <1>1, <1>2 DEF Commands, TypeOK
<1>4. source' \in Commands'
  <2> DEFINE S == 1 .. recorded'
  <2>1. recorded' \in S /\ source \in Seq(S) /\ Commands' = Seq(S)
    BY <1>3 DEF Commands
  <2> HIDE DEF S
  <2>2. Append(source, recorded') \in Seq(S)
    BY <2>1
  <2> QED BY <2>1, <2>2 DEF Record
<1>5. list \in Lists'
  BY <1>2 DEF TypeOK, Lists
<1>6. queue \in Seq(Entries')
  <2>1. Entries \subseteq Entries'
    BY <1>2 DEF Entries
  <2>2. queue \in Seq(Entries)
    BY DEF TypeOK
  <2>3. \A i \in 1 .. Len(queue) : queue[i] \in Entries'
    BY <2>1, <2>2, ElementOfSeq
  <2> HIDE DEF Entries
  <2> QED BY <2>2, <2>3
<1> QED BY <1>1, <1>2, <1>4, <1>5, <1>6
        DEF TypeOK, Record, slotVars, Jobs, States, Stats, CpPCs

LEMMA SameCommands ==
  ASSUME UNCHANGED recorded
  PROVE  Commands' = Commands /\ Lists' = Lists /\ Entries' = Entries
BY DEF Commands, Lists, Entries

LEMMA TypeOfCalls ==
  ASSUME TypeOK, session_active => job.allocator \in Allocators, CpCall
  PROVE  TypeOK'
<1>1. ASSUME NEW a \in Allocators, NEW chunks \in BOOLEAN, CallStart(a, chunks) PROVE TypeOK'
  <2>1. UNCHANGED <<stop, result, list, replay_state, waiters, wpc, whr, queue, closing, recorded, gpu>>
    BY <1>1 DEF CallStart, Start
  <2>2. /\ value' \in 0 .. MaxValue /\ used' \in [Allocators -> 0 .. MaxValue] /\ value + 1 \in Nat
        /\ cpc' \in CpPCs
    BY <1>1, BoundsAssumption DEF CallStart, TypeOK, CpPCs
  <2>3. job' \in Jobs /\ job'.allocator \in Allocators
    BY <1>1, <2>2 DEF CallStart, Start, Jobs, Operations, HResults
  <2>4. stats' \in Stats
    BY <1>1, CountedShape DEF CallStart, Start, TypeOK
  <2>5. state' \in States /\ session_active' \in BOOLEAN /\ stream' = source /\ source' = stream
    BY <1>1 DEF CallStart, Start, SwapStorage, States
  <2> QED BY <2>1, <2>2, <2>3, <2>4, <2>5, SameCommands DEF TypeOK
<1>2. CASE CallReadyForChunk
  <2>1. /\ UNCHANGED <<stop, result, stream, source, list, replay_state, waiters, wpc, whr, queue>>
        /\ UNCHANGED <<cpc, closing, recorded, value, used, gpu>> /\ ReapCompleted
    BY <1>2 DEF CallReadyForChunk, cpVars
  <2> QED BY <2>1, ReapedShape, SameCommands DEF TypeOK, ReapCompleted
<1>3. CASE CallTryAppendChunk /\ ~CanAppend
  <2>1. /\ UNCHANGED <<stop, result, stream, source, list, replay_state, waiters, wpc, whr, queue>>
        /\ UNCHANGED <<closing, recorded, value, used, gpu>> /\ ReapCompleted /\ cpc' \in CpPCs
    BY <1>3 DEF CallTryAppendChunk, TryAppendChunk, CpPCs
  <2> QED BY <2>1, ReapedShape, SameCommands DEF TypeOK, ReapCompleted
<1>4. CASE CallTryAppendChunk /\ CanAppend
  <2>1. /\ UNCHANGED <<stop, result, list, replay_state, waiters, wpc, whr, queue>>
        /\ UNCHANGED <<closing, recorded, value, used, gpu>> /\ cpc' \in CpPCs
        /\ stream' = source /\ source' = stream /\ state' \in States /\ session_active' = ReapedSession
    BY <1>4 DEF CallTryAppendChunk, TryAppendChunk, SwapStorage, CpPCs, States
  <2>2. job' = [ReapedJob EXCEPT !.operation = "Append"]
    BY <1>4 DEF CallTryAppendChunk, TryAppendChunk
  <2>3. ReapedJob.allocator \in Allocators
    BY <1>4, ReapedShape DEF CanAppend, ReapedSession
  <2>4. job' \in Jobs /\ job'.allocator \in Allocators
    BY <2>2, <2>3, ReapedShape DEF Jobs, Operations
  <2>5. stats' \in Stats
    BY <1>4, ReapedShape, CountedShape DEF CallTryAppendChunk, TryAppendChunk
  <2> QED BY <2>1, <2>4, <2>5, ReapedShape, SameCommands DEF TypeOK
<1>5. CASE CallFinishChunks
  <2>1. /\ UNCHANGED <<stop, result, list, replay_state, waiters, wpc, whr, queue, session_active>>
        /\ UNCHANGED <<closing, recorded, value, used, gpu>> /\ cpc' \in CpPCs
        /\ stream' = source /\ source' = stream /\ state' \in States /\ session_active
        /\ job' = [job EXCEPT !.operation = "Finish"]
    BY <1>5 DEF CallFinishChunks, FinishChunks, CanFinish, SwapStorage, CpPCs, States
  <2>2. job' \in Jobs /\ job'.allocator \in Allocators
    BY <2>1 DEF TypeOK, Jobs, Operations
  <2>3. stats' \in Stats
    BY <1>5, CountedShape DEF CallFinishChunks, FinishChunks, TypeOK
  <2> QED BY <2>1, <2>2, <2>3, SameCommands DEF TypeOK
<1>6. ASSUME NEW destroying \in BOOLEAN, CallWait(destroying) PROVE TypeOK'
  BY <1>6, SameCommands DEF CallWait, workerVars, TypeOK, CpPCs
<1> QED BY <1>1, <1>2, <1>3, <1>4, <1>5, <1>6, TypeOfRecord DEF CpCall

LEMMA TypeOfContinue ==
  ASSUME TypeOK, CpContinue \/ GpuStep \/ WakeStep
  PROVE  TypeOK'
<1>1. CASE Wait
  <2>1. /\ UNCHANGED <<stop, result, stream, source, list, replay_state, wpc, whr, queue>>
        /\ UNCHANGED <<closing, recorded, value, used, gpu>> /\ cpc' \in CpPCs
        /\ waiters' \subseteq {"cp", "worker"}
        /\ ReapCompleted \/ UNCHANGED <<state, session_active, job, stats>>
    BY <1>1 DEF Wait, WaitReturn, WaitBlock, CpPCs, TypeOK
  <2> QED BY <2>1, ReapedShape, SameCommands DEF TypeOK, ReapCompleted
<1>2. CASE Notify
  <2>1. /\ UNCHANGED <<state, stop, session_active, result, job, stats, stream, list, replay_state>>
        /\ UNCHANGED <<wpc, whr, queue, closing, recorded, value, used, gpu>>
        /\ source' = <<>> /\ cpc' \in CpPCs /\ waiters' \subseteq waiters
    BY <1>2 DEF Notify, NotifyOne, CpPCs
  <2>2. <<>> \in Commands
    BY DEF Commands
  <2> QED BY <2>1, <2>2, SameCommands DEF TypeOK
<1>3. CASE NotifyStop \/ WaitWoken \/ Stop \/ Join \/ WakeStep
  <2>1. /\ UNCHANGED <<state, session_active, result, job, stats, stream, source, list, replay_state>>
        /\ UNCHANGED <<wpc, whr, queue, closing, recorded, value, used, gpu>>
        /\ cpc' \in CpPCs /\ waiters' \subseteq waiters /\ stop' \in BOOLEAN
    BY <1>3 DEF NotifyStop, WaitWoken, Stop, Join, WakeStep, NotifyOne, RequestStop, SpuriousWakeup,
                workerVars, cpVars, CpPCs, TypeOK
  <2> QED BY <2>1, SameCommands DEF TypeOK
<1>4. CASE GpuStep
  <2>1. /\ UNCHANGED <<state, stop, session_active, result, job, stats, stream, source, list>>
        /\ UNCHANGED <<replay_state, waiters, wpc, whr, queue, cpc, closing, recorded, value, used>>
    BY <1>4 DEF GpuStep, workerVars
  <2>2. gpu' \in 0 .. Len(queue)
    <3> DEFINE n == Len(queue)
    <3>1. gpu \in 0 .. n /\ n \in Nat /\ gpu < n /\ gpu' = gpu + 1
      BY <1>4 DEF GpuStep, TypeOK
    <3> HIDE DEF n
    <3>2. gpu' \in 0 .. n
      BY <3>1
    <3> QED BY <3>2 DEF n
  <2> QED BY <2>1, <2>2, SameCommands DEF TypeOK
<1> QED BY <1>1, <1>2, <1>3, <1>4 DEF CpContinue

LEMMA TypeOfWorker == ASSUME TypeOK, SlotInv, WorkerStep PROVE TypeOK'
<1>1. /\ UNCHANGED <<stop, session_active, stats, stream, source>>
      /\ UNCHANGED <<cpc, closing, recorded, value, used, gpu>>
  BY DEF WorkerStep, WorkerNext, ExecuteJob, RunAcquire, RunWoken, ResetAllocator, ResetList, Replay,
         Close, Execute, Signal, StoreResult, Publish, slotVars, cpVars
<1>2. CASE RunAcquire \/ RunWoken
  <2>1. UNCHANGED <<result, job, list, replay_state, whr, queue>>
    BY <1>2 DEF RunAcquire, RunWoken, slotVars
  <2>2. /\ state' \in States /\ (state' \in {"Queued", "Running"} => state \in {"Queued", "Running"})
        /\ wpc' \in {"lock", "waiting", "exited"} \union ExecutePCs
        /\ waiters' \subseteq {"cp", "worker"}
    BY <1>2 DEF RunAcquire, RunWoken, slotVars, States, ExecutePCs, TypeOK
  <2> QED BY <1>1, <2>1, <2>2, SameCommands DEF TypeOK
<1>3. CASE ResetAllocator \/ ResetList \/ Replay \/ Close
  <2>1. UNCHANGED <<state, result, job, waiters, queue>>
    BY <1>3 DEF ResetAllocator, ResetList, Replay, Close, slotVars
  <2>2. wpc' \in ExecutePCs /\ whr' \in HResults
    BY <1>3 DEF ResetAllocator, ResetList, Replay, Close, Finishes, ExecutePCs, HResults, TypeOK
  <2>3. list' \in Lists /\ replay_state' \in Commands
    <3>1. CASE ResetAllocator
      BY <3>1 DEF ResetAllocator, TypeOK
    <3>2. CASE ResetList
      <4>1. <<>> \in Commands
        BY DEF Commands
      <4>2. job.allocator \in Allocators \union {NoAllocator}
        BY DEF TypeOK, Jobs
      <4>3. [allocator |-> job.allocator, commands |-> <<>>, open |-> TRUE] \in Lists
        BY <4>1, <4>2 DEF Lists
      <4> QED BY <3>2, <4>1, <4>3 DEF ResetList, TypeOK
    <3>3. CASE Close
      BY <3>3 DEF Close, TypeOK, Lists
    <3>4. CASE Replay
      <4>1. PICK part \in Commands :
              /\ list' = [list EXCEPT !.commands = list.commands \o part]
              /\ replay_state' = IF job.operation = "Whole" THEN replay_state ELSE replay_state \o part
        <5>1. ASSUME NEW n \in 0 .. Len(stream) PROVE SubSeq(stream, 1, n) \in Commands
          <6> DEFINE S == 1 .. recorded
          <6>1. stream \in Seq(S)
            BY DEF TypeOK, Commands
          <6> HIDE DEF S
          <6>2. \A i \in 1 .. n : stream[i] \in S
            BY <6>1
          <6>3. SubSeq(stream, 1, n) \in Seq(S)
            BY <6>2, SubSeqProperties
          <6> QED BY <6>3 DEF S, Commands
        <5>2. stream \in Commands
          BY DEF TypeOK
        <5> QED BY <3>4, <5>1, <5>2 DEF Replay
      <4> DEFINE longer == list.commands \o part
      <4>2. longer \in Commands
        BY ConcatProperties DEF TypeOK, Lists, Commands
      <4>3. replay_state \o part \in Commands
        BY ConcatProperties DEF TypeOK, Commands
      <4>4. list' = [list EXCEPT !.commands = longer]
        BY <4>1
      <4> HIDE DEF longer
      <4> QED BY <4>1, <4>2, <4>3, <4>4 DEF TypeOK, Lists
    <3> QED BY <1>3, <3>1, <3>2, <3>3, <3>4
  <2> QED BY <1>1, <2>1, <2>2, <2>3, SameCommands DEF TypeOK
<1>4. CASE Execute \/ Signal
  <2>1. UNCHANGED <<state, result, job, waiters, list, replay_state>>
    BY <1>4 DEF Execute, Signal, slotVars
  <2>2. wpc' \in ExecutePCs /\ whr' \in HResults
    BY <1>4 DEF Execute, Signal, Finishes, ExecutePCs, HResults, TypeOK
  <2>3. queue \in Seq(Entries) /\ gpu \in 0 .. Len(queue)
    BY DEF TypeOK
  <2>4. PICK e \in Entries : queue' = queue \/ queue' = Append(queue, e)
    <3>1. ExecuteEntry(list.commands, list.allocator) \in Entries
      BY DEF ExecuteEntry, Entries, TypeOK, Lists
    <3>2. SignalEntry(job.fence_value) \in Entries
      <4>1. <<>> \in Commands
        BY DEF Commands
      <4> QED BY <4>1 DEF SignalEntry, Entries, TypeOK, Jobs
    <3> QED BY <1>4, <3>1, <3>2 DEF Execute, Signal
  <2>5. queue' \in Seq(Entries) /\ gpu \in 0 .. Len(queue')
    <3> HIDE DEF Entries
    <3> QED BY <2>3, <2>4
  <2> QED BY <1>1, <2>1, <2>2, <2>5, SameCommands DEF TypeOK
<1>5. CASE StoreResult \/ Publish
  <2>1. /\ UNCHANGED <<list, replay_state, queue>> /\ result' \in HResults /\ whr' \in HResults
        /\ waiters' \subseteq {"cp", "worker"} /\ state' \in States
        /\ wpc' \in {"lock", "waiting", "exited"} \union ExecutePCs
        /\ state' \in {"Queued", "Running"} => state' = state
    BY <1>5 DEF StoreResult, Publish, HResults, ExecutePCs, States, TypeOK
  <2>2. job' \in Jobs /\ job'.allocator = job.allocator
    BY <1>5 DEF StoreResult, Publish, Jobs, TypeOK
  <2> QED BY <1>1, <2>1, <2>2, SameCommands DEF TypeOK
<1> QED BY <1>2, <1>3, <1>4, <1>5 DEF WorkerStep, WorkerNext, ExecuteJob

-----------------------------------------------------------------------------
(* The job in the slot, its session and its list. *)

ListIsStale ==
  job.operation = "Begin" /\ (state = "Queued" \/ wpc \in {"reset_allocator", "reset_list"})

JobInv ==
  /\ state # "Idle" => (session_active <=> job.operation # "Whole")
  /\ session_active /\ state = "Idle" => job.operation \in {"Begin", "Append"}
  /\ session_active => job.allocator \in Allocators
  /\ wpc \in {"reset_allocator", "reset_list"} => job.operation \in {"Whole", "Begin"}
  /\ wpc \in {"close", "execute", "signal"} => job.operation \in FinalOperations
  /\ wpc = "replay" /\ job.operation \in {"Whole", "Begin"} => list.commands = <<>>
  /\ wpc = "publish" => (Failed(whr) <=> Failed(result))
  /\ state = "Complete" => (Failed(job.result) <=> Failed(result))

ListInv ==
  /\ wpc \in {"replay", "close", "execute"} => list.allocator = job.allocator
  /\ session_active /\ ~Broken /\ ~ListIsStale => list.allocator = job.allocator
  /\ ReplayStateFollowsList

Control == TypeOK /\ SlotInv /\ JobInv /\ ListInv

(* Outside ExecuteJob the slot is not Running and only result_ can tell of *)
(* a failure.                                                              *)
LEMMA SlotIsAtRest ==
  ASSUME SlotInv, state # "Running"
  PROVE  wpc \notin ExecutePCs /\ (Broken <=> Failed(result))
BY DEF SlotInv, SlotOwned, Broken, ExecutePCs

LEMMA ReapKeepsControl ==
  ASSUME Control, ReapCompleted, TypeOK', SlotInv', UNCHANGED <<list, replay_state, wpc, whr, result>>
  PROVE  Control'
<1>1. /\ state' = ReapedState /\ session_active' = ReapedSession /\ job' = ReapedJob
      /\ job \in Jobs /\ state \in States
  BY DEF ReapCompleted, Control, TypeOK
<1>2. /\ job'.operation = job.operation /\ job'.result = job.result /\ state' # "Complete"
      /\ ~ReapingFinal => job'.allocator = job.allocator
  BY <1>1, ReapedShape DEF Control
<1>3. CASE state # "Complete"
  <2>1. UNCHANGED <<state, session_active, job>>
    BY <1>1, <1>3 DEF Control, TypeOK, ReapedState, ReapedSession, ReapedJob, Reaping, ReapingFinal
  <2> QED BY <2>1 DEF Control, JobInv, ListInv, ReplayStateFollowsList, ListIsStale, Broken
<1>4. CASE state = "Complete"
  <2>1. /\ state' = "Idle" /\ wpc \notin ExecutePCs /\ wpc' = wpc
        /\ session_active' <=> session_active /\ job.operation \notin FinalOperations
    BY <1>1, <1>4, SlotIsAtRest DEF Control, ReapedState, ReapedSession, Reaping, ReapingFinal
  <2>2. session_active' => job'.allocator = job.allocator /\ job.operation \in {"Begin", "Append"}
    BY <1>1, <1>2, <2>1 DEF ReapingFinal, FinalOperations, Jobs, Operations
  <2>3. JobInv'
    BY <1>2, <2>1, <2>2 DEF Control, JobInv, ExecutePCs
  <2>4. ~ListIsStale /\ (Broken' <=> Broken)
    BY <1>4, <2>1 DEF ListIsStale, Broken, ExecutePCs
  <2>5. ListInv'
    BY <1>2, <1>4, <2>1, <2>2, <2>4 DEF Control, ListInv, ReplayStateFollowsList, ExecutePCs
  <2> QED BY <2>3, <2>5 DEF Control
<1> QED BY <1>3, <1>4

LEMMA CallsKeepControl ==
  ASSUME Control, CpCall, TypeOK', SlotInv'
  PROVE  Control'
<1>1. /\ Control /\ job \in Jobs /\ state \in States /\ session_active \in BOOLEAN
      /\ job' \in Jobs
  BY DEF Control, TypeOK
<1>2. CASE Record \/ \E destroying \in BOOLEAN : CallWait(destroying)
  <2>1. UNCHANGED <<state, session_active, job, result, list, replay_state, wpc, whr>>
    BY <1>2 DEF Record, CallWait, slotVars, workerVars
  <2> QED BY <2>1 DEF Control, JobInv, ListInv, ReplayStateFollowsList, ListIsStale, Broken
<1>3. CASE CallReadyForChunk \/ (CallTryAppendChunk /\ ~CanAppend)
  <2>1. ReapCompleted /\ UNCHANGED <<list, replay_state, wpc, whr, result>>
    BY <1>3 DEF CallReadyForChunk, CallTryAppendChunk, TryAppendChunk
  <2> QED BY <2>1, ReapKeepsControl
<1>4. ASSUME NEW a \in Allocators, NEW chunks \in BOOLEAN, CallStart(a, chunks)
      PROVE  Control'
  <2>1. /\ state = "Idle" /\ state' = "Queued" /\ session_active' = chunks
        /\ job'.operation = IF chunks THEN "Begin" ELSE "Whole"
        /\ job'.allocator = a
        /\ UNCHANGED <<result, list, replay_state, wpc, whr>>
    BY <1>4 DEF CallStart, Start, CanStart, SlotOpen
  <2>2. wpc \notin ExecutePCs
    BY <2>1, SlotIsAtRest DEF Control
  <2>3. JobInv'
    BY <2>1, <2>2 DEF JobInv, ExecutePCs
  <2>4. ListInv'
    BY <2>1, <2>2 DEF ListInv, ReplayStateFollowsList, ListIsStale, ExecutePCs
  <2> QED BY <2>3, <2>4 DEF Control
<1>5. ASSUME /\ state \in {"Idle", "Complete"} /\ state' = "Queued" /\ session_active /\ session_active'
             /\ job'.operation \in {"Append", "Finish"} /\ job'.allocator = job.allocator
             /\ ~Failed(result) /\ UNCHANGED <<result, list, replay_state, wpc, whr>>
      PROVE  Control'
  <2>2. wpc \notin ExecutePCs /\ ~Broken /\ ~Broken' /\ ~ListIsStale /\ ~ListIsStale'
    <3>1. wpc \notin ExecutePCs /\ ~Broken
      BY <1>1, <1>5, SlotIsAtRest DEF Control
    <3> QED BY <1>5, <3>1 DEF Broken, ListIsStale, ExecutePCs
  <2>4. JobInv'
    BY <1>1, <1>5, <2>2 DEF Control, JobInv, ExecutePCs
  <2>5. ListInv'
    BY <1>1, <1>5, <2>2 DEF Control, ListInv, ReplayStateFollowsList, ListIsStale, ExecutePCs
  <2> QED BY <2>4, <2>5 DEF Control
<1>6. CASE CallTryAppendChunk /\ CanAppend
  <2>1. /\ job' = [ReapedJob EXCEPT !.operation = "Append"] /\ session_active' = ReapedSession
        /\ ReapedJob \in Jobs /\ ~Failed(result) /\ state' = "Queued"
        /\ UNCHANGED <<result, list, replay_state, wpc, whr>>
    BY <1>1, <1>6, ReapedShape
    DEF CallTryAppendChunk, TryAppendChunk, CanAppend, SlotOpen, Control
  <2>2. session_active /\ session_active' /\ ~ReapingFinal /\ state \in {"Idle", "Complete"}
    BY <1>1, <1>6, <2>1 DEF CanAppend, SlotOpen, ReapedSession, ReapedState, Reaping, States
  <2>3. job'.operation = "Append" /\ job'.allocator = job.allocator
    BY <1>1, <2>1, <2>2, ReapedShape DEF Control, Jobs
  <2> QED BY <1>5, <2>1, <2>2, <2>3
<1>7. CASE CallFinishChunks
  <2>1. /\ job' = [job EXCEPT !.operation = "Finish"] /\ session_active' = session_active
        /\ state = "Idle" /\ state' = "Queued" /\ session_active /\ ~Failed(result)
        /\ UNCHANGED <<result, list, replay_state, wpc, whr>>
    BY <1>7 DEF CallFinishChunks, FinishChunks, CanFinish, SlotOpen
  <2>2. job'.operation = "Finish" /\ job'.allocator = job.allocator
    BY <1>1, <2>1 DEF Jobs
  <2> QED BY <1>5, <2>1, <2>2
<1> QED BY <1>2, <1>3, <1>4, <1>6, <1>7 DEF CpCall

LEMMA OthersKeepControl ==
  ASSUME Control, CpContinue \/ GpuStep \/ WakeStep, TypeOK', SlotInv'
  PROVE  Control'
<1>1. CASE Wait /\ WaitReturn
  BY <1>1, ReapKeepsControl DEF WaitReturn
<1>2. CASE ~(Wait /\ WaitReturn)
  <2>1. UNCHANGED <<state, session_active, job, result, list, replay_state, wpc, whr>>
    BY <1>2 DEF CpContinue, GpuStep, WakeStep, Notify, Wait, WaitBlock, WaitWoken, Stop, RequestStop,
                NotifyStop, Join, SpuriousWakeup, workerVars
  <2> QED BY <2>1 DEF Control, JobInv, ListInv, ReplayStateFollowsList, ListIsStale, Broken
<1> QED BY <1>1, <1>2

LEMMA WorkerKeepsControl ==
  ASSUME Control, WorkerNext, TypeOK', SlotInv'
  PROVE  Control'
<1>1. /\ TypeOK /\ SlotInv /\ JobInv /\ ListInv /\ job \in Jobs /\ list \in Lists
      /\ stream \in Commands /\ replay_state \in Commands
  BY DEF Control, TypeOK
<1>2. CASE RunAcquire \/ RunWoken
  <2>1. /\ UNCHANGED <<session_active, job, result, list, replay_state, whr>> /\ wpc \notin ExecutePCs
    BY <1>2 DEF RunAcquire, RunWoken, slotVars, ExecutePCs
  <2>2. CASE state' = state /\ wpc' \notin ExecutePCs
    <3>1. (Broken' <=> Broken) /\ (ListIsStale' <=> ListIsStale)
      BY <2>1, <2>2 DEF Broken, ListIsStale, ExecutePCs
    <3>2. JobInv' /\ ListInv'
      BY <1>1, <2>1, <2>2, <3>1 DEF JobInv, ListInv, ReplayStateFollowsList, ExecutePCs
    <3> QED BY <3>2 DEF Control
  <2>3. CASE /\ state = "Queued" /\ state' = "Running"
             /\ wpc' = IF job.operation \in {"Whole", "Begin"} THEN "reset_allocator" ELSE "replay"
    <3>1. ~Failed(result) /\ ~Broken /\ ~Broken'
      BY <1>1, <2>1, <2>3 DEF SlotInv, LatchSettled, Broken, ExecutePCs
    <3>2. (ListIsStale' <=> ListIsStale) /\ (session_active <=> job.operation # "Whole")
      BY <1>1, <2>1, <2>3 DEF ListIsStale, ExecutePCs, JobInv
    <3>3. JobInv' /\ ListInv'
      BY <1>1, <2>1, <2>3, <3>1, <3>2
      DEF JobInv, ListInv, ReplayStateFollowsList, ListIsStale, ExecutePCs
    <3> QED BY <3>3 DEF Control
  <2> QED BY <1>2, <2>2, <2>3 DEF RunAcquire, RunWoken, slotVars, ExecutePCs
<1>3. ASSUME ResetAllocator \/ ResetList \/ Replay \/ Close \/ Execute \/ Signal
      PROVE  /\ UNCHANGED <<state, session_active, job, result, stream>>
             /\ state = "Running" /\ state' = "Running" /\ ~Failed(result)
             /\ (session_active <=> job.operation # "Whole")
  BY <1>1, <1>3 DEF ResetAllocator, ResetList, Replay, Close, Execute, Signal, slotVars, SlotInv,
                    SlotOwned, LatchSettled, ExecutePCs, JobInv
<1>4. ASSUME ResetAllocator \/ ResetList \/ Replay \/ Close \/ Execute \/ Signal,
             wpc' = "store_result", Failed(whr') \/ UNCHANGED <<list, replay_state>>,
             wpc \notin {"reset_allocator", "reset_list"} \/ Failed(whr')
      PROVE  Control'
  <2>1. ~Broken' => ~Broken /\ ~Failed(whr') /\ ~ListIsStale
    BY <1>1, <1>3, <1>4 DEF Broken, ListIsStale, SlotInv, LatchSettled, ExecutePCs,
                            ResetAllocator, ResetList, Replay, Close, Execute, Signal
  <2>2. JobInv'
    BY <1>1, <1>3, <1>4 DEF JobInv
  <2>3. ListInv'
    BY <1>1, <1>3, <1>4, <2>1 DEF ListInv, ReplayStateFollowsList, ListIsStale
  <2> QED BY <2>2, <2>3 DEF Control
<1>5. CASE ResetAllocator
  <2>1. CASE wpc' = "reset_list"
    <3>1. UNCHANGED <<list, replay_state, whr>> /\ wpc = "reset_allocator"
      BY <1>5, <2>1 DEF ResetAllocator, Finishes
    <3> QED BY <1>1, <1>3, <1>5, <2>1, <3>1
            DEF Control, JobInv, ListInv, ReplayStateFollowsList, ListIsStale, Broken
  <2> QED BY <1>4, <1>5, <2>1 DEF ResetAllocator, Finishes
<1>6. CASE ResetList
  <2>1. CASE wpc' = "replay"
    <3>1. /\ list'.allocator = job.allocator /\ list'.commands = <<>> /\ replay_state' = <<>>
          /\ wpc = "reset_list" /\ UNCHANGED whr
      BY <1>6, <2>1 DEF ResetList, Finishes
    <3>2. JobInv'
      BY <1>1, <1>3, <1>6, <2>1, <3>1 DEF JobInv
    <3>3. ListInv'
      BY <1>1, <1>3, <1>6, <2>1, <3>1 DEF ListInv, ReplayStateFollowsList, ListIsStale
    <3> QED BY <3>2, <3>3 DEF Control
  <2> QED BY <1>4, <1>6, <2>1 DEF ResetList, Finishes
<1>7. CASE Replay
  <2>1. CASE wpc' = "store_result" /\ Failed(whr')
    BY <1>4, <1>7, <2>1
  <2>2. CASE /\ list' = [list EXCEPT !.commands = list.commands \o stream]
             /\ replay_state' = IF job.operation = "Whole" THEN replay_state
                                ELSE replay_state \o stream
             /\ IF job.operation \in {"Begin", "Append"}
                THEN wpc' = "store_result" /\ whr' = "S_OK" ELSE wpc' = "close" /\ whr' = whr
    <3>1. /\ list'.allocator = list.allocator /\ list'.open = list.open /\ wpc = "replay"
          /\ list'.commands = list.commands \o stream
      BY <1>1, <1>7, <2>2 DEF Lists, Replay
    <3>2. ~Broken /\ ~ListIsStale /\ ~ListIsStale'
      BY <1>3, <1>7, <2>2, <3>1 DEF Broken, ListIsStale
    <3>3. job.operation \notin {"Begin", "Append"} => job.operation \in FinalOperations
      BY <1>1 DEF Jobs, Operations, FinalOperations
    <3>4. JobInv'
      BY <1>1, <1>3, <1>7, <2>2, <3>3 DEF JobInv
    <3>5. session_active /\ list.open => replay_state' = list'.commands
      BY <1>1, <1>3, <1>7, <2>2, <3>1, <3>2 DEF ListInv, ReplayStateFollowsList
    <3>6. ListInv'
      BY <1>1, <1>3, <1>7, <2>2, <3>1, <3>2, <3>5 DEF ListInv, ReplayStateFollowsList, ListIsStale
    <3> QED BY <3>4, <3>6 DEF Control
  <2> QED BY <1>7, <2>1, <2>2 DEF Replay, Finishes, Failed
<1>8. CASE Close
  <2>1. CASE wpc' = "execute"
    <3>1. /\ list'.allocator = list.allocator /\ ~list'.open /\ UNCHANGED <<replay_state, whr>>
          /\ wpc = "close"
      BY <1>1, <1>8, <2>1 DEF Close, Finishes, Lists
    <3>2. JobInv'
      BY <1>1, <1>3, <1>8, <2>1, <3>1 DEF JobInv
    <3>3. ListInv'
      BY <1>1, <1>3, <1>8, <2>1, <3>1 DEF ListInv, ReplayStateFollowsList
    <3> QED BY <3>2, <3>3 DEF Control
  <2> QED BY <1>4, <1>8, <2>1 DEF Close, Finishes
<1>9. CASE Execute
  <2>1. wpc = "execute" /\ wpc' = "signal" /\ UNCHANGED <<list, replay_state, whr>>
    BY <1>9 DEF Execute
  <2> QED BY <1>1, <1>3, <1>9, <2>1
          DEF Control, JobInv, ListInv, ReplayStateFollowsList, ListIsStale, Broken
<1>10. CASE Signal
  BY <1>4, <1>10 DEF Signal, Finishes
<1>11. CASE StoreResult
  <2>1. /\ UNCHANGED <<state, session_active, job, list, replay_state, whr>>
        /\ wpc = "store_result" /\ wpc' = "publish" /\ result' = IF Failed(whr) THEN whr ELSE result
        /\ ~Failed(result)
    BY <1>1, <1>11 DEF StoreResult, SlotInv, LatchSettled, ExecutePCs
  <2>2. Broken' <=> Broken
    BY <2>1 DEF Broken
  <2>3. state # "Complete"
    BY <1>1, <2>1 DEF SlotInv, SlotOwned, ExecutePCs
  <2> QED BY <1>1, <2>1, <2>2, <2>3 DEF Control, JobInv, ListInv, ReplayStateFollowsList, ListIsStale
<1>12. CASE Publish
  <2>1. /\ UNCHANGED <<session_active, list, replay_state, result>> /\ wpc = "publish"
        /\ wpc' \in {"exited", "waiting"} /\ state = "Running" /\ state' = "Complete"
        /\ (Failed(whr) <=> Failed(result))
    BY <1>1, <1>12 DEF Publish, SlotInv, SlotOwned, ExecutePCs, JobInv
  <2>2. /\ job'.operation = job.operation /\ job'.allocator = job.allocator /\ job'.result = whr
    BY <1>1, <1>12 DEF Publish, Jobs
  <2>3. Broken' <=> Broken
    BY <2>1 DEF Broken
  <2> QED BY <1>1, <2>1, <2>2, <2>3 DEF Control, JobInv, ListInv, ReplayStateFollowsList, ListIsStale
<1> QED BY <1>2, <1>5, <1>6, <1>7, <1>8, <1>9, <1>10, <1>11, <1>12 DEF WorkerNext, ExecuteJob

LEMMA ControlInit == Init => Control
<1> SUFFICES ASSUME Init PROVE Control
  OBVIOUS
<1>1. TypeOK /\ SlotInv
  BY TypeInit, SlotInit
<1>2. /\ state = "Idle" /\ session_active = FALSE /\ wpc = "lock"
  BY DEF Init, WorkerInit
<1>3. JobInv /\ ListInv
  BY <1>2 DEF JobInv, ListInv, ReplayStateFollowsList
<1> QED BY <1>1, <1>3 DEF Control

LEMMA ControlStep == Control /\ [Next]_vars => Control'
<1> SUFFICES ASSUME Control, [Next]_vars PROVE Control'
  OBVIOUS
<1>1. TypeOK /\ SlotInv /\ SlotInv' /\ (session_active => job.allocator \in Allocators)
  BY SlotStep DEF Control, JobInv
<1>2. CASE CpCall
  BY <1>1, <1>2, TypeOfCalls, CallsKeepControl
<1>3. CASE CpContinue \/ GpuStep \/ WakeStep
  BY <1>1, <1>3, TypeOfContinue, OthersKeepControl
<1>4. CASE WorkerStep
  BY <1>1, <1>4, TypeOfWorker, WorkerKeepsControl DEF WorkerStep
<1>5. CASE UNCHANGED vars
  <2>1. /\ UNCHANGED <<state, session_active, job, result, list, replay_state, wpc, whr, stream, source>>
        /\ UNCHANGED <<stop, stats, waiters, queue, cpc, closing, recorded, value, used, gpu>>
    BY <1>5 DEF vars, workerVars, cpVars
  <2>2. TypeOK'
    BY <1>1, <2>1, SameCommands DEF TypeOK
  <2> QED BY <1>1, <2>1, <2>2 DEF Control, JobInv, ListInv, ReplayStateFollowsList, ListIsStale, Broken
<1> QED BY <1>2, <1>3, <1>4, <1>5 DEF Next

LEMMA Controlled == Spec => []Control
<1> QED BY ControlInit, ControlStep, PTL DEF Spec

-----------------------------------------------------------------------------
(* The values on the queue and the allocators whose lists are there.       *)

IsSignal(i) == queue[i].kind = "signal"
Holding == session_active \/ wpc \in ExecutePCs \/ state = "Queued"

ValueInv ==
  /\ job.fence_value <= value
  /\ \A i \in 1 .. Len(queue) : IsSignal(i) =>
       /\ queue[i].value > 0 /\ queue[i].value <= value /\ queue[i].allocator = NoAllocator
       /\ \A j \in 1 .. i - 1 : IsSignal(j) => queue[j].value < queue[i].value
       /\ ~Broken /\ InBatch => queue[i].value < job.fence_value
  /\ \A i \in 1 .. Len(queue) : queue[i].kind = "execute" =>
       /\ queue[i].value = 0 /\ queue[i].allocator \in Allocators
       /\ \/ i < Len(queue) /\ IsSignal(i + 1) /\ queue[i + 1].value <= used[queue[i].allocator]
          \/ i = Len(queue) /\ (wpc = "signal" \/ Broken)
  /\ wpc = "signal" =>
       /\ Len(queue) > 0 /\ queue[Len(queue)].kind = "execute"
       /\ queue[Len(queue)].allocator = job.allocator
  /\ Holding => used[job.allocator] = job.fence_value /\ job.fence_value > 0

(* Nothing the GPU still has to execute was recorded from the allocator of *)
(* the batch, until the batch itself is on the queue.                      *)
IdleInv ==
  ~Broken /\ InBatch /\ wpc # "signal" =>
    \A i \in gpu + 1 .. Len(queue) : queue[i].allocator # job.allocator

LEMMA EntryTypes ==
  ASSUME TypeOK
  PROVE  /\ Len(queue) \in Nat /\ gpu \in Nat /\ gpu <= Len(queue) /\ value \in Nat
         /\ job.fence_value \in Nat
         /\ \A i \in 1 .. Len(queue) :
              /\ queue[i].value \in Nat /\ queue[i].kind \in {"execute", "signal"}
              /\ queue[i].commands \in Commands
         /\ \A a \in Allocators : used[a] \in Nat
<1>1. \A i \in 1 .. Len(queue) : queue[i] \in Entries
  BY DEF TypeOK
<1>2. job.fence_value \in Nat /\ Len(queue) \in Nat /\ gpu \in Nat /\ gpu <= Len(queue)
  BY DEF TypeOK, Jobs
<1>3. value \in Nat /\ \A a \in Allocators : used[a] \in Nat
  BY BoundsAssumption DEF TypeOK
<1> QED BY <1>1, <1>2, <1>3 DEF Entries

(* A step that puts nothing on the queue and opens no batch. *)
Quiet ==
  /\ UNCHANGED <<queue, value, used>> /\ gpu' \in Nat /\ gpu <= gpu'
  /\ job'.fence_value = job.fence_value
  /\ Broken => Broken'
  /\ InBatch' /\ ~Broken' => InBatch
  /\ wpc' = "signal" => wpc = "signal"
  /\ wpc = "signal" => wpc' = "signal" \/ Broken'
  /\ Holding' => Holding /\ job'.allocator = job.allocator

LEMMA BatchIsHeld == ASSUME InBatch PROVE Holding
BY DEF InBatch, Holding

LEMMA LaterIsPending ==
  ASSUME NEW n \in Nat, NEW g \in Nat, NEW h \in Nat, g <= h
  PROVE  \A i \in h + 1 .. n : i \in g + 1 .. n
OBVIOUS

LEMMA QuietKeeps ==
  ASSUME Control, TypeOK', ValueInv, IdleInv, Quiet
  PROVE  ValueInv' /\ IdleInv'
<1> USE DEF Quiet
<1>1. /\ Len(queue) \in Nat /\ gpu \in Nat /\ gpu <= Len(queue)
  BY EntryTypes DEF Control
<1>2. wpc' = "signal" => job'.allocator = job.allocator
  BY DEF Holding, ExecutePCs
<1>3. ValueInv'
  <2>1. \A i \in 1 .. Len(queue') : queue'[i].kind = "signal" =>
          /\ queue'[i].value > 0 /\ queue'[i].value <= value' /\ queue'[i].allocator = NoAllocator
          /\ \A j \in 1 .. i - 1 : queue'[j].kind = "signal" => queue'[j].value < queue'[i].value
          /\ ~Broken' /\ InBatch' => queue'[i].value < job'.fence_value
    BY DEF ValueInv, IsSignal
  <2>2. \A i \in 1 .. Len(queue') : queue'[i].kind = "execute" =>
          /\ queue'[i].value = 0 /\ queue'[i].allocator \in Allocators
          /\ \/ i < Len(queue') /\ queue'[i + 1].kind = "signal" /\ queue'[i + 1].value <= used'[queue'[i].allocator]
             \/ i = Len(queue') /\ (wpc' = "signal" \/ Broken')
    BY DEF ValueInv, IsSignal
  <2>3. wpc' = "signal" =>
          /\ Len(queue') > 0 /\ queue'[Len(queue')].kind = "execute"
          /\ queue'[Len(queue')].allocator = job'.allocator
    BY <1>2 DEF ValueInv
  <2>4. Holding' => used'[job'.allocator] = job'.fence_value /\ job'.fence_value > 0
    BY DEF ValueInv
  <2>5. job'.fence_value <= value'
    BY DEF ValueInv
  <2> QED BY <2>1, <2>2, <2>3, <2>4, <2>5 DEF ValueInv, IsSignal
<1>4. InBatch' => Holding'
  BY DEF InBatch, Holding
<1>5. \A i \in gpu' + 1 .. Len(queue) : i \in gpu + 1 .. Len(queue)
  BY <1>1, LaterIsPending
<1>6. IdleInv'
  BY <1>4, <1>5 DEF IdleInv
<1> QED BY <1>3, <1>6

(* The values signalled rise along the queue. *)
LEMMA ValuesRise ==
  ASSUME TypeOK, ValueInv, NEW i \in 1 .. Len(queue), NEW k \in 1 .. Len(queue),
         IsSignal(i), IsSignal(k), queue[i].value <= queue[k].value
  PROVE  i <= k
<1>1. ~(k < i)
  <2> SUFFICES ASSUME k < i PROVE FALSE
    OBVIOUS
  <2>1. k \in 1 .. i - 1
    BY EntryTypes
  <2>2. queue[k].value < queue[i].value
    BY <2>1 DEF ValueInv
  <2> QED BY <2>2, EntryTypes
<1> QED BY <1>1, EntryTypes

(* An allocator whose last value has completed is not in use by the GPU.   *)
LEMMA CompletedIsIdle ==
  ASSUME TypeOK, ValueInv, ~Broken, wpc # "signal", NEW a \in Allocators, Completed(used[a])
  PROVE  \A i \in gpu + 1 .. Len(queue) : queue[i].allocator # a
<1> SUFFICES ASSUME NEW i \in gpu + 1 .. Len(queue), queue[i].allocator = a PROVE FALSE
  OBVIOUS
<1>1. i \in 1 .. Len(queue) /\ i > gpu
  BY EntryTypes
<1>2. queue[i].kind = "execute"
  BY <1>1, EntryTypes, AllocatorsAssumption DEF ValueInv, IsSignal
<1>3. i < Len(queue) /\ IsSignal(i + 1) /\ queue[i + 1].value <= used[a]
  BY <1>1, <1>2 DEF ValueInv
<1>4. i + 1 \in 1 .. Len(queue) /\ queue[i + 1].value > 0
  BY <1>1, <1>3, EntryTypes DEF ValueInv
<1>5. used[a] # 0 /\ used[a] \in Nat
  BY <1>3, <1>4, EntryTypes
<1>6. PICK k \in 1 .. gpu : queue[k].value = used[a]
  BY <1>5 DEF Completed
<1>7. k \in 1 .. Len(queue) /\ queue[k].kind = "signal"
  BY <1>5, <1>6, EntryTypes DEF ValueInv
<1>8. i + 1 <= k
  BY <1>3, <1>4, <1>6, <1>7, ValuesRise DEF IsSignal
<1> QED BY <1>1, <1>8, EntryTypes

LEMMA ExecuteKeepsValues ==
  ASSUME Control, TypeOK', ValueInv, Execute, UNCHANGED <<value, used, gpu>>
  PROVE  ValueInv' /\ IdleInv'
<1> DEFINE n == Len(queue)
           e == ExecuteEntry(list.commands, list.allocator)
<1>1. /\ wpc = "execute" /\ wpc' = "signal" /\ UNCHANGED <<state, session_active, job, result, whr>>
      /\ queue' = Append(queue, e)
  BY DEF Execute, slotVars
<1>2. ~Broken /\ ~Broken'
  BY <1>1 DEF Control, SlotInv, LatchSettled, Broken, ExecutePCs
<1>3. TypeOK /\ e.kind = "execute" /\ e.allocator = job.allocator /\ e.value = 0
  BY <1>1 DEF Control, ListInv, ExecuteEntry
<1>4. job.allocator \in Allocators
  BY <1>1 DEF Control, TypeOK, SlotInv, SlotOwned, ExecutePCs
<1> HIDE DEF e
<1>5. /\ n \in Nat /\ Len(queue') = n + 1 /\ \A i \in 1 .. n : queue'[i] = queue[i]
      /\ queue'[n + 1] = e
  BY <1>1, <1>3 DEF TypeOK
<1>6. InBatch' <=> InBatch
  BY <1>1 DEF InBatch, ExecutePCs
<1>7. Holding' <=> Holding
  BY <1>1 DEF Holding, ExecutePCs
<1>8. IdleInv'
  BY <1>1 DEF IdleInv
<1> HIDE DEF n
<1>9. \A i \in 1 .. n + 1 : i \in 1 .. n \/ i = n + 1
  BY <1>5
<1>10. \A i \in 1 .. n : \A j \in 1 .. i - 1 : j \in 1 .. n
  BY <1>5
<1>11. ASSUME NEW i \in 1 .. n + 1, queue'[i].kind = "signal"
       PROVE  /\ queue'[i].value > 0 /\ queue'[i].value <= value /\ queue'[i].allocator = NoAllocator
              /\ \A j \in 1 .. i - 1 : queue'[j].kind = "signal" => queue'[j].value < queue'[i].value
              /\ InBatch => queue'[i].value < job.fence_value
  <2>1. i \in 1 .. n
    BY <1>3, <1>5, <1>9, <1>11
  <2> QED BY <1>2, <1>5, <1>10, <1>11, <2>1 DEF ValueInv, IsSignal, n
<1>12. ASSUME NEW i \in 1 .. n + 1, queue'[i].kind = "execute"
       PROVE  /\ queue'[i].value = 0 /\ queue'[i].allocator \in Allocators
              /\ \/ /\ i < n + 1 /\ queue'[i + 1].kind = "signal"
                    /\ queue'[i + 1].value <= used[queue'[i].allocator]
                 \/ i = n + 1
  <2>1. CASE i \in 1 .. n
    <3>1. /\ queue[i].value = 0 /\ queue[i].allocator \in Allocators
          /\ i < n /\ queue[i + 1].kind = "signal" /\ queue[i + 1].value <= used[queue[i].allocator]
      BY <1>1, <1>2, <1>5, <1>12, <2>1 DEF ValueInv, IsSignal, n
    <3>2. i + 1 \in 1 .. n /\ i < n + 1
      BY <1>5, <2>1, <3>1
    <3> QED BY <1>5, <2>1, <3>1, <3>2
  <2>2. CASE i = n + 1
    BY <1>3, <1>4, <1>5, <2>2
  <2> QED BY <1>9, <2>1, <2>2
<1>13. n + 1 > 0
  BY <1>5
<1>14. ValueInv'
  BY <1>1, <1>3, <1>5, <1>6, <1>7, <1>11, <1>12, <1>13 DEF ValueInv, IsSignal
<1> QED BY <1>8, <1>14

LEMMA SignalKeepsValues ==
  ASSUME Control, TypeOK', ValueInv, Signal, queue' # queue, UNCHANGED <<value, used, gpu>>
  PROVE  ValueInv' /\ IdleInv'
<1> DEFINE n == Len(queue)
           e == SignalEntry(job.fence_value)
<1>1. /\ wpc = "signal" /\ wpc' = "store_result" /\ UNCHANGED <<state, session_active, job, result>>
      /\ queue' = Append(queue, e) /\ ~Failed(whr')
  BY DEF Signal, slotVars, Finishes
<1>2. ~Broken /\ ~Broken'
  BY <1>1 DEF Control, SlotInv, LatchSettled, Broken, ExecutePCs
<1>3. TypeOK /\ e.kind = "signal" /\ e.allocator = NoAllocator /\ e.value = job.fence_value
  BY DEF Control, SignalEntry
<1>4. /\ job.operation \in FinalOperations /\ state = "Running" /\ Holding
      /\ (session_active <=> job.operation # "Whole")
  BY <1>1 DEF Control, JobInv, SlotInv, SlotOwned, ExecutePCs, Holding
<1>5. InBatch /\ ~InBatch'
  BY <1>1, <1>4 DEF InBatch, FinalOperations, ExecutePCs
<1> HIDE DEF e
<1>6. /\ n \in Nat /\ Len(queue') = n + 1 /\ \A i \in 1 .. n : queue'[i] = queue[i]
      /\ queue'[n + 1] = e
  BY <1>1, <1>3 DEF TypeOK
<1>7. /\ n > 0 /\ queue[n].kind = "execute" /\ queue[n].allocator = job.allocator
      /\ used[job.allocator] = job.fence_value /\ job.fence_value > 0 /\ job.fence_value <= value
      /\ job.fence_value \in Nat
  BY <1>1, <1>3, <1>4, EntryTypes DEF ValueInv
<1>8. IdleInv'
  BY <1>5 DEF IdleInv
<1> HIDE DEF n
<1>9. \A i \in 1 .. n + 1 : i \in 1 .. n \/ i = n + 1
  BY <1>6
<1>10. \A i \in 1 .. n : \A j \in 1 .. i - 1 : j \in 1 .. n
  BY <1>6
<1>11. ASSUME NEW i \in 1 .. n + 1, queue'[i].kind = "signal"
       PROVE  /\ queue'[i].value > 0 /\ queue'[i].value <= value /\ queue'[i].allocator = NoAllocator
              /\ \A j \in 1 .. i - 1 : queue'[j].kind = "signal" => queue'[j].value < queue'[i].value
  <2>1. CASE i \in 1 .. n
    BY <1>6, <1>10, <1>11, <2>1 DEF ValueInv, IsSignal, n
  <2>2. CASE i = n + 1
    <3>1. \A j \in 1 .. i - 1 : j \in 1 .. n
      BY <1>6, <2>2
    <3>2. \A j \in 1 .. n : queue[j].kind = "signal" => queue[j].value < job.fence_value
      BY <1>2, <1>5 DEF ValueInv, IsSignal, n
    <3> QED BY <1>3, <1>6, <1>7, <2>2, <3>1, <3>2
  <2> QED BY <1>9, <2>1, <2>2
<1>12. ASSUME NEW i \in 1 .. n + 1, queue'[i].kind = "execute"
       PROVE  /\ queue'[i].value = 0 /\ queue'[i].allocator \in Allocators
              /\ i < n + 1 /\ queue'[i + 1].kind = "signal"
              /\ queue'[i + 1].value <= used[queue'[i].allocator]
  <2>1. i \in 1 .. n
    BY <1>3, <1>6, <1>9, <1>12
  <2>2. /\ queue[i].kind = "execute" /\ queue[i].value = 0 /\ queue[i].allocator \in Allocators
        /\ \/ i < n /\ queue[i + 1].kind = "signal" /\ queue[i + 1].value <= used[queue[i].allocator]
           \/ i = n
    BY <1>6, <1>12, <2>1 DEF ValueInv, IsSignal, n
  <2>3. CASE i = n
    BY <1>3, <1>6, <1>7, <2>1, <2>2, <2>3
  <2>4. CASE i < n /\ queue[i + 1].kind = "signal" /\ queue[i + 1].value <= used[queue[i].allocator]
    <3>1. i + 1 \in 1 .. n /\ i < n + 1
      BY <1>6, <2>1, <2>4
    <3> QED BY <1>6, <2>1, <2>2, <2>4, <3>1
  <2> QED BY <2>2, <2>3, <2>4
<1>13. ValueInv'
  BY <1>1, <1>2, <1>5, <1>6, <1>7, <1>11, <1>12 DEF ValueInv, IsSignal
<1> QED BY <1>8, <1>13

-----------------------------------------------------------------------------
(* What the steps do to the batch the caller is owed.                      *)

(* No step of this kind reaches the queue or reserves a value. *)
PlainStep ==
  /\ UNCHANGED <<queue, value, used>> /\ gpu' \in Nat /\ gpu <= gpu'
  /\ job'.fence_value = job.fence_value
  /\ wpc' = "signal" => wpc = "signal"
  /\ Holding' => Holding /\ job'.allocator = job.allocator

KeepsHeld == Held' = Held /\ recorded' = recorded

(* The batch is what it was. *)
KeepsBatch ==
  /\ PlainStep
  /\ Broken' <=> Broken
  /\ ~Broken =>
       /\ InBatch' <=> InBatch
       /\ wpc' = "signal" <=> wpc = "signal"
       /\ wpc = "signal" => list'.commands = list.commands
       /\ InBatch => (job'.operation \in FinalOperations <=> job.operation \in FinalOperations)
       /\ Pending' = Pending

(* A call of ExecuteJob has failed. *)
BreaksBatch ==
  /\ PlainStep /\ KeepsHeld
  /\ ~Broken /\ Broken' /\ InBatch

(* The worker has taken what the caller held, behind what the batch had.   *)
ExtendsBatch ==
  /\ PlainStep
  /\ ~Broken /\ ~Broken' /\ InBatch /\ InBatch'
  /\ wpc # "signal" /\ wpc' # "signal"
  /\ job.operation \notin FinalOperations
  /\ Pending' = Pending \o Held /\ Held' = <<>> /\ recorded' = recorded

LEMMA PendingIs ==
  ASSUME TypeOK
  PROVE  Pending = IF ListPending /\ StreamPending THEN list.commands \o stream
                   ELSE IF ListPending THEN list.commands
                   ELSE IF StreamPending THEN stream ELSE <<>>
<1>1. stream \in Seq(1 .. recorded) /\ list.commands \in Seq(1 .. recorded)
  BY DEF TypeOK, Lists, Commands
<1>2. <<>> \in Seq(1 .. recorded) /\ <<>> \o <<>> = <<>>
  OBVIOUS
<1> QED BY <1>1, <1>2, ConcatEmptySeq DEF Pending

LEMMA SameJobKeeps ==
  ASSUME TypeOK, gpu' \in Nat, gpu <= gpu',
         UNCHANGED <<state, session_active, job, result, wpc, whr, queue, value, used, list, stream>>
  PROVE  KeepsBatch
BY DEF KeepsBatch, PlainStep, Holding, Broken, InBatch, Pending, ListPending, StreamPending

LEMMA RecordKeeps ==
  ASSUME TypeOK, Record
  PROVE  KeepsBatch /\ Held' = Append(Held, recorded + 1) /\ recorded' = recorded + 1
<1>1. /\ UNCHANGED <<state, session_active, job, result, wpc, whr, queue, value, used, list, stream, gpu>>
      /\ cpc = "ready" /\ cpc' = "ready" /\ recorded' = recorded + 1
      /\ source' = Append(source, recorded + 1)
  BY DEF Record, slotVars
<1>2. gpu \in Nat /\ gpu <= gpu
  BY DEF TypeOK
<1> QED BY <1>1, <1>2, SameJobKeeps DEF Held

LEMMA ReapKeeps ==
  ASSUME Control, ReapCompleted,
         UNCHANGED <<result, list, stream, source, wpc, whr, queue, value, used, gpu, recorded>>,
         cpc # "notify", cpc' # "notify"
  PROVE  KeepsBatch /\ KeepsHeld
<1>1. /\ state' = ReapedState /\ session_active' = ReapedSession /\ job' = ReapedJob
      /\ job \in Jobs /\ state \in States /\ gpu \in Nat /\ gpu <= gpu /\ session_active \in BOOLEAN
      /\ job' \in Jobs
  BY ReapedShape DEF ReapCompleted, Control, TypeOK
<1>2. /\ job'.operation = job.operation /\ job'.fence_value = job.fence_value
      /\ ~ReapingFinal => job'.allocator = job.allocator
  BY <1>1 DEF ReapedJob, Jobs
<1>3. KeepsHeld
  BY DEF KeepsHeld, Held
<1>4. CASE state # "Complete"
  <2>1. UNCHANGED <<state, session_active, job>>
    BY <1>1, <1>4 DEF ReapedState, ReapedSession, ReapedJob, Reaping, ReapingFinal
  <2> QED BY <1>1, <1>3, <2>1, SameJobKeeps DEF Control
<1>5. CASE state = "Complete"
  <2>1. /\ state' = "Idle" /\ wpc \notin ExecutePCs /\ wpc' = wpc
        /\ session_active' <=> session_active /\ job.operation \notin FinalOperations
    BY <1>1, <1>5, SlotIsAtRest DEF Control, ReapedState, ReapedSession, Reaping, ReapingFinal
  <2>2. session_active' => job'.allocator = job.allocator
    <3>1. session_active' => ~ReapingFinal
      BY <2>1 DEF ReapingFinal
    <3> QED BY <1>2, <3>1
  <2>3. Broken' <=> Broken
    BY DEF Broken
  <2>4. job.operation \in {"Begin", "Append"} <=> job.operation \notin FinalOperations
    BY <1>1 DEF Jobs, Operations, FinalOperations
  <2>5. InBatch' <=> InBatch
    <3>1. InBatch <=> session_active /\ job.operation \notin FinalOperations
      <4>1. session_active <=> job.operation # "Whole"
        BY <1>5 DEF Control, JobInv
      <4>2. wpc \notin ExecutePCs \ {"store_result", "publish"} /\ state # "Queued"
        BY <1>5, <2>1
      <4> QED BY <1>5, <4>1, <4>2 DEF InBatch, FinalOperations
    <3>2. InBatch' <=> session_active'
      <4>1. wpc' \notin ExecutePCs \ {"store_result", "publish"} /\ wpc' \notin {"store_result", "publish"}
        <5>1. wpc' \notin ExecutePCs
          BY <2>1
        <5> QED BY <5>1 DEF ExecutePCs
      <4>2. state' = "Idle" /\ job'.operation = job.operation
        BY <1>2, <2>1
      <4> QED BY <4>1, <4>2 DEF InBatch
    <3> QED BY <2>1, <3>1, <3>2
  <2>6. (ListPending' <=> ListPending) /\ ~StreamPending /\ ~StreamPending'
    BY <1>2, <1>5, <2>1, <2>4 DEF ListPending, StreamPending, ExecutePCs
  <2>7. Pending' = Pending
    BY <2>6 DEF Pending
  <2>8. PlainStep
    BY <1>1, <1>2, <2>1, <2>2 DEF PlainStep, Holding
  <2> QED BY <1>2, <1>3, <2>1, <2>3, <2>5, <2>7, <2>8 DEF KeepsBatch
<1> QED BY <1>4, <1>5

(* TryAppendChunk and FinishChunks, when they accept, take what is held.   *)
LEMMA TakeExtends ==
  ASSUME Control,
         state \in {"Idle", "Complete"}, state' = "Queued", session_active, session_active',
         job.operation \notin FinalOperations, job'.operation \in {"Append", "Finish"},
         job'.allocator = job.allocator, job'.fence_value = job.fence_value,
         ~Failed(result), cpc = "ready", cpc' = "notify", stream' = source,
         UNCHANGED <<result, list, wpc, whr, queue, value, used, gpu, recorded>>
  PROVE  ExtendsBatch
<1>1. wpc \notin ExecutePCs /\ ~Broken
  BY SlotIsAtRest DEF Control
<1>2. ~Broken' /\ wpc # "signal"
  BY <1>1 DEF Broken, ExecutePCs
<1>3. job.operation \in {"Begin", "Append"}
  BY DEF Control, TypeOK, Jobs, Operations, FinalOperations
<1>4. wpc \notin {"reset_allocator", "reset_list", "replay", "close", "execute", "store_result", "publish"}
  BY <1>1 DEF ExecutePCs
<1>5. InBatch /\ InBatch'
  BY <1>3, <1>4 DEF InBatch
<1>6. ListPending /\ ~StreamPending
  BY <1>3, <1>4 DEF ListPending, StreamPending
<1>7. ListPending' /\ StreamPending'
  BY DEF ListPending, StreamPending
<1>8. Pending = list.commands /\ Pending' = list.commands \o source
  <2>1. Pending = list.commands
    BY <1>6, PendingIs DEF Control
  <2> QED BY <1>7, <2>1 DEF Pending
<1>9. Held = source /\ Held' = <<>>
  BY DEF Held
<1>10. PlainStep
  BY <1>2 DEF PlainStep, Holding, Control, TypeOK
<1> QED BY <1>1, <1>2, <1>5, <1>8, <1>9, <1>10 DEF ExtendsBatch

LEMMA AppendExtends ==
  ASSUME Control, CallTryAppendChunk, CanAppend
  PROVE  ExtendsBatch
<1>1. /\ job' = [ReapedJob EXCEPT !.operation = "Append"] /\ session_active' = ReapedSession
      /\ ReapedJob \in Jobs /\ ~Failed(result) /\ state' = "Queued"
      /\ UNCHANGED <<result, list, wpc, whr, queue, value, used, gpu, recorded>>
      /\ cpc = "ready" /\ cpc' = "notify" /\ stream' = source
      /\ ReapedSession /\ ReapedState = "Idle"
  BY ReapedShape DEF CallTryAppendChunk, TryAppendChunk, CanAppend, SlotOpen, Control, SwapStorage, TypeOK
<1>2. session_active /\ session_active' /\ ~ReapingFinal
  BY <1>1 DEF ReapedSession
<1>3. state \in {"Idle", "Complete"} /\ job.operation \notin FinalOperations
  <2>1. state \in {"Idle", "Complete"}
    BY <1>1 DEF ReapedState, Reaping
  <2>2. state = "Idle" => job.operation \in {"Begin", "Append"}
    BY <1>2 DEF Control, JobInv
  <2> QED BY <1>2, <2>1, <2>2 DEF ReapingFinal, Reaping, FinalOperations
<1>4. job' = [job EXCEPT !.operation = "Append"] /\ job \in Jobs
  BY <1>1, <1>2 DEF ReapedJob, Control, TypeOK
<1>5. /\ job'.operation = "Append" /\ job'.allocator = job.allocator
      /\ job'.fence_value = job.fence_value
  BY <1>4 DEF Jobs
<1> QED BY <1>1, <1>2, <1>3, <1>5, TakeExtends

LEMMA FinishExtends ==
  ASSUME Control, CallFinishChunks
  PROVE  ExtendsBatch
<1>1. /\ job' = [job EXCEPT !.operation = "Finish"] /\ session_active' = session_active
      /\ state = "Idle" /\ state' = "Queued" /\ session_active /\ ~Failed(result)
      /\ UNCHANGED <<result, list, wpc, whr, queue, value, used, gpu, recorded>>
      /\ cpc = "ready" /\ cpc' = "notify" /\ stream' = source /\ job \in Jobs
  BY DEF CallFinishChunks, FinishChunks, CanFinish, SlotOpen, SwapStorage, Control, TypeOK
<1>2. /\ job'.operation = "Finish" /\ job'.allocator = job.allocator
      /\ job'.fence_value = job.fence_value
  BY <1>1 DEF Jobs
<1>3. job.operation \notin FinalOperations
  BY <1>1 DEF Control, JobInv, FinalOperations
<1> QED BY <1>1, <1>2, <1>3, TakeExtends

(* Submit and BeginChunks: a batch of a new value. *)
OpensBatch ==
  /\ ~Broken /\ ~Broken' /\ ~InBatch /\ InBatch' /\ wpc # "signal" /\ wpc' # "signal"
  /\ queue' = queue /\ gpu' = gpu
  /\ job'.allocator \in Allocators /\ job'.fence_value = value + 1 /\ value' = value + 1
  /\ Completed(used[job'.allocator])
  /\ used' = [used EXCEPT ![job'.allocator] = value + 1]
  /\ Pending = <<>> /\ Pending' = Held /\ Held' = <<>> /\ recorded' = recorded

LEMMA StartOpens ==
  ASSUME Control, NEW a \in Allocators, NEW chunks \in BOOLEAN, CallStart(a, chunks)
  PROVE  OpensBatch
<1>1. /\ state = "Idle" /\ state' = "Queued" /\ ~session_active /\ session_active' = chunks
      /\ ~Failed(result) /\ value' = value + 1 /\ Completed(used[a])
      /\ used' = [used EXCEPT ![a] = value + 1]
      /\ job'.fence_value = value + 1 /\ job'.allocator = a
      /\ job'.operation = IF chunks THEN "Begin" ELSE "Whole"
      /\ stream' = source /\ cpc = "ready" /\ cpc' = "notify"
      /\ UNCHANGED <<result, wpc, whr, queue, gpu, recorded, list>>
  BY DEF CallStart, Start, CanStart, SlotOpen, SwapStorage
<1>2. wpc \notin ExecutePCs /\ ~Broken
  BY <1>1, SlotIsAtRest DEF Control
<1>3. /\ wpc \notin {"reset_allocator", "reset_list", "replay", "close", "execute", "signal", "store_result"}
      /\ wpc \notin ExecutePCs \ {"store_result", "publish"}
  BY <1>2 DEF ExecutePCs
<1>4. ~Broken' /\ wpc # "signal"
  BY <1>1, <1>3 DEF Broken
<1>5. ~InBatch
  BY <1>1, <1>3 DEF InBatch
<1>6. InBatch'
  <2>1. CASE chunks
    BY <1>1, <2>1 DEF InBatch
  <2>2. CASE ~chunks
    BY <1>1, <2>2 DEF InBatch
  <2> QED BY <2>1, <2>2
<1>7. ~ListPending /\ ~StreamPending
  BY <1>1, <1>3 DEF ListPending, StreamPending
<1>8. ~ListPending' /\ StreamPending'
  <2>1. job'.operation \notin {"Append", "Finish"} /\ StreamPending'
    BY <1>1 DEF StreamPending
  <2> QED BY <1>1, <1>3, <2>1 DEF ListPending
<1>9. Pending = <<>>
  BY <1>7, PendingIs DEF Control
<1>10. Pending' = source
  <2>1. Pending' = <<>> \o source
    BY <1>1, <1>8 DEF Pending
  <2>2. source \in Seq(1 .. recorded)
    BY DEF Control, TypeOK, Commands
  <2> QED BY <2>1, <2>2, ConcatEmptySeq
<1>11. Held = source /\ Held' = <<>>
  BY <1>1 DEF Held
<1> QED BY <1>1, <1>2, <1>4, <1>5, <1>6, <1>9, <1>10, <1>11 DEF OpensBatch

LEMMA OthersKeep ==
  ASSUME Control, CpContinue \/ GpuStep \/ WakeStep \/ UNCHANGED vars
  PROVE  KeepsBatch /\ KeepsHeld
<1>1. gpu \in Nat /\ gpu + 1 \in Nat /\ gpu <= gpu /\ gpu <= gpu + 1
  <2>1. gpu \in Nat
    BY DEF Control, TypeOK
  <2> QED BY <2>1
<1>2. CASE Wait /\ WaitReturn
  <2>1. /\ ReapCompleted /\ UNCHANGED <<result, list, stream, source, wpc, whr, queue, value, used, gpu, recorded>>
        /\ cpc # "notify" /\ cpc' # "notify"
    BY <1>2 DEF Wait, WaitReturn
  <2> QED BY <2>1, ReapKeeps
<1>3. CASE Notify
  <2>1. /\ UNCHANGED <<state, session_active, job, result, wpc, whr, queue, value, used, list, stream, gpu, recorded>>
        /\ cpc = "notify" /\ cpc' = "ready" /\ source' = <<>>
    BY <1>3 DEF Notify
  <2> QED BY <1>1, <2>1, SameJobKeeps DEF Control, KeepsHeld, Held
<1>4. CASE GpuStep
  <2>1. /\ UNCHANGED <<state, session_active, job, result, wpc, whr, queue, value, used, list, stream, source, cpc, recorded>>
        /\ gpu' = gpu + 1
    BY <1>4 DEF GpuStep, workerVars
  <2> QED BY <1>1, <2>1, SameJobKeeps DEF Control, KeepsHeld, Held
<1>5. CASE ~(Wait /\ WaitReturn) /\ ~Notify /\ ~GpuStep
  <2>1. UNCHANGED <<state, session_active, job, result, wpc, whr, queue, value, used, list, stream, source, gpu, recorded>>
    <3>1. CASE CpContinue
      BY <1>5, <3>1 DEF CpContinue, Wait, WaitBlock, WaitWoken, Stop, RequestStop, NotifyStop, Join, workerVars
    <3>2. CASE WakeStep
      BY <3>2 DEF WakeStep, SpuriousWakeup, cpVars
    <3>3. CASE UNCHANGED vars
      BY <3>3 DEF vars, workerVars, cpVars
    <3> QED BY <1>5, <3>1, <3>2, <3>3
  <2>2. cpc' = cpc \/ (cpc' # "notify" /\ cpc # "notify")
    <3>1. CASE CpContinue
      BY <1>5, <3>1 DEF CpContinue, Wait, WaitBlock, WaitWoken, Stop, RequestStop, NotifyStop, Join
    <3>2. CASE WakeStep
      <4>1. cpc' = cpc
        BY <3>2 DEF WakeStep, cpVars
      <4> QED BY <4>1
    <3>3. CASE UNCHANGED vars
      <4>1. cpc' = cpc
        BY <3>3 DEF vars, cpVars
      <4> QED BY <4>1
    <3> QED BY <1>5, <3>1, <3>2, <3>3
  <2>3. KeepsHeld
    BY <2>1, <2>2 DEF KeepsHeld, Held
  <2> QED BY <1>1, <2>1, <2>3, SameJobKeeps DEF Control
<1> QED BY <1>2, <1>3, <1>4, <1>5

(* What every step of ExecuteJob finds and leaves alone. *)
LEMMA ExecutingJob ==
  ASSUME Control, ExecuteJob, UNCHANGED cpVars
  PROVE  /\ UNCHANGED <<state, session_active, job, result, stream, source, cpc, recorded, value, used, gpu>>
         /\ state = "Running" /\ ~Failed(result) /\ InBatch
         /\ job.allocator \in Allocators
         /\ (session_active <=> job.operation # "Whole")
         /\ gpu \in Nat /\ gpu <= gpu
<1>1. wpc \in ExecutePCs \ {"store_result", "publish"}
  BY DEF ExecuteJob, ResetAllocator, ResetList, Replay, Close, Execute, Signal, ExecutePCs
<1>2. UNCHANGED <<state, session_active, job, result, stream, source>>
  BY DEF ExecuteJob, ResetAllocator, ResetList, Replay, Close, Execute, Signal, slotVars
<1>3. state = "Running" /\ ~Failed(result) /\ job.allocator \in Allocators
  BY <1>1 DEF Control, SlotInv, SlotOwned, LatchSettled, TypeOK
<1>4. session_active <=> job.operation # "Whole"
  BY <1>3 DEF Control, JobInv
<1>5. InBatch
  <2>1. wpc \notin {"store_result", "publish"} /\ state # "Complete"
    BY <1>1, <1>3
  <2> QED BY <1>1, <1>4, <2>1 DEF InBatch
<1> QED BY <1>2, <1>3, <1>4, <1>5 DEF cpVars, Control, TypeOK

LEMMA FailingBreaks ==
  ASSUME Control, ExecuteJob, UNCHANGED cpVars, queue' = queue,
         wpc' = "store_result", Failed(whr')
  PROVE  BreaksBatch
<1>1. wpc \in ExecutePCs \ {"store_result", "publish"}
  BY DEF ExecuteJob, ResetAllocator, ResetList, Replay, Close, Execute, Signal, ExecutePCs
<1>2. ~Broken /\ Broken'
  BY <1>1, ExecutingJob DEF Broken
<1>3. PlainStep
  BY <1>1, ExecutingJob DEF PlainStep, Holding
<1>4. KeepsHeld
  BY ExecutingJob DEF KeepsHeld, Held
<1> QED BY <1>2, <1>3, <1>4, ExecutingJob DEF BreaksBatch

(* A call that succeeds before the list is executed. *)
LEMMA SucceedingKeeps ==
  ASSUME Control, ExecuteJob, UNCHANGED cpVars, queue' = queue, wpc # "signal",
         \/ wpc' \in ExecutePCs \ {"signal", "store_result", "publish"}
         \/ wpc' = "store_result" /\ ~Failed(whr') /\ job.operation \notin FinalOperations,
         Pending' = Pending
  PROVE  KeepsBatch /\ KeepsHeld
<1>1. wpc \in ExecutePCs \ {"store_result", "publish"} /\ wpc \in ExecutePCs
  BY DEF ExecuteJob, ResetAllocator, ResetList, Replay, Close, Execute, Signal, ExecutePCs
<1>2. ~Broken /\ ~Broken' /\ wpc' # "signal" /\ wpc' \in ExecutePCs
  BY <1>1, ExecutingJob DEF Broken, ExecutePCs
<1>3. PlainStep
  BY <1>1, <1>2, ExecutingJob DEF PlainStep, Holding
<1>4. KeepsHeld
  BY ExecutingJob DEF KeepsHeld, Held
<1>5. InBatch'
  <2>1. CASE wpc' \in ExecutePCs \ {"signal", "store_result", "publish"}
    <3>1. wpc' \notin {"store_result", "publish"} /\ wpc' \in ExecutePCs \ {"store_result", "publish"}
      BY <2>1
    <3> QED BY <3>1, ExecutingJob DEF InBatch
  <2>2. CASE job.operation \notin FinalOperations
    BY <2>2, ExecutingJob DEF InBatch, FinalOperations
  <2> QED BY <2>1, <2>2
<1> QED BY <1>2, <1>3, <1>4, <1>5, ExecutingJob DEF KeepsBatch

LEMMA PendingOfWorker ==
  ASSUME Control, ExecuteJob, UNCHANGED cpVars
  PROVE  /\ wpc \in {"reset_allocator", "reset_list"} => Pending = stream
         /\ wpc = "replay" => Pending = list.commands \o stream
         /\ wpc \in {"close", "execute"} => Pending = list.commands
         /\ wpc = "signal" => Pending = <<>>
<1>1. /\ state = "Running" /\ (session_active <=> job.operation # "Whole")
      /\ stream \in Seq(1 .. recorded) /\ list.commands \in Seq(1 .. recorded)
      /\ job.operation \in Operations
  BY ExecutingJob DEF Control, TypeOK, Lists, Commands, Jobs
<1>2. CASE wpc \in {"reset_allocator", "reset_list"}
  <2>1. job.operation \in {"Whole", "Begin"}
    BY <1>2 DEF Control, JobInv
  <2>2. ~ListPending /\ StreamPending
    BY <1>1, <1>2, <2>1 DEF ListPending, StreamPending
  <2> QED BY <1>2, <2>2, PendingIs DEF Control
<1>3. CASE wpc = "replay"
  <2>1. StreamPending
    BY <1>3 DEF StreamPending
  <2>2. CASE job.operation \in {"Whole", "Begin"}
    <3>1. list.commands = <<>>
      BY <1>3, <2>2 DEF Control, JobInv
    <3>2. ~ListPending
      BY <1>1, <1>3, <2>1, <2>2 DEF ListPending
    <3> QED BY <1>1, <1>3, <2>1, <3>1, <3>2, PendingIs, ConcatEmptySeq DEF Control
  <2>3. CASE job.operation \in {"Append", "Finish"}
    <3>1. ListPending
      BY <1>1, <1>3, <2>3 DEF ListPending
    <3> QED BY <1>3, <2>1, <3>1, PendingIs DEF Control
  <2> QED BY <1>1, <2>2, <2>3 DEF Operations
<1>4. CASE wpc \in {"close", "execute"}
  <2>1. ListPending /\ ~StreamPending
    BY <1>1, <1>4 DEF ListPending, StreamPending
  <2> QED BY <1>4, <2>1, PendingIs DEF Control
<1>5. CASE wpc = "signal"
  <2>1. job.operation \in FinalOperations
    BY <1>5 DEF Control, JobInv
  <2>2. ~ListPending /\ ~StreamPending
    BY <1>1, <1>5, <2>1 DEF ListPending, StreamPending, FinalOperations
  <2> QED BY <1>5, <2>2, PendingIs DEF Control
<1> QED BY <1>2, <1>3, <1>4, <1>5

LEMMA ResetKeeps ==
  ASSUME Control, ResetAllocator \/ ResetList \/ Close, UNCHANGED cpVars, ~Failed(whr') \/ wpc' # "store_result"
  PROVE  KeepsBatch /\ KeepsHeld
<1>1. ExecuteJob /\ queue' = queue /\ wpc # "signal"
  BY DEF ExecuteJob, ResetAllocator, ResetList, Close
<1>2. /\ state' = "Running" /\ stream' = stream /\ (session_active' <=> job'.operation # "Whole")
      /\ job' = job
  BY <1>1, ExecutingJob
<1>3. CASE ResetAllocator
  <2>1. wpc = "reset_allocator" /\ wpc' = "reset_list"
    BY <1>3 DEF ResetAllocator, Finishes
  <2>2. job'.operation \in {"Whole", "Begin"}
    BY <1>2, <2>1 DEF Control, JobInv
  <2>3. ~ListPending' /\ StreamPending'
    BY <1>2, <2>1, <2>2 DEF ListPending, StreamPending
  <2>4. Pending' = stream
    <3>1. Pending' = <<>> \o stream
      BY <1>2, <2>3 DEF Pending
    <3>2. stream \in Seq(1 .. recorded)
      BY DEF Control, TypeOK, Commands
    <3> QED BY <3>1, <3>2, ConcatEmptySeq
  <2>5. Pending = stream
    BY <1>1, <2>1, PendingOfWorker
  <2>6. wpc' \in ExecutePCs \ {"signal", "store_result", "publish"}
    BY <2>1 DEF ExecutePCs
  <2> QED BY <1>1, <2>4, <2>5, <2>6, SucceedingKeeps
<1>4. CASE ResetList
  <2>1. wpc = "reset_list" /\ wpc' = "replay"
    BY <1>4 DEF ResetList, Finishes
  <2>2. job'.operation \in {"Whole", "Begin"}
    BY <1>2, <2>1 DEF Control, JobInv
  <2>3. ~ListPending' /\ StreamPending'
    BY <1>2, <2>1, <2>2 DEF ListPending, StreamPending
  <2>4. Pending' = stream
    <3>1. Pending' = <<>> \o stream
      BY <1>2, <2>3 DEF Pending
    <3>2. stream \in Seq(1 .. recorded)
      BY DEF Control, TypeOK, Commands
    <3> QED BY <3>1, <3>2, ConcatEmptySeq
  <2>5. Pending = stream
    BY <1>1, <2>1, PendingOfWorker
  <2>6. wpc' \in ExecutePCs \ {"signal", "store_result", "publish"}
    BY <2>1 DEF ExecutePCs
  <2> QED BY <1>1, <2>4, <2>5, <2>6, SucceedingKeeps
<1>5. CASE Close
  <2>1. wpc = "close" /\ wpc' = "execute" /\ list' = [list EXCEPT !.open = FALSE]
    BY <1>5 DEF Close, Finishes
  <2>2. list'.commands = list.commands /\ list.commands \in Seq(1 .. recorded)
    BY <2>1 DEF Control, TypeOK, Lists, Commands
  <2>3. ListPending' /\ ~StreamPending'
    BY <1>2, <2>1 DEF ListPending, StreamPending
  <2>4. Pending' = list.commands
    <3>1. Pending' = list.commands \o <<>>
      BY <2>2, <2>3 DEF Pending
    <3> QED BY <2>2, <3>1, ConcatEmptySeq
  <2>5. Pending = list.commands
    BY <1>1, <2>1, PendingOfWorker
  <2>6. wpc' \in ExecutePCs \ {"signal", "store_result", "publish"}
    BY <2>1 DEF ExecutePCs
  <2> QED BY <1>1, <2>4, <2>5, <2>6, SucceedingKeeps
<1> QED BY <1>3, <1>4, <1>5

LEMMA ReplayKeeps ==
  ASSUME Control, Replay, UNCHANGED cpVars
  PROVE  BreaksBatch \/ (KeepsBatch /\ KeepsHeld)
<1>1. ExecuteJob /\ queue' = queue /\ wpc = "replay"
  BY DEF ExecuteJob, Replay
<1>2. /\ state' = "Running" /\ (session_active' <=> job'.operation # "Whole") /\ job' = job
  BY <1>1, ExecutingJob
<1>3. CASE wpc' = "store_result" /\ Failed(whr')
  BY <1>1, <1>3, FailingBreaks
<1>4. CASE /\ list' = [list EXCEPT !.commands = list.commands \o stream]
           /\ IF job.operation \in {"Begin", "Append"}
              THEN wpc' = "store_result" /\ whr' = "S_OK" ELSE wpc' = "close"
  <2>1. /\ list'.commands = list.commands \o stream
        /\ list.commands \o stream \in Seq(1 .. recorded)
    <3>1. /\ list \in Lists /\ list.commands \in Seq(1 .. recorded) /\ stream \in Seq(1 .. recorded)
      BY DEF Control, TypeOK, Lists, Commands
    <3> QED BY <1>4, <3>1, ConcatProperties DEF Lists
  <2>2. ListPending' /\ ~StreamPending'
    <3>1. ~StreamPending'
      BY <1>2, <1>4 DEF StreamPending
    <3>2. CASE job.operation \in {"Begin", "Append"}
      BY <1>2, <3>1, <3>2 DEF ListPending
    <3>3. CASE wpc' = "close"
      BY <3>1, <3>3 DEF ListPending
    <3> QED BY <1>4, <3>1, <3>2, <3>3
  <2>3. Pending' = list.commands \o stream
    <3>1. Pending' = (list.commands \o stream) \o <<>>
      BY <2>1, <2>2 DEF Pending
    <3> QED BY <2>1, <3>1, ConcatEmptySeq
  <2>4. Pending = list.commands \o stream
    BY <1>1, PendingOfWorker
  <2>5. \/ wpc' \in ExecutePCs \ {"signal", "store_result", "publish"}
        \/ wpc' = "store_result" /\ ~Failed(whr') /\ job.operation \notin FinalOperations
    BY <1>4 DEF ExecutePCs, FinalOperations, Failed
  <2> QED BY <1>1, <2>3, <2>4, <2>5, SucceedingKeeps
<1> QED BY <1>3, <1>4 DEF Replay, Finishes, Failed

(* Execute and a Signal that succeeds are the steps that reach the queue.  *)
ExecutesBatch ==
  /\ Execute /\ UNCHANGED <<value, used, gpu>>
  /\ ~Broken /\ ~Broken' /\ InBatch /\ InBatch'
  /\ queue' = Append(queue, ExecuteEntry(Pending, job.allocator))
  /\ wpc = "execute" /\ wpc' = "signal" /\ UNCHANGED <<job, list>>
  /\ job.operation \in FinalOperations
  /\ Pending = list.commands /\ Pending' = <<>> /\ KeepsHeld

SignalsBatch ==
  /\ Signal /\ queue' # queue /\ UNCHANGED <<value, used, gpu>>
  /\ ~Broken /\ ~Broken' /\ InBatch /\ ~InBatch'
  /\ queue' = Append(queue, SignalEntry(job.fence_value))
  /\ wpc = "signal" /\ wpc' # "signal" /\ job' = job
  /\ Pending = <<>> /\ Pending' = <<>> /\ KeepsHeld

LEMMA ExecuteReaches ==
  ASSUME Control, Execute, UNCHANGED cpVars
  PROVE  ExecutesBatch
<1>1. /\ ExecuteJob /\ wpc = "execute" /\ wpc' = "signal"
      /\ queue' = Append(queue, ExecuteEntry(list.commands, list.allocator))
      /\ UNCHANGED <<list, whr>>
  BY DEF ExecuteJob, Execute
<1>2. ~Broken /\ ~Broken'
  BY <1>1, ExecutingJob DEF Broken
<1>3. list.allocator = job.allocator /\ job.operation \in FinalOperations
  BY <1>1 DEF Control, ListInv, JobInv
<1>4. InBatch'
  BY <1>1, ExecutingJob DEF InBatch, ExecutePCs
<1>5. Pending = list.commands
  BY <1>1, PendingOfWorker
<1>6. Pending' = <<>>
  <2>1. ~ListPending' /\ ~StreamPending'
    BY <1>1, <1>3, ExecutingJob DEF ListPending, StreamPending, FinalOperations
  <2>2. <<>> \o <<>> = <<>>
    OBVIOUS
  <2> QED BY <2>1, <2>2 DEF Pending
<1>7. KeepsHeld
  BY <1>1, ExecutingJob DEF KeepsHeld, Held
<1> QED BY <1>1, <1>2, <1>3, <1>4, <1>5, <1>6, <1>7, ExecutingJob DEF ExecutesBatch

LEMMA SignalReaches ==
  ASSUME Control, Signal, UNCHANGED cpVars
  PROVE  SignalsBatch \/ BreaksBatch
<1>1. /\ ExecuteJob /\ wpc = "signal" /\ wpc' = "store_result"
      /\ queue' = IF Failed(whr') THEN queue ELSE Append(queue, SignalEntry(job.fence_value))
  BY DEF ExecuteJob, Signal, Finishes
<1>2. CASE Failed(whr')
  BY <1>1, <1>2, FailingBreaks
<1>3. CASE ~Failed(whr')
  <2>1. ~Broken /\ ~Broken'
    BY <1>1, <1>3, ExecutingJob DEF Broken
  <2>2. job.operation \in FinalOperations
    BY <1>1 DEF Control, JobInv
  <2>3. ~InBatch'
    <3>1. wpc' \notin ExecutePCs \ {"store_result", "publish"} /\ state' # "Queued"
      BY <1>1, ExecutingJob
    <3> QED BY <1>1, <2>2, <3>1, ExecutingJob DEF InBatch, FinalOperations
  <2>4. Pending = <<>>
    BY <1>1, PendingOfWorker
  <2>5. Pending' = <<>>
    <3>1. ~ListPending' /\ ~StreamPending'
      BY <1>1, <2>2, ExecutingJob DEF ListPending, StreamPending, FinalOperations
    <3>2. <<>> \o <<>> = <<>>
      OBVIOUS
    <3> QED BY <3>1, <3>2 DEF Pending
  <2>6. KeepsHeld
    BY <1>1, ExecutingJob DEF KeepsHeld, Held
  <2>7. queue' # queue
    <3>1. queue \in Seq(Entries)
      BY DEF Control, TypeOK
    <3>2. Len(queue') = Len(queue) + 1 /\ Len(queue) \in Nat
      BY <1>1, <1>3, <3>1
    <3> QED BY <3>2
  <2> QED BY <1>1, <1>3, <2>1, <2>3, <2>4, <2>5, <2>6, <2>7, ExecutingJob DEF SignalsBatch
<1> QED BY <1>2, <1>3

LEMMA RunKeeps ==
  ASSUME Control, RunAcquire \/ RunWoken \/ StoreResult \/ Publish, UNCHANGED cpVars
  PROVE  KeepsBatch /\ KeepsHeld
<1>1. /\ UNCHANGED <<session_active, list, stream, source, queue, cpc, recorded, value, used, gpu>>
      /\ gpu \in Nat /\ gpu <= gpu /\ job \in Jobs /\ state \in States
      /\ session_active \in BOOLEAN
  BY DEF RunAcquire, RunWoken, StoreResult, Publish, slotVars, cpVars, Control, TypeOK
<1>2. KeepsHeld
  BY <1>1 DEF KeepsHeld, Held
<1>3. CASE RunAcquire \/ RunWoken
  <2>1. UNCHANGED <<job, result, whr>> /\ wpc \in {"lock", "waiting"} /\ wpc' # "signal" /\ wpc' # "store_result"
    BY <1>3 DEF RunAcquire, RunWoken, slotVars
  <2>2. CASE state' = state /\ wpc' \in {"lock", "waiting", "exited"}
    <3>1. InBatch' <=> InBatch
      BY <1>1, <2>1, <2>2 DEF InBatch, ExecutePCs
    <3>2. (ListPending' <=> ListPending) /\ (StreamPending' <=> StreamPending)
      BY <1>1, <2>1, <2>2 DEF ListPending, StreamPending
    <3>3. Pending' = Pending
      BY <1>1, <3>2 DEF Pending
    <3>4. (Broken' <=> Broken) /\ (Holding' <=> Holding)
      BY <1>1, <2>1, <2>2 DEF Broken, Holding, ExecutePCs
    <3>5. PlainStep
      BY <1>1, <2>1, <3>4 DEF PlainStep
    <3> QED BY <1>2, <2>1, <3>1, <3>3, <3>4, <3>5 DEF KeepsBatch
  <2>3. CASE /\ state = "Queued" /\ state' = "Running"
             /\ wpc' = IF job.operation \in {"Whole", "Begin"} THEN "reset_allocator" ELSE "replay"
    <3>0. session_active <=> job.operation # "Whole"
      BY <2>3 DEF Control, JobInv
    <3>1. InBatch /\ InBatch'
      <4>1. wpc' \in ExecutePCs \ {"store_result", "publish"} /\ wpc' \notin {"store_result", "publish"}
        BY <2>3 DEF ExecutePCs
      <4> QED BY <1>1, <2>1, <2>3, <3>0, <4>1 DEF InBatch
    <3>2. StreamPending /\ StreamPending'
      BY <2>3 DEF StreamPending
    <3>3. ListPending' <=> ListPending
      <4>1. CASE job.operation \in {"Whole", "Begin"}
        BY <2>1, <2>3, <3>2, <4>1 DEF ListPending
      <4>2. CASE job.operation \in {"Append", "Finish"}
        BY <1>1, <2>1, <2>3, <3>0, <4>2 DEF ListPending
      <4> QED BY <1>1, <4>1, <4>2 DEF Jobs, Operations
    <3>4. Pending' = Pending
      BY <1>1, <3>2, <3>3 DEF Pending
    <3>5. (Broken' <=> Broken) /\ Holding
      BY <1>1, <2>1, <2>3 DEF Broken, Holding
    <3>6. PlainStep
      BY <1>1, <2>1, <3>5 DEF PlainStep
    <3> QED BY <1>2, <2>1, <3>1, <3>4, <3>5, <3>6 DEF KeepsBatch
  <2> QED BY <1>3, <2>2, <2>3 DEF RunAcquire, RunWoken, slotVars
<1>4. CASE StoreResult
  <2>1. /\ UNCHANGED <<state, job, whr>> /\ wpc = "store_result" /\ wpc' = "publish"
        /\ result' = IF Failed(whr) THEN whr ELSE result
    BY <1>4 DEF StoreResult
  <2>2. Broken' <=> Broken
    BY <2>1 DEF Broken
  <2>3. (InBatch' <=> InBatch) /\ Holding
    <3>1. wpc \in {"store_result", "publish"} /\ wpc' \in {"store_result", "publish"}
      BY <2>1
    <3> QED BY <1>1, <2>1, <3>1 DEF InBatch, Holding, ExecutePCs
  <2>4. (ListPending' <=> ListPending) /\ (StreamPending' <=> StreamPending)
    BY <1>1, <2>1 DEF ListPending, StreamPending
  <2>5. Pending' = Pending
    BY <1>1, <2>4 DEF Pending
  <2>6. PlainStep
    BY <1>1, <2>1, <2>3 DEF PlainStep
  <2> QED BY <1>2, <2>1, <2>2, <2>3, <2>5, <2>6 DEF KeepsBatch
<1>5. CASE Publish
  <2>1. /\ UNCHANGED result /\ wpc = "publish" /\ wpc' \in {"exited", "waiting"}
        /\ state' = "Complete" /\ job' = [job EXCEPT !.result = whr]
    BY <1>5 DEF Publish
  <2>2. /\ job'.operation = job.operation /\ job'.allocator = job.allocator
        /\ job'.fence_value = job.fence_value
    BY <1>1, <2>1 DEF Jobs
  <2>3. Broken' <=> Broken
    BY <2>1 DEF Broken
  <2>4. state = "Running"
    BY <2>1 DEF Control, SlotInv, SlotOwned, ExecutePCs
  <2>5. (InBatch' <=> InBatch) /\ Holding
    BY <1>1, <2>1, <2>2, <2>4 DEF InBatch, Holding, ExecutePCs
  <2>6. (ListPending' <=> ListPending) /\ (StreamPending' <=> StreamPending)
    BY <1>1, <2>1, <2>2, <2>4 DEF ListPending, StreamPending
  <2>7. Pending' = Pending
    BY <1>1, <2>6 DEF Pending
  <2>8. PlainStep
    BY <1>1, <2>1, <2>2, <2>5 DEF PlainStep
  <2> QED BY <1>2, <2>1, <2>2, <2>3, <2>5, <2>7, <2>8 DEF KeepsBatch
<1> QED BY <1>3, <1>4, <1>5

(* Every step of the client is of one of these kinds. *)
LEMMA StepKinds ==
  ASSUME Control, [Next]_vars
  PROVE  \/ KeepsBatch /\ KeepsHeld
         \/ KeepsBatch /\ Held' = Append(Held, recorded + 1) /\ recorded' = recorded + 1
         \/ BreaksBatch
         \/ ExtendsBatch
         \/ OpensBatch
         \/ ExecutesBatch
         \/ SignalsBatch
<1>1. CASE Record
  BY <1>1, RecordKeeps DEF Control
<1>2. ASSUME NEW a \in Allocators, NEW chunks \in BOOLEAN, CallStart(a, chunks)
      PROVE  OpensBatch
  BY <1>2, StartOpens
<1>3. CASE CallReadyForChunk \/ (CallTryAppendChunk /\ ~CanAppend)
  <2>1. /\ ReapCompleted
        /\ UNCHANGED <<result, list, stream, source, wpc, whr, queue, value, used, gpu, recorded>>
        /\ cpc # "notify" /\ cpc' # "notify"
    BY <1>3 DEF CallReadyForChunk, CallTryAppendChunk, TryAppendChunk, cpVars
  <2> QED BY <2>1, ReapKeeps
<1>4. CASE CallTryAppendChunk /\ CanAppend
  BY <1>4, AppendExtends
<1>5. CASE CallFinishChunks
  BY <1>5, FinishExtends
<1>6. ASSUME NEW destroying \in BOOLEAN, CallWait(destroying)
      PROVE  KeepsBatch /\ KeepsHeld
  <2>1. /\ UNCHANGED <<state, session_active, job, result, wpc, whr, queue, value, used, list, stream, source, gpu, recorded>>
        /\ cpc = "ready" /\ cpc' = "wait"
    BY <1>6 DEF CallWait, workerVars
  <2>2. gpu \in Nat /\ gpu <= gpu
    BY DEF Control, TypeOK
  <2> QED BY <2>1, <2>2, SameJobKeeps DEF Control, KeepsHeld, Held
<1>7. CASE CpContinue \/ GpuStep \/ WakeStep \/ UNCHANGED vars
  BY <1>7, OthersKeep
<1>8. CASE WorkerStep
  <2>1. UNCHANGED cpVars /\ WorkerNext
    BY <1>8 DEF WorkerStep
  <2>2. CASE RunAcquire \/ RunWoken \/ StoreResult \/ Publish
    BY <2>1, <2>2, RunKeeps
  <2>3. CASE ResetAllocator \/ ResetList \/ Close
    <3>1. CASE wpc' = "store_result" /\ Failed(whr')
      <4>1. ExecuteJob /\ queue' = queue
        BY <2>3 DEF ExecuteJob, ResetAllocator, ResetList, Close
      <4> QED BY <2>1, <3>1, <4>1, FailingBreaks
    <3>2. CASE wpc' # "store_result" \/ ~Failed(whr')
      BY <2>1, <2>3, <3>2, ResetKeeps
    <3> QED BY <3>1, <3>2
  <2>4. CASE Replay
    BY <2>1, <2>4, ReplayKeeps
  <2>5. CASE Execute
    BY <2>1, <2>5, ExecuteReaches
  <2>6. CASE Signal
    BY <2>1, <2>6, SignalReaches
  <2> QED BY <2>1, <2>2, <2>3, <2>4, <2>5, <2>6 DEF WorkerNext, ExecuteJob
<1> QED BY <1>1, <1>2, <1>3, <1>4, <1>5, <1>6, <1>7, <1>8 DEF Next, CpCall

LEMMA StartKeepsValues ==
  ASSUME Control, TypeOK', ValueInv, OpensBatch
  PROVE  ValueInv' /\ IdleInv'
<1> DEFINE a == job'.allocator
<1>1. /\ value' = value + 1 /\ Completed(used[a]) /\ a \in Allocators
      /\ used' = [used EXCEPT ![a] = value + 1]
      /\ job'.fence_value = value + 1 /\ job'.allocator = a
      /\ UNCHANGED <<queue, gpu>>
  BY DEF OpensBatch
<1>2. ~Broken /\ ~Broken' /\ wpc # "signal" /\ wpc' # "signal"
  BY DEF OpensBatch
<1> HIDE DEF a
<1>3. TypeOK /\ used \in [Allocators -> 0 .. MaxValue]
  BY DEF Control, TypeOK
<1>4. /\ Len(queue) \in Nat /\ value \in Nat
      /\ \A i \in 1 .. Len(queue) : queue[i].value \in Nat
      /\ \A b \in Allocators : used[b] \in Nat
  BY <1>3, EntryTypes
<1>5. used'[a] = value + 1 /\ \A b \in Allocators : b # a => used'[b] = used[b]
  BY <1>1, <1>3
<1>6. ASSUME NEW i \in 1 .. Len(queue), IsSignal(i)
      PROVE  queue[i].value <= value + 1 /\ queue[i].value < value + 1
  BY <1>4, <1>6 DEF ValueInv
<1>7. ASSUME NEW i \in 1 .. Len(queue), queue[i].kind = "execute"
      PROVE  i < Len(queue) /\ IsSignal(i + 1) /\ queue[i + 1].value <= used'[queue[i].allocator]
  <2>1. i < Len(queue) /\ IsSignal(i + 1) /\ queue[i + 1].value <= used[queue[i].allocator]
    BY <1>2, <1>7 DEF ValueInv
  <2>2. i + 1 \in 1 .. Len(queue)
    BY <1>4, <2>1
  <2> QED BY <1>4, <1>5, <1>6, <1>7, <2>1, <2>2 DEF ValueInv
<1>8. ValueInv'
  BY <1>1, <1>2, <1>4, <1>5, <1>6, <1>7 DEF ValueInv, IsSignal
<1>9. IdleInv'
  BY <1>1, <1>2, <1>3, CompletedIsIdle DEF IdleInv
<1> QED BY <1>8, <1>9

LEMMA ValuesInit == Init => ValueInv /\ IdleInv
<1> SUFFICES ASSUME Init PROVE ValueInv /\ IdleInv
  OBVIOUS
<1>1. /\ queue = <<>> /\ gpu = 0 /\ wpc = "lock" /\ state = "Idle" /\ session_active = FALSE
      /\ job.fence_value = 0 /\ value = 0 /\ Len(queue) = 0
  BY DEF Init, WorkerInit, EmptyJob
<1>2. ~Holding
  BY <1>1 DEF Holding, ExecutePCs
<1>3. \A i \in 1 .. Len(queue) : FALSE
  BY <1>1
<1>4. \A i \in gpu + 1 .. Len(queue) : FALSE
  BY <1>1
<1>5. ValueInv
  BY <1>1, <1>2, <1>3 DEF ValueInv
<1> QED BY <1>4, <1>5 DEF IdleInv

LEMMA ValuesStep ==
  ASSUME Control, Control', ValueInv, IdleInv, [Next]_vars
  PROVE  ValueInv' /\ IdleInv'
<1>1. TypeOK'
  BY DEF Control
<1>2. CASE KeepsBatch \/ BreaksBatch \/ ExtendsBatch
  <2>1. Quiet
    BY <1>2 DEF Quiet, KeepsBatch, BreaksBatch, ExtendsBatch, PlainStep
  <2> QED BY <1>1, <2>1, QuietKeeps
<1>3. CASE OpensBatch
  BY <1>1, <1>3, StartKeepsValues
<1>4. CASE ExecutesBatch
  BY <1>1, <1>4, ExecuteKeepsValues DEF ExecutesBatch
<1>5. CASE SignalsBatch
  BY <1>1, <1>5, SignalKeepsValues DEF SignalsBatch
<1> QED BY <1>2, <1>3, <1>4, <1>5, StepKinds

LEMMA Valued == Spec => [](Control /\ ValueInv /\ IdleInv)
<1>1. Init => Control /\ ValueInv /\ IdleInv
  BY ControlInit, ValuesInit
<1>2. Control /\ ValueInv /\ IdleInv /\ [Next]_vars => (Control /\ ValueInv /\ IdleInv)'
  BY ControlStep, ValuesStep
<1> QED BY <1>1, <1>2, PTL DEF Spec

(* In the batch ExecuteJob resets and fills, no entry the GPU still has to *)
(* execute was recorded from the allocator of the job.                     *)
LEMMA IdleImpliesAllocatorIsIdle == Control /\ IdleInv => AllocatorIsIdle
<1> SUFFICES ASSUME Control, IdleInv, wpc \in {"reset_allocator", "reset_list", "replay", "close"},
                    NEW e \in GpuPending
             PROVE  e.allocator # job.allocator
  BY DEF AllocatorIsIdle
<1>1. wpc \in ExecutePCs \ {"store_result", "publish"} /\ wpc # "signal" /\ wpc # "store_result"
  BY DEF ExecutePCs
<1>2. state = "Running" /\ ~Failed(result)
  BY <1>1 DEF Control, SlotInv, SlotOwned, LatchSettled
<1>3. session_active <=> job.operation # "Whole"
  BY <1>2 DEF Control, JobInv
<1>4. InBatch /\ ~Broken
  <2>1. wpc \notin {"store_result", "publish"} /\ state # "Complete"
    BY <1>1, <1>2
  <2> QED BY <1>1, <1>2, <1>3, <2>1 DEF InBatch, Broken
<1> QED BY <1>1, <1>4 DEF IdleInv, GpuPending

-----------------------------------------------------------------------------
(* FlattenSeq is defined by a recursive function chosen for its equation:  *)
(* it exists and is unique because a set of numbers has a least element.   *)

LEMMA LeastOfNaturals ==
  ASSUME NEW S \in SUBSET Nat, S # {}
  PROVE  \E x \in S : \A y \in S : x <= y
<1> DEFINE Less == {ss \in Nat \X Nat : ss[1] < ss[2]}
<1>1. IsWellFoundedOn(Less, Nat)
  BY NatLessThanWellFounded, Zenon DEF OpToRel
<1>2. PICK x \in S : \A y \in S : ~(<<y, x>> \in Less)
  BY <1>1, WFMin
<1>3. ASSUME NEW y \in S PROVE x <= y
  <2>1. <<y, x>> \in Nat \X Nat /\ ~(<<y, x>> \in Less)
    BY <1>2
  <2>2. ~(y < x)
    BY <2>1
  <2> QED BY <2>2
<1> QED BY <1>3

(* The concatenations of the first sequences of s. *)
Flattens(f, s, n) == f = [i \in 1 .. n |-> IF i = 1 THEN s[i] ELSE f[i - 1] \o s[i]]

LEMMA FlattensExists ==
  ASSUME NEW s, NEW n \in Nat
  PROVE  \E f : Flattens(f, s, n)
<1> DEFINE Without == {m \in Nat : ~\E f : Flattens(f, s, m)}
<1> SUFFICES ASSUME Without # {} PROVE FALSE
  OBVIOUS
<1>1. PICK m \in Without : \A k \in Without : m <= k
  <2>1. Without \in SUBSET Nat
    OBVIOUS
  <2> HIDE DEF Without
  <2> QED BY <2>1, LeastOfNaturals
<1>2. m # 0
  <2>1. Flattens([i \in 1 .. 0 |-> {}], s, 0)
    BY DEF Flattens
  <2> QED BY <1>1, <2>1
<1>3. m - 1 \in Nat /\ m - 1 \notin Without
  BY <1>1, <1>2
<1>4. PICK f : Flattens(f, s, m - 1)
  BY <1>3
<1> DEFINE g == [i \in 1 .. m |-> IF i < m THEN f[i]
                                  ELSE IF m = 1 THEN s[m] ELSE f[m - 1] \o s[m]]
<1>5. ASSUME NEW i \in 1 .. m PROVE g[i] = IF i = 1 THEN s[i] ELSE g[i - 1] \o s[i]
  <2>1. CASE i < m
    <3>1. i \in 1 .. m - 1 /\ g[i] = f[i] /\ (i # 1 => i - 1 \in 1 .. m /\ i - 1 < m)
      BY <1>3, <2>1
    <3>2. f[i] = IF i = 1 THEN s[i] ELSE f[i - 1] \o s[i]
      BY <1>4, <3>1 DEF Flattens
    <3>3. i # 1 => g[i - 1] = f[i - 1]
      BY <3>1
    <3> HIDE DEF g
    <3> QED BY <3>1, <3>2, <3>3
  <2>2. CASE i = m
    <3>1. g[i] = IF m = 1 THEN s[m] ELSE f[m - 1] \o s[m]
      BY <2>2, <1>1
    <3>2. m # 1 => m - 1 \in 1 .. m /\ m - 1 < m
      BY <1>2, <1>1
    <3>3. m # 1 => g[m - 1] = f[m - 1]
      BY <3>2
    <3> HIDE DEF g
    <3> QED BY <2>2, <3>1, <3>3
  <2> QED BY <1>1, <2>1, <2>2
<1>6. Flattens(g, s, m)
  <2>1. g = [i \in 1 .. m |-> g[i]]
    OBVIOUS
  <2> HIDE DEF g
  <2> QED BY <1>5, <2>1 DEF Flattens
<1> QED BY <1>1, <1>6

LEMMA FlattensUnique ==
  ASSUME NEW s, NEW t, NEW f, NEW g, NEW n \in Nat, NEW m \in Nat, m <= n,
         Flattens(f, s, m), Flattens(g, t, n), \A i \in 1 .. m : s[i] = t[i]
  PROVE  \A i \in 1 .. m : f[i] = g[i]
<1> DEFINE Differ == {i \in 1 .. m : f[i] # g[i]}
<1> SUFFICES ASSUME Differ # {} PROVE FALSE
  OBVIOUS
<1>1. PICK i \in Differ : \A k \in Differ : i <= k
  <2>1. Differ \in SUBSET Nat
    OBVIOUS
  <2> HIDE DEF Differ
  <2> QED BY <2>1, LeastOfNaturals
<1>2. i \in 1 .. m /\ i \in 1 .. n /\ f[i] # g[i]
  BY <1>1
<1>3. f[i] = IF i = 1 THEN s[i] ELSE f[i - 1] \o s[i]
  BY <1>2 DEF Flattens
<1>4. g[i] = IF i = 1 THEN t[i] ELSE g[i - 1] \o t[i]
  BY <1>2 DEF Flattens
<1>5. i # 1 => i - 1 \in 1 .. m /\ i - 1 \notin Differ
  BY <1>1, <1>2
<1>6. i # 1 => f[i - 1] = g[i - 1]
  BY <1>5
<1> QED BY <1>2, <1>3, <1>4, <1>6

LEMMA FlattenSeqIsLast ==
  ASSUME NEW s, NEW f, Len(s) \in Nat, Len(s) # 0, Flattens(f, s, Len(s))
  PROVE  FlattenSeq(s) = f[Len(s)]
<1> DEFINE flat == CHOOSE g : g = [i \in 1 .. Len(s) |-> IF i = 1 THEN s[i] ELSE g[i - 1] \o s[i]]
<1>1. FlattenSeq(s) = flat[Len(s)]
  BY DEF FlattenSeq
<1>2. flat = CHOOSE g : Flattens(g, s, Len(s))
  BY DEF Flattens
<1> HIDE DEF flat
<1>3. Flattens(flat, s, Len(s))
  BY <1>2
<1>4. \A i \in 1 .. Len(s) : flat[i] = f[i]
  BY <1>3, FlattensUnique
<1> QED BY <1>1, <1>4

(* FlattenSeq of a longer sequence. *)
LEMMA FlattenOfAppend ==
  ASSUME NEW S, NEW s \in Seq(S), NEW x \in S
  PROVE  FlattenSeq(Append(s, x)) = IF s = <<>> THEN x ELSE FlattenSeq(s) \o x
<1> DEFINE n == Len(s)
           t == Append(s, x)
<1>1. n \in Nat /\ Len(t) = n + 1 /\ t[n + 1] = x /\ \A i \in 1 .. n : s[i] = t[i]
  OBVIOUS
<1>2. n # 0 <=> s # <<>>
  OBVIOUS
<1> DEFINE m == n + 1
<1>10. m \in Nat /\ m # 0 /\ m - 1 = n /\ (m = 1 <=> n = 0) /\ n <= m /\ m \in 1 .. m
  BY <1>1
<1>11. Len(t) = m /\ t[m] = x
  BY <1>1
<1> HIDE DEF n, t, m
<1>3. PICK f : Flattens(f, s, n)
  BY <1>1, FlattensExists
<1>4. PICK g : Flattens(g, t, m)
  BY <1>10, FlattensExists
<1>5. \A i \in 1 .. n : f[i] = g[i]
  BY <1>1, <1>10, <1>3, <1>4, FlattensUnique
<1>6. FlattenSeq(t) = g[m]
  BY <1>10, <1>11, <1>4, FlattenSeqIsLast
<1>7. g[m] = IF m = 1 THEN t[m] ELSE g[m - 1] \o t[m]
  BY <1>10, <1>4 DEF Flattens
<1>8. CASE n = 0
  BY <1>2, <1>6, <1>7, <1>8, <1>10, <1>11 DEF t
<1>9. CASE n # 0
  <2>1. FlattenSeq(s) = f[n]
    BY <1>1, <1>3, <1>9, FlattenSeqIsLast DEF n
  <2>2. f[n] = g[n] /\ m # 1
    BY <1>1, <1>5, <1>9, <1>10
  <2> QED BY <1>2, <1>6, <1>7, <1>10, <1>11, <2>1, <2>2 DEF t
<1> QED BY <1>8, <1>9

-----------------------------------------------------------------------------
(* The commands of the queue, of the open batch and in the caller's hands. *)

Numbers(n) == [i \in 1 .. n |-> i]
Taken == [i \in 1 .. Len(queue) |-> queue[i].commands]

OrderInv ==
  /\ QueuedCommands \in Seq(1 .. recorded)
  /\ CommandsInOrder

LEMMA TakenShape ==
  ASSUME TypeOK
  PROVE  Taken \in Seq(Commands) /\ Len(Taken) = Len(queue) /\ (queue = <<>> <=> Taken = <<>>)
<1> DEFINE n == Len(queue)
<1>1. n \in Nat /\ (queue = <<>> <=> n = 0)
  BY DEF TypeOK
<1>2. \A i \in 1 .. n : queue[i].commands \in Commands
  BY EntryTypes
<1> HIDE DEF n
<1>3. /\ [i \in 1 .. n |-> queue[i].commands] \in Seq(Commands)
      /\ Len([i \in 1 .. n |-> queue[i].commands]) = n
  BY <1>1, <1>2
<1>4. Taken \in Seq(Commands) /\ Len(Taken) = n
  BY <1>3 DEF Taken, n
<1>5. Taken = <<>> <=> Len(Taken) = 0
  BY <1>4
<1> QED BY <1>1, <1>4, <1>5 DEF n

(* The flattened queue grows by the commands of the new entry. *)
LEMMA QueueGrows ==
  ASSUME TypeOK, QueuedCommands \in Seq(1 .. recorded), NEW e \in Entries,
         queue' = Append(queue, e)
  PROVE  QueuedCommands' = QueuedCommands \o e.commands
<1> DEFINE n == Len(queue)
           C == Commands
<1>1. /\ n \in Nat /\ Len(queue') = n + 1 /\ queue'[n + 1] = e
      /\ \A i \in 1 .. n : queue'[i] = queue[i]
  BY DEF TypeOK
<1>2. Taken \in Seq(C) /\ Len(Taken) = n /\ (queue = <<>> <=> Taken = <<>>)
  BY TakenShape
<1>3. e.commands \in C /\ C = Seq(1 .. recorded)
  BY DEF Entries, Commands
<1>4. Taken' = [i \in 1 .. n + 1 |-> IF i = n + 1 THEN e.commands ELSE queue[i].commands]
  <2>1. Taken' = [i \in 1 .. n + 1 |-> queue'[i].commands]
    BY <1>1 DEF Taken
  <2>2. \A i \in 1 .. n + 1 : queue'[i].commands = IF i = n + 1 THEN e.commands ELSE queue[i].commands
    <3> HIDE DEF n
    <3>1. \A i \in 1 .. n + 1 : i \in 1 .. n \/ i = n + 1
      BY <1>1
    <3> QED BY <1>1, <3>1
  <2> QED BY <2>1, <2>2
<1>5. Taken = [i \in 1 .. n |-> queue[i].commands]
  BY DEF Taken
<1> HIDE DEF C
<1>6. Taken' = Append(Taken, e.commands)
  <2> HIDE DEF n
  <2>1. Append(Taken, e.commands) = [i \in 1 .. n + 1 |-> IF i = n + 1 THEN e.commands ELSE Taken[i]]
    BY <1>1, <1>2, <1>3
  <2>2. \A i \in 1 .. n + 1 : i # n + 1 => Taken[i] = queue[i].commands
    BY <1>1, <1>5
  <2> QED BY <1>4, <2>1, <2>2
<1>7. FlattenSeq(Append(Taken, e.commands))
        = IF Taken = <<>> THEN e.commands ELSE FlattenSeq(Taken) \o e.commands
  BY <1>2, <1>3, FlattenOfAppend
<1>8. QueuedCommands = FlattenSeq(Taken) /\ QueuedCommands' = FlattenSeq(Taken')
  BY DEF QueuedCommands, Taken
<1>9. Taken = <<>> => QueuedCommands = <<>>
  <2>1. Taken = <<>> => FlattenSeq(Taken) = Taken
    BY DEF FlattenSeq
  <2> QED BY <1>8, <2>1
<1>10. <<>> \o e.commands = e.commands
  BY <1>3, ConcatEmptySeq
<1> QED BY <1>6, <1>7, <1>8, <1>9, <1>10

LEMMA NumbersGrow ==
  ASSUME NEW n \in Nat
  PROVE  /\ Numbers(n) \in Seq(1 .. n) /\ Len(Numbers(n)) = n
         /\ Append(Numbers(n), n + 1) = Numbers(n + 1)
<1>1. Numbers(n) \in Seq(1 .. n) /\ Len(Numbers(n)) = n
  BY DEF Numbers
<1>2. Append(Numbers(n), n + 1) = [i \in 1 .. n + 1 |-> IF i = n + 1 THEN n + 1 ELSE Numbers(n)[i]]
  BY <1>1
<1>3. \A i \in 1 .. n + 1 : (IF i = n + 1 THEN n + 1 ELSE Numbers(n)[i]) = i
  BY DEF Numbers
<1> QED BY <1>1, <1>2, <1>3 DEF Numbers

LEMMA ConcatOfAppend ==
  ASSUME NEW S, NEW s \in Seq(S), NEW t \in Seq(S), NEW x \in S
  PROVE  s \o Append(t, x) = Append(s \o t, x)
<1>1. Append(t, x) = t \o <<x>> /\ <<x>> \in Seq(S)
  BY AppendIsConcat
<1>2. s \o t \in Seq(S)
  BY ConcatProperties
<1>3. Append(s \o t, x) = (s \o t) \o <<x>>
  BY <1>2, AppendIsConcat
<1> QED BY <1>1, <1>3, ConcatAssociative

LEMMA PrefixOfNumbers ==
  ASSUME NEW n \in Nat, NEW S, NEW q \in Seq(S), NEW t \in Seq(S), q \o t = Numbers(n)
  PROVE  \A i \in 1 .. Len(q) : q[i] = i
<1>1. /\ Len(q) \in Nat /\ Len(t) \in Nat /\ Len(q \o t) = Len(q) + Len(t)
      /\ \A i \in 1 .. Len(q) + Len(t) : (q \o t)[i] = IF i <= Len(q) THEN q[i] ELSE t[i - Len(q)]
  BY ConcatProperties, LenProperties
<1>2. Len(q) + Len(t) = n
  BY <1>1, NumbersGrow
<1> SUFFICES ASSUME NEW i \in 1 .. Len(q) PROVE q[i] = i
  OBVIOUS
<1>3. i \in 1 .. Len(q) + Len(t) /\ i <= Len(q) /\ i \in 1 .. n
  BY <1>1, <1>2
<1> QED BY <1>1, <1>3 DEF Numbers

LEMMA BatchCommands ==
  ASSUME TypeOK
  PROVE  Pending \in Commands /\ Held \in Commands /\ list.commands \in Commands
<1>1. /\ stream \in Seq(1 .. recorded) /\ list.commands \in Seq(1 .. recorded)
      /\ source \in Seq(1 .. recorded)
  BY DEF TypeOK, Lists, Commands
<1>2. <<>> \in Seq(1 .. recorded)
  OBVIOUS
<1>3. list.commands \o stream \in Seq(1 .. recorded)
  BY <1>1, ConcatProperties
<1> QED BY <1>1, <1>2, <1>3, PendingIs DEF Commands, Held

LEMMA OrderInit == Init => OrderInv
<1> SUFFICES ASSUME Init PROVE OrderInv
  OBVIOUS
<1>1. TypeOK
  BY TypeInit
<1>2. /\ queue = <<>> /\ recorded = 0 /\ result = "S_OK" /\ wpc = "lock" /\ source = <<>>
      /\ state = "Idle" /\ session_active = FALSE
  BY DEF Init, WorkerInit
<1>3. QueuedCommands = <<>>
  <2>1. Taken = <<>>
    BY <1>1, <1>2, TakenShape
  <2>2. Taken = <<>> => FlattenSeq(Taken) = Taken
    BY DEF FlattenSeq
  <2> QED BY <2>1, <2>2 DEF QueuedCommands, Taken
<1>4. Pending = <<>> /\ Held = <<>> /\ ~Broken
  <2>1. ~ListPending /\ ~StreamPending
    BY <1>2 DEF ListPending, StreamPending
  <2> QED BY <1>1, <1>2, <2>1, PendingIs DEF Held, Broken, Failed
<1>5. <<>> \o <<>> = <<>> /\ [i \in 1 .. 0 |-> i] = <<>> /\ <<>> \in Seq(1 .. 0)
  OBVIOUS
<1> QED BY <1>2, <1>3, <1>4, <1>5 DEF OrderInv, CommandsInOrder

LEMMA OrderStep ==
  ASSUME Control, Control', OrderInv, [Next]_vars
  PROVE  OrderInv'
<1> DEFINE q == QueuedCommands
           p == Pending
           h == Held
           r == recorded
<1>1. /\ TypeOK /\ TypeOK' /\ r \in Nat
      /\ q \in Seq(1 .. r) /\ p \in Seq(1 .. r) /\ h \in Seq(1 .. r) /\ <<>> \in Seq(1 .. r)
  <2>1. TypeOK /\ TypeOK' /\ r \in Nat /\ q \in Seq(1 .. r)
    BY BoundsAssumption DEF Control, OrderInv, TypeOK
  <2>2. p \in Commands /\ h \in Commands
    BY <2>1, BatchCommands
  <2> QED BY <2>1, <2>2 DEF Commands
<1>2. ~Broken => (q \o p) \o h = Numbers(r)
  BY DEF OrderInv, CommandsInOrder, Numbers
<1>3. Broken => \A i \in 1 .. Len(q) : q[i] = i
  BY DEF OrderInv, CommandsInOrder
<1>4. q \o p \in Seq(1 .. r)
  BY <1>1, ConcatProperties
<1>5. queue' = queue => q' = q
  BY DEF QueuedCommands
<1>6. ASSUME q' \in Seq(1 .. recorded'), ~Broken', (q' \o p') \o h' = Numbers(recorded')
      PROVE  OrderInv'
  BY <1>6 DEF OrderInv, CommandsInOrder, Numbers
<1>7. ASSUME q' \in Seq(1 .. recorded'), Broken', \A i \in 1 .. Len(q') : q'[i] = i
      PROVE  OrderInv'
  BY <1>7 DEF OrderInv, CommandsInOrder
<1>8. CASE KeepsBatch /\ KeepsHeld
  <2>1. q' = q /\ recorded' = r /\ h' = h /\ (Broken' <=> Broken) /\ (~Broken => p' = p)
    BY <1>5, <1>8 DEF KeepsBatch, KeepsHeld, PlainStep
  <2> HIDE DEF q, p, h, r
  <2>2. CASE Broken
    BY <1>1, <1>3, <1>7, <2>1, <2>2
  <2>3. CASE ~Broken
    BY <1>1, <1>2, <1>6, <2>1, <2>3
  <2> QED BY <2>2, <2>3
<1>9. CASE KeepsBatch /\ Held' = Append(Held, recorded + 1) /\ recorded' = recorded + 1
  <2>1. q' = q /\ recorded' = r + 1 /\ h' = Append(h, r + 1) /\ (Broken' <=> Broken) /\ (~Broken => p' = p)
    BY <1>5, <1>9 DEF KeepsBatch, PlainStep
  <2> HIDE DEF q, p, h, r
  <2>2. 1 .. r \subseteq 1 .. r + 1 /\ r + 1 \in 1 .. r + 1
    BY <1>1
  <2>3. q \in Seq(1 .. r + 1) /\ h \in Seq(1 .. r + 1) /\ q \o p \in Seq(1 .. r + 1)
    BY <1>1, <1>4, <2>2, SeqMonotonic
  <2>4. CASE Broken
    BY <1>3, <1>7, <2>1, <2>3, <2>4
  <2>5. CASE ~Broken
    <3>1. (q \o p) \o h' = Append((q \o p) \o h, r + 1)
      BY <2>1, <2>2, <2>3, ConcatOfAppend
    <3>2. (q \o p) \o h' = Numbers(r + 1)
      BY <1>1, <1>2, <2>5, <3>1, NumbersGrow
    <3> QED BY <1>6, <2>1, <2>3, <2>5, <3>2
  <2> QED BY <2>4, <2>5
<1>10. CASE BreaksBatch
  <2>1. q' = q /\ recorded' = r /\ Broken' /\ ~Broken
    BY <1>5, <1>10 DEF BreaksBatch, KeepsHeld, PlainStep
  <2>2. \A i \in 1 .. Len(q) : q[i] = i
    <3>1. q \o (p \o h) = Numbers(r) /\ p \o h \in Seq(1 .. r)
      <4> HIDE DEF q, p, h, r
      <4>1. (q \o p) \o h = q \o (p \o h)
        BY <1>1, ConcatAssociative, SMTT(30)
      <4>2. p \o h \in Seq(1 .. r)
        BY <1>1, ConcatProperties
      <4> QED BY <1>2, <2>1, <4>1, <4>2
    <3> HIDE DEF q, p, h, r
    <3> QED BY <1>1, <3>1, PrefixOfNumbers
  <2> HIDE DEF q, p, h, r
  <2> QED BY <1>1, <1>7, <2>1, <2>2
<1>11. CASE ExtendsBatch
  <2>1. q' = q /\ recorded' = r /\ ~Broken' /\ ~Broken /\ p' = p \o h /\ h' = <<>>
    BY <1>5, <1>11 DEF ExtendsBatch, PlainStep
  <2> HIDE DEF q, p, h, r
  <2>2. p \o h \in Seq(1 .. r)
    BY <1>1, ConcatProperties
  <2>3. (q \o (p \o h)) \o <<>> = q \o (p \o h)
    <3>1. q \o (p \o h) \in Seq(1 .. r)
      BY <1>1, <2>2, ConcatProperties
    <3> QED BY <3>1, ConcatEmptySeq
  <2>4. (q \o p) \o h = q \o (p \o h)
    BY <1>1, ConcatAssociative, SMTT(30)
  <2> QED BY <1>1, <1>2, <1>6, <2>1, <2>3, <2>4
<1>12. CASE OpensBatch
  <2>1. q' = q /\ recorded' = r /\ ~Broken' /\ ~Broken /\ p = <<>> /\ p' = h /\ h' = <<>>
    BY <1>5, <1>12 DEF OpensBatch
  <2> HIDE DEF q, p, h, r
  <2>2. q \o h \in Seq(1 .. r) /\ q \o <<>> = q
    BY <1>1, ConcatProperties, ConcatEmptySeq
  <2>3. (q \o h) \o <<>> = q \o h
    BY <2>2, ConcatEmptySeq
  <2> QED BY <1>1, <1>2, <1>6, <2>1, <2>2, <2>3
<1>13. CASE ExecutesBatch
  <2>1. /\ recorded' = r /\ ~Broken' /\ ~Broken /\ p' = <<>> /\ h' = h
        /\ queue' = Append(queue, ExecuteEntry(p, job.allocator))
    BY <1>13 DEF ExecutesBatch, KeepsHeld
  <2>2. q' = q \o p
    <3>1. ExecuteEntry(p, job.allocator) \in Entries /\ ExecuteEntry(p, job.allocator).commands = p
      BY <1>1 DEF ExecuteEntry, Entries, Commands, TypeOK, Jobs
    <3> QED BY <1>1, <2>1, <3>1, QueueGrows
  <2> HIDE DEF q, p, h, r
  <2>3. (q \o p) \o <<>> = q \o p
    BY <1>4, ConcatEmptySeq
  <2> QED BY <1>1, <1>2, <1>4, <1>6, <2>1, <2>2, <2>3
<1>14. CASE SignalsBatch
  <2>1. /\ recorded' = r /\ ~Broken' /\ ~Broken /\ p = <<>> /\ p' = <<>> /\ h' = h
        /\ queue' = Append(queue, SignalEntry(job.fence_value))
    BY <1>14 DEF SignalsBatch, KeepsHeld
  <2>2. q' = q \o <<>>
    <3>1. SignalEntry(job.fence_value) \in Entries /\ SignalEntry(job.fence_value).commands = <<>>
      BY <1>1 DEF SignalEntry, Entries, Commands, TypeOK, Jobs
    <3> QED BY <1>1, <2>1, <3>1, QueueGrows
  <2> HIDE DEF q, p, h, r
  <2>3. q \o <<>> = q
    BY <1>1, ConcatEmptySeq
  <2> QED BY <1>1, <1>2, <1>4, <1>6, <2>1, <2>2, <2>3
<1> QED BY <1>8, <1>9, <1>10, <1>11, <1>12, <1>13, <1>14, StepKinds

-----------------------------------------------------------------------------
(* The counters. *)

One(cond) == IF cond THEN 1 ELSE 0

(* StatsAgree of given counters, slot, session, operation and latch. *)
Agrees(s, slot, session, operation, hr) ==
  /\ s.submitted = s.completed + One(slot # "Idle" /\ operation \in FinalOperations)
  /\ s.chunks_submitted = s.chunks_completed + One(slot # "Idle" /\ operation # "Whole")
  /\ s.chunk_sessions = s.chunk_sessions_completed + One(session)
                        + One(~session /\ s.chunks_failed > 0)
  /\ s.failed + s.chunks_failed > 0 => Failed(hr)

LEMMA AgreesIsStatsAgree == StatsAgree <=> Agrees(stats, state, session_active, job.operation, result)
BY DEF StatsAgree, Agrees, One

LEMMA Counters ==
  ASSUME NEW s \in Stats
  PROVE  /\ s.submitted \in Nat /\ s.completed \in Nat /\ s.failed \in Nat /\ s.chunk_sessions \in Nat
         /\ s.chunks_submitted \in Nat /\ s.chunks_completed \in Nat
         /\ s.chunk_sessions_completed \in Nat /\ s.chunks_failed \in Nat
BY StatsCounters DEF Stats

LEMMA ReapedCounters ==
  ASSUME TypeOK
  PROVE  /\ ReapedStats.submitted = stats.submitted
         /\ ReapedStats.chunks_submitted = stats.chunks_submitted
         /\ ReapedStats.chunk_sessions = stats.chunk_sessions
         /\ ReapedStats.chunks_completed
              = stats.chunks_completed + One(Reaping /\ job.operation # "Whole")
         /\ ReapedStats.chunks_failed
              = stats.chunks_failed + One(Reaping /\ job.operation # "Whole" /\ Failed(job.result))
         /\ ReapedStats.completed
              = stats.completed + One(Reaping /\ job.operation \in FinalOperations)
         /\ ReapedStats.failed
              = stats.failed + One(Reaping /\ job.operation \in FinalOperations /\ Failed(job.result))
         /\ ReapedStats.chunk_sessions_completed
              = stats.chunk_sessions_completed
                + One(Reaping /\ job.operation = "Finish" /\ ~Failed(job.result))
<1> DEFINE a == stats.chunks_completed + One(Reaping /\ job.operation # "Whole")
           b == stats.chunks_failed + One(Reaping /\ job.operation # "Whole" /\ Failed(job.result))
           c == stats.completed + One(Reaping /\ job.operation \in FinalOperations)
           d == stats.failed + One(Reaping /\ job.operation \in FinalOperations /\ Failed(job.result))
           e == stats.chunk_sessions_completed
                + One(Reaping /\ job.operation = "Finish" /\ ~Failed(job.result))
<1>1. ReapedStats = [stats EXCEPT !.chunks_completed = a, !.chunks_failed = b, !.completed = c,
                                  !.failed = d, !.chunk_sessions_completed = e]
  BY DEF ReapedStats, One
<1>2. stats \in Stats
  BY DEF TypeOK
<1>3. DOMAIN stats = {"submitted", "completed", "failed", "chunk_sessions",
       "chunks_submitted", "chunks_completed", "chunk_sessions_completed", "chunks_failed"}
  BY <1>2, StatsCounters DEF Stats
<1> HIDE DEF a, b, c, d, e
<1>4. /\ ReapedStats.submitted = stats.submitted
      /\ ReapedStats.chunks_submitted = stats.chunks_submitted
      /\ ReapedStats.chunk_sessions = stats.chunk_sessions
      /\ ReapedStats.chunks_completed = a /\ ReapedStats.chunks_failed = b
      /\ ReapedStats.completed = c /\ ReapedStats.failed = d
      /\ ReapedStats.chunk_sessions_completed = e
  BY <1>1, <1>2, <1>3 DEF Stats
<1> QED BY <1>4 DEF a, b, c, d, e

LEMMA ReapAgrees ==
  ASSUME Control, StatsAgree
  PROVE  Agrees(ReapedStats, ReapedState, ReapedSession, job.operation, result)
<1>1. TypeOK /\ stats \in Stats /\ job.operation \in Operations /\ session_active \in BOOLEAN
  BY DEF Control, TypeOK, Jobs
<1>2. Agrees(stats, state, session_active, job.operation, result)
  BY AgreesIsStatsAgree
<1>3. CASE state # "Complete"
  <2>1. ~Reaping /\ ReapedState = state /\ ReapedSession = session_active
    BY <1>1, <1>3 DEF Reaping, ReapedState, ReapedSession, ReapingFinal
  <2> QED BY <1>1, <1>2, <2>1, ReapedCounters, Counters DEF Agrees, One
<1>4. CASE state = "Complete"
  <2>1. /\ Reaping /\ ReapedState = "Idle"
        /\ (session_active <=> job.operation # "Whole") /\ (Failed(job.result) <=> Failed(result))
    BY <1>4 DEF Reaping, ReapedState, Control, JobInv
  <2>2. ReapedSession <=> job.operation \in {"Begin", "Append"}
    BY <1>1, <2>1 DEF ReapedSession, ReapingFinal, FinalOperations, Operations
  <2>3. CASE job.operation = "Whole"
    <3>1. job.operation \in FinalOperations /\ ~session_active /\ ~ReapedSession
      BY <2>1, <2>2, <2>3 DEF FinalOperations
    <3> QED BY <1>1, <1>2, <1>4, <2>1, <2>3, <3>1, ReapedCounters, Counters DEF Agrees, One
  <2>4. CASE job.operation = "Finish"
    <3>1. job.operation \in FinalOperations /\ session_active /\ ~ReapedSession
      BY <2>1, <2>2, <2>4 DEF FinalOperations
    <3> QED BY <1>1, <1>2, <1>4, <2>1, <2>4, <3>1, ReapedCounters, Counters DEF Agrees, One
  <2>5. CASE job.operation \in {"Begin", "Append"}
    <3>1. job.operation \notin FinalOperations /\ session_active /\ ReapedSession
      BY <2>1, <2>2, <2>5 DEF FinalOperations
    <3> QED BY <1>1, <1>2, <1>4, <2>1, <2>5, <3>1, ReapedCounters, Counters DEF Agrees, One
  <2> QED BY <1>1, <2>3, <2>4, <2>5 DEF Operations
<1> QED BY <1>3, <1>4

LEMMA StatsStep ==
  ASSUME Control, Control', StatsAgree, [Next]_vars
  PROVE  StatsAgree'
<1>1. /\ TypeOK /\ stats \in Stats /\ job.operation \in Operations /\ session_active \in BOOLEAN
      /\ DOMAIN stats = {"submitted", "completed", "failed", "chunk_sessions",
           "chunks_submitted", "chunks_completed", "chunk_sessions_completed", "chunks_failed"}
  BY StatsCounters DEF Control, TypeOK, Jobs, Stats
<1>2. Agrees(stats, state, session_active, job.operation, result)
  BY AgreesIsStatsAgree
<1>3. ASSUME Agrees(stats', state', session_active', job'.operation, result')
      PROVE  StatsAgree'
  BY <1>3 DEF StatsAgree, Agrees, One
<1>4. ASSUME ReapCompleted, result' = result
      PROVE  StatsAgree'
  <2>1. stats' = ReapedStats /\ state' = ReapedState /\ session_active' = ReapedSession /\ job' = ReapedJob
    BY <1>4 DEF ReapCompleted
  <2>2. job'.operation = job.operation
    BY <1>1, <2>1, ReapedShape
  <2> QED BY <1>3, <1>4, <2>1, <2>2, ReapAgrees
<1>5. ASSUME UNCHANGED <<stats, session_active>>, job'.operation = job.operation,
             (state' = "Idle") <=> (state = "Idle"), Failed(result) => Failed(result')
      PROVE  StatsAgree'
  BY <1>2, <1>3, <1>5 DEF Agrees
<1>6. ASSUME NEW a \in Allocators, NEW chunks \in BOOLEAN, CallStart(a, chunks)
      PROVE  StatsAgree'
  <2>1. /\ state = "Idle" /\ state' = "Queued" /\ ~session_active /\ session_active' = chunks
        /\ ~Failed(result) /\ result' = result
        /\ job'.operation = IF chunks THEN "Begin" ELSE "Whole"
        /\ stats' = IF chunks THEN [stats EXCEPT !.chunk_sessions = @ + 1, !.chunks_submitted = @ + 1]
                    ELSE [stats EXCEPT !.submitted = @ + 1]
    BY <1>6 DEF CallStart, Start, CanStart, SlotOpen
  <2>2. CASE chunks
    <3>1. /\ stats'.submitted = stats.submitted /\ stats'.completed = stats.completed
          /\ stats'.failed = stats.failed /\ stats'.chunks_failed = stats.chunks_failed
          /\ stats'.chunks_completed = stats.chunks_completed
          /\ stats'.chunk_sessions_completed = stats.chunk_sessions_completed
          /\ stats'.chunk_sessions = stats.chunk_sessions + 1
          /\ stats'.chunks_submitted = stats.chunks_submitted + 1
      BY <1>1, <2>1, <2>2
    <3> QED BY <1>1, <1>2, <1>3, <2>1, <2>2, <3>1, Counters DEF Agrees, One, FinalOperations
  <2>3. CASE ~chunks
    <3>1. /\ stats'.submitted = stats.submitted + 1 /\ stats'.completed = stats.completed
          /\ stats'.failed = stats.failed /\ stats'.chunks_failed = stats.chunks_failed
          /\ stats'.chunks_completed = stats.chunks_completed
          /\ stats'.chunk_sessions_completed = stats.chunk_sessions_completed
          /\ stats'.chunk_sessions = stats.chunk_sessions
          /\ stats'.chunks_submitted = stats.chunks_submitted
      BY <1>1, <2>1, <2>3
    <3> QED BY <1>1, <1>2, <1>3, <2>1, <2>3, <3>1, Counters DEF Agrees, One, FinalOperations
  <2> QED BY <2>2, <2>3
<1>7. CASE CallTryAppendChunk /\ CanAppend
  <2>1. /\ ReapedState = "Idle" /\ ReapedSession /\ ~Failed(result) /\ result' = result
        /\ state' = "Queued" /\ session_active'
        /\ stats' = [ReapedStats EXCEPT !.chunks_submitted = @ + 1]
        /\ job' = [ReapedJob EXCEPT !.operation = "Append"]
    BY <1>7 DEF CallTryAppendChunk, TryAppendChunk, CanAppend, SlotOpen
  <2>2. ReapedStats \in Stats /\ ReapedJob \in Jobs
    BY <1>1, ReapedShape
  <2>3. job'.operation = "Append"
    BY <2>1, <2>2 DEF Jobs
  <2>4. Agrees(ReapedStats, "Idle", TRUE, job.operation, result)
    BY <2>1, ReapAgrees DEF Agrees, One
  <2> DEFINE s == ReapedStats
  <2> HIDE DEF s
  <2>5. /\ stats'.submitted = s.submitted /\ stats'.completed = s.completed
        /\ stats'.failed = s.failed /\ stats'.chunks_failed = s.chunks_failed
        /\ stats'.chunks_completed = s.chunks_completed
        /\ stats'.chunk_sessions_completed = s.chunk_sessions_completed
        /\ stats'.chunk_sessions = s.chunk_sessions
        /\ stats'.chunks_submitted = s.chunks_submitted + 1
    BY <2>1, <2>2, StatsCounters DEF s, Stats
  <2>6. s \in Stats /\ Agrees(s, "Idle", TRUE, job.operation, result)
    BY <2>2, <2>4 DEF s
  <2> QED BY <1>3, <2>1, <2>3, <2>5, <2>6, Counters DEF Agrees, One, FinalOperations
<1>8. CASE CallFinishChunks
  <2>1. /\ state = "Idle" /\ session_active /\ session_active' = session_active
        /\ ~Failed(result) /\ result' = result /\ state' = "Queued"
        /\ stats' = [stats EXCEPT !.chunks_submitted = @ + 1, !.submitted = @ + 1]
        /\ job' = [job EXCEPT !.operation = "Finish"]
    BY <1>8 DEF CallFinishChunks, FinishChunks, CanFinish, SlotOpen
  <2>2. job'.operation = "Finish"
    BY <2>1 DEF Control, TypeOK, Jobs
  <2>3. /\ stats'.submitted = stats.submitted + 1 /\ stats'.completed = stats.completed
        /\ stats'.failed = stats.failed /\ stats'.chunks_failed = stats.chunks_failed
        /\ stats'.chunks_completed = stats.chunks_completed
        /\ stats'.chunk_sessions_completed = stats.chunk_sessions_completed
        /\ stats'.chunk_sessions = stats.chunk_sessions
        /\ stats'.chunks_submitted = stats.chunks_submitted + 1
    BY <1>1, <2>1
  <2> QED BY <1>1, <1>2, <1>3, <2>1, <2>2, <2>3, Counters DEF Agrees, One, FinalOperations
<1>9. CASE CallReadyForChunk \/ (CallTryAppendChunk /\ ~CanAppend) \/ (Wait /\ WaitReturn)
  <2>1. ReapCompleted /\ result' = result
    BY <1>9 DEF CallReadyForChunk, CallTryAppendChunk, TryAppendChunk, Wait, WaitReturn
  <2> QED BY <1>4, <2>1
<1>10. CASE Record \/ (\E destroying \in BOOLEAN : CallWait(destroying)) \/ UNCHANGED vars
            \/ ((CpContinue \/ GpuStep \/ WakeStep) /\ ~(Wait /\ WaitReturn))
  <2>1. UNCHANGED <<stats, session_active, job, state, result>>
    <3>1. CASE Record \/ \E destroying \in BOOLEAN : CallWait(destroying)
      BY <3>1 DEF Record, CallWait, slotVars, workerVars
    <3>2. CASE UNCHANGED vars
      BY <3>2 DEF vars, workerVars
    <3>3. CASE (CpContinue \/ GpuStep \/ WakeStep) /\ ~(Wait /\ WaitReturn)
      BY <3>3 DEF CpContinue, GpuStep, WakeStep, Notify, Wait, WaitBlock, WaitWoken, Stop, RequestStop,
                  NotifyStop, Join, SpuriousWakeup, workerVars
    <3> QED BY <1>10, <3>1, <3>2, <3>3
  <2> QED BY <1>5, <2>1
<1>11. CASE WorkerNext
  <2>1. CASE ExecuteJob
    <3>1. UNCHANGED <<stats, session_active, job, state, result>>
      BY <2>1 DEF ExecuteJob, ResetAllocator, ResetList, Replay, Close, Execute, Signal, slotVars
    <3> QED BY <1>5, <3>1
  <2>2. CASE RunAcquire \/ RunWoken
    <3>1. /\ UNCHANGED <<stats, session_active, job, result>>
          /\ state' = state \/ (state = "Queued" /\ state' = "Running")
      BY <2>2 DEF RunAcquire, RunWoken, slotVars
    <3> QED BY <1>5, <3>1
  <2>3. CASE StoreResult
    <3>1. UNCHANGED <<stats, session_active, job, state>> /\ (Failed(result) => Failed(result'))
      BY <2>3 DEF StoreResult
    <3> QED BY <1>5, <3>1
  <2>4. CASE Publish
    <3>1. /\ UNCHANGED <<stats, session_active, result>> /\ wpc = "publish" /\ state' = "Complete"
          /\ job' = [job EXCEPT !.result = whr]
      BY <2>4 DEF Publish
    <3>2. state = "Running"
      BY <3>1 DEF Control, SlotInv, SlotOwned, ExecutePCs
    <3>3. job'.operation = job.operation
      BY <3>1 DEF Control, TypeOK, Jobs
    <3> QED BY <1>5, <3>1, <3>2, <3>3
  <2> QED BY <1>11, <2>1, <2>2, <2>3, <2>4 DEF WorkerNext
<1> QED BY <1>6, <1>7, <1>8, <1>9, <1>10, <1>11 DEF Next, CpCall, WorkerStep

LEMMA StatsInit == Init => StatsAgree
<1> SUFFICES ASSUME Init PROVE StatsAgree
  OBVIOUS
<1>1. /\ stats = InitStats /\ state = "Idle" /\ session_active = FALSE
  BY DEF Init, WorkerInit
<1> QED BY <1>1 DEF StatsAgree, InitStats

-----------------------------------------------------------------------------
(* The invariant of the client and what follows from it. *)

IInv == Control /\ ValueInv /\ IdleInv /\ OrderInv /\ StatsAgree

LEMMA InvInit == Init => IInv
BY ControlInit, ValuesInit, OrderInit, StatsInit DEF IInv

LEMMA InvStep == IInv /\ [Next]_vars => IInv'
<1> SUFFICES ASSUME IInv, [Next]_vars PROVE IInv'
  OBVIOUS
<1>1. Control /\ Control' /\ ValueInv /\ IdleInv /\ OrderInv /\ StatsAgree
  BY ControlStep DEF IInv
<1> QED BY <1>1, ValuesStep, OrderStep, StatsStep DEF IInv

LEMMA InvImplies == IInv => WorkerInv
BY IdleImpliesAllocatorIsIdle DEF IInv, Control, ListInv, OrderInv, WorkerInv

(* The conjunction above is inductive: who owns the slot and the list, the *)
(* values on the queue, and where each recorded command is (Run,           *)
(* ExecuteJob and the caller's operations of native_replay_worker.cpp).    *)
THEOREM Invariance == Spec => []IInv
BY InvInit, InvStep, PTL DEF Spec

(* SwapStorage and the single slot lose, repeat and reorder no command, an *)
(* allocator is reset only when the GPU is done with it, replay_state_     *)
(* follows the open list and the Stats agree with the slot.                *)
THEOREM WorkerInvAlways == Spec => []WorkerInv
BY Invariance, InvImplies, PTL

-----------------------------------------------------------------------------
(* The refinement of OrderedSubmission. *)

LEMMA BatchIsNone ==
  ASSUME Broken \/ ~InBatch
  PROVE  AbstractBatch = Ordered!NoBatch
BY DEF AbstractBatch, Ordered!NoBatch

LEMMA BatchIs ==
  ASSUME ~Broken, InBatch
  PROVE  AbstractBatch = [phase |-> IF wpc = "signal" THEN "executed"
                                    ELSE IF job.operation \in FinalOperations THEN "closed" ELSE "open",
                          allocator |-> job.allocator, value |-> job.fence_value,
                          commands |-> IF wpc = "signal" THEN list.commands ELSE Pending]
BY DEF AbstractBatch

LEMMA RefinesInit == Init => Ordered!Init
<1> SUFFICES ASSUME Init PROVE Ordered!Init
  OBVIOUS
<1>1. /\ queue = <<>> /\ result = "S_OK" /\ wpc = "lock" /\ state = "Idle" /\ session_active = FALSE
  BY DEF Init, WorkerInit
<1>2. ~Broken /\ ~InBatch
  BY <1>1 DEF Broken, Failed, InBatch, ExecutePCs
<1>3. AbstractBatch = Ordered!NoBatch
  BY <1>2, BatchIsNone
<1> QED BY <1>1, <1>2, <1>3 DEF Ordered!Init

LEMMA KeepsIsStutter ==
  ASSUME KeepsBatch
  PROVE  UNCHANGED Ordered!vars
<1>1. queue' = queue /\ (Broken' <=> Broken)
  BY DEF KeepsBatch, PlainStep
<1>2. CASE Broken \/ ~InBatch
  <2>1. Broken' \/ ~InBatch'
    BY <1>1, <1>2 DEF KeepsBatch
  <2>2. AbstractBatch' = Ordered!NoBatch /\ AbstractBatch = Ordered!NoBatch
    BY <1>2, <2>1 DEF AbstractBatch, Ordered!NoBatch
  <2> QED BY <1>1, <2>2 DEF Ordered!vars
<1>3. CASE ~Broken /\ InBatch
  <2>1. /\ ~Broken' /\ InBatch' /\ (wpc' = "signal" <=> wpc = "signal")
        /\ wpc = "signal" => list'.commands = list.commands
        /\ (job'.operation \in FinalOperations <=> job.operation \in FinalOperations)
        /\ Pending' = Pending /\ job'.fence_value = job.fence_value
    BY <1>1, <1>3 DEF KeepsBatch, PlainStep
  <2>2. job'.allocator = job.allocator
    <3>1. Holding'
      BY <2>1 DEF InBatch, Holding
    <3> QED BY <3>1 DEF KeepsBatch, PlainStep
  <2>3. AbstractBatch' = AbstractBatch
    BY <1>3, <2>1, <2>2 DEF AbstractBatch
  <2> QED BY <1>1, <2>3 DEF Ordered!vars
<1> QED BY <1>2, <1>3

LEMMA BreaksIsBreak ==
  ASSUME BreaksBatch
  PROVE  Ordered!Break
<1>1. ~Broken /\ Broken' /\ InBatch /\ queue' = queue
  BY DEF BreaksBatch, PlainStep
<1>2. AbstractBatch' = Ordered!NoBatch
  BY <1>1 DEF AbstractBatch, Ordered!NoBatch
<1>3. AbstractBatch.phase # "none"
  BY <1>1, BatchIs
<1> QED BY <1>1, <1>2, <1>3 DEF Ordered!Break

LEMMA ExtendsIsExtend ==
  ASSUME TypeOK, ExtendsBatch
  PROVE  Ordered!Extend
<1>1. /\ ~Broken /\ ~Broken' /\ InBatch /\ InBatch' /\ wpc # "signal" /\ wpc' # "signal"
      /\ job.operation \notin FinalOperations /\ queue' = queue
      /\ Pending' = Pending \o Held /\ job'.fence_value = job.fence_value
  BY DEF ExtendsBatch, PlainStep
<1>2. job'.allocator = job.allocator
  <2>1. Holding'
    BY <1>1 DEF InBatch, Holding
  <2> QED BY <2>1 DEF ExtendsBatch, PlainStep
<1> DEFINE ph == IF job'.operation \in FinalOperations THEN "closed" ELSE "open"
<1>3. AbstractBatch = [phase |-> "open", allocator |-> job.allocator, value |-> job.fence_value,
                       commands |-> Pending]
  BY <1>1, BatchIs
<1>4. AbstractBatch' = [phase |-> ph, allocator |-> job.allocator, value |-> job.fence_value,
                        commands |-> Pending']
  BY <1>1, <1>2 DEF AbstractBatch
<1>5. ph \in {"open", "closed"}
  OBVIOUS
<1> HIDE DEF ph
<1>6. IsPrefix(Pending, Pending')
  <2> DEFINE p == Pending
             h == Held
  <2>1. p \in Seq(1 .. recorded) /\ h \in Seq(1 .. recorded)
    BY BatchCommands DEF Commands
  <2> HIDE DEF p, h
  <2>2. /\ Len(p) \in Nat /\ Len(h) \in Nat /\ Len(p \o h) = Len(p) + Len(h)
        /\ SubSeq(p \o h, 1, Len(p)) = SubSeq(p, 1, Len(p))
    BY <2>1, ConcatProperties, LenProperties
  <2>3. IsPrefix(p, p \o h)
    BY <2>2 DEF IsPrefix
  <2> QED BY <1>1, <2>3 DEF p, h
<1>7. AbstractBatch' = [AbstractBatch EXCEPT !.phase = AbstractBatch'.phase,
                                             !.commands = AbstractBatch'.commands]
  <2> DEFINE b == AbstractBatch
             c == AbstractBatch'
             S == [phase : {"open", ph}, allocator : {job.allocator}, value : {job.fence_value},
                   commands : {Pending, Pending'}]
             e == [b EXCEPT !.phase = c.phase, !.commands = c.commands]
  <2>1. b \in S /\ c \in S /\ b.allocator = c.allocator /\ b.value = c.value
    BY <1>3, <1>4
  <2>2. c.phase \in {"open", ph} /\ c.commands \in {Pending, Pending'}
    BY <2>1
  <2> HIDE DEF b, c
  <2>3. e \in S
    BY <2>1, <2>2
  <2>4. e.phase = c.phase /\ e.commands = c.commands /\ e.allocator = b.allocator /\ e.value = b.value
    BY <2>1
  <2>5. e = c
    BY <2>1, <2>3, <2>4
  <2> QED BY <2>5 DEF b, c
<1>8. Broken' = Broken
  BY <1>1 DEF Broken
<1>9. Ordered!IsPrefix(AbstractBatch.commands, AbstractBatch'.commands)
  BY <1>3, <1>4, <1>6 DEF IsPrefix, Ordered!IsPrefix
<1> QED BY <1>1, <1>3, <1>4, <1>5, <1>7, <1>8, <1>9 DEF Ordered!Extend

LEMMA OpensIsOpen ==
  ASSUME TypeOK, ValueInv, OpensBatch
  PROVE  Ordered!Open
<1>1. /\ ~Broken /\ ~Broken' /\ ~InBatch /\ InBatch' /\ wpc' # "signal" /\ queue' = queue
      /\ job'.allocator \in Allocators /\ job'.fence_value = value + 1
  BY DEF OpensBatch
<1>2. AbstractBatch.phase = "none"
  BY <1>1 DEF AbstractBatch
<1>3. /\ AbstractBatch'.phase \in {"open", "closed"}
      /\ AbstractBatch'.allocator = job'.allocator /\ AbstractBatch'.value = value + 1
  BY <1>1 DEF AbstractBatch
<1>4. ASSUME NEW i \in 1 .. Len(queue)
      PROVE  queue[i].value < value + 1
  <2>1. queue[i].value \in Nat /\ value \in Nat /\ queue[i].kind \in {"execute", "signal"}
    BY EntryTypes
  <2>2. queue[i].value <= value
    BY <2>1 DEF ValueInv, IsSignal
  <2> QED BY <2>1, <2>2
<1>5. Broken' = Broken
  BY <1>1 DEF Broken
<1> QED BY <1>1, <1>2, <1>3, <1>4, <1>5 DEF Ordered!Open

LEMMA ExecutesIsExecute ==
  ASSUME ExecutesBatch
  PROVE  Ordered!ExecuteBatch
<1>1. /\ ~Broken /\ ~Broken' /\ InBatch /\ InBatch' /\ wpc = "execute" /\ wpc' = "signal"
      /\ queue' = Append(queue, ExecuteEntry(Pending, job.allocator))
      /\ job' = job /\ list' = list /\ job.operation \in FinalOperations /\ Pending = list.commands
  BY DEF ExecutesBatch
<1>2. AbstractBatch = [phase |-> "closed", allocator |-> job.allocator, value |-> job.fence_value,
                       commands |-> Pending]
  BY <1>1, BatchIs
<1>3. AbstractBatch' = [phase |-> "executed", allocator |-> job.allocator, value |-> job.fence_value,
                        commands |-> Pending]
  BY <1>1 DEF AbstractBatch
<1>4. AbstractBatch' = [AbstractBatch EXCEPT !.phase = "executed"]
  BY <1>2, <1>3
<1>5. queue' = Append(queue, [kind |-> "execute", commands |-> AbstractBatch.commands,
                              allocator |-> AbstractBatch.allocator, value |-> 0])
  BY <1>1, <1>2 DEF ExecuteEntry
<1>6. Broken' = Broken
  BY <1>1 DEF Broken
<1> QED BY <1>1, <1>2, <1>4, <1>5, <1>6 DEF Ordered!ExecuteBatch

LEMMA SignalsIsSignal ==
  ASSUME SignalsBatch
  PROVE  Ordered!SignalBatch
<1>1. /\ ~Broken /\ ~Broken' /\ InBatch /\ ~InBatch' /\ wpc = "signal"
      /\ queue' = Append(queue, SignalEntry(job.fence_value))
  BY DEF SignalsBatch
<1>2. AbstractBatch = [phase |-> "executed", allocator |-> job.allocator, value |-> job.fence_value,
                       commands |-> list.commands]
  BY <1>1, BatchIs
<1>3. AbstractBatch' = Ordered!NoBatch
  BY <1>1 DEF AbstractBatch, Ordered!NoBatch
<1>4. queue' = Append(queue, [kind |-> "signal", commands |-> <<>>, allocator |-> NoAllocator,
                              value |-> AbstractBatch.value])
  BY <1>1, <1>2 DEF SignalEntry
<1>5. Broken' = Broken
  BY <1>1 DEF Broken
<1> QED BY <1>1, <1>2, <1>3, <1>4, <1>5 DEF Ordered!SignalBatch

(* Every step of the worker and its client is a step of the contract. *)
LEMMA RefinesStep ==
  ASSUME Control, ValueInv, [Next]_vars
  PROVE  [Ordered!Next]_Ordered!vars
<1>1. TypeOK
  BY DEF Control
<1> QED BY <1>1, StepKinds, KeepsIsStutter, BreaksIsBreak, ExtendsIsExtend, OpensIsOpen,
           ExecutesIsExecute, SignalsIsSignal DEF Ordered!Next

(* Batches reach the queue whole and in order, each followed by the signal *)
(* of its value, until a failure ends everything: the contract written in  *)
(* native_replay_worker.h holds of Submit, the chunk calls and ExecuteJob. *)
THEOREM Refinement == Spec => ImplementsOrderedSubmission
<1>1. IInv /\ [Next]_vars => [Ordered!Next]_Ordered!vars
  BY RefinesStep DEF IInv
<1> QED BY <1>1, RefinesInit, Invariance, PTL DEF Spec, ImplementsOrderedSubmission, Ordered!Spec

===============================================================================
