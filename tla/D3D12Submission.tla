--------------------------- MODULE D3D12Submission ---------------------------
(***************************************************************************)
(* Submissions, frames and fences of D3D12CommandProcessor                 *)
(* (src/src/gpu/vendored/src/graphics/d3d12/command_processor.cpp), the    *)
(* owner of the replay worker.  The CP thread runs BeginSubmission, draws, *)
(* EndSubmission, CheckSubmissionFence and ShutdownContext; each of its    *)
(* steps ends where the worker, the GPU or the device may act between two  *)
(* accesses.  A recorded command is the submission and the frame it was    *)
(* recorded in, so the queue shows what was executed where.                *)
(***************************************************************************)
EXTENDS NativeReplayWorker

CONSTANT
  Profiles  (* what a behaviour is an instance of, and how far it goes: a    *)
            (* sequence of [ring, draws, submissions, frames, direct,        *)
            (* await_fails, readback, clear]                                 *)

ASSUME SubmissionAssumption ==
  \A i \in DOMAIN Profiles :
    /\ Profiles[i].ring \in Nat \ {0}
    /\ {Profiles[i].draws, Profiles[i].submissions, Profiles[i].frames, Profiles[i].direct}
         \subseteq Nat
    /\ {Profiles[i].await_fails, Profiles[i].readback, Profiles[i].clear} \subseteq BOOLEAN

VARIABLES
  cp,        (* the CP thread: its position and the arguments of its calls  *)
  sub,       (* the submission_* members, the chunk allocator and the flag  *)
             (* and fence of queue operations made outside submissions      *)
  frames,    (* the frame_* members and closed_frame_submissions_           *)
  pools,     (* the lists of writable and of submitted command allocators   *)
  worker,    (* native_replay_worker_: unattempted, ready or unavailable    *)
  lost,      (* device_removed_                                             *)
  clear,     (* cache_clear_requested_                                      *)
  readback,  (* whether d3d12_readback_resolve is enabled                   *)
  env        (* outside: queue entries the GPU consumed, device removed,    *)
             (* and the behaviour's profile                                 *)

cpuVars == <<cp, sub, frames, pools, worker, lost, clear, readback>>
vars == <<workerVars, cpuVars, env>>

(* The behaviour's profile. *)
Profile == Profiles[env.profile]
QueueFrames == Profile.ring                (* kQueueFrames                    *)
MaxDraws == Profile.draws                  (* bound: commands recorded        *)
MaxSubmissions == Profile.submissions      (* bound: submissions              *)
MaxFrames == Profile.frames                (* bound: frames                   *)
MaxDirect == Profile.direct                (* bound: direct queue operations  *)
                                           (* and failed awaits               *)
AwaitMayFail == Profile.await_fails        (* fence events may fail to be     *)
                                           (* armed or awaited                *)
ReadbackMayChange == Profile.readback      (* d3d12_readback_resolve may be   *)
                                           (* switched on                     *)
ClearMayBeRequested == Profile.clear       (* ClearCaches may be called       *)

(* Between calls nothing of the last one is left on the CP's stack. *)
IdleCp == [pc |-> "idle", ret |-> "idle", end_ret |-> "idle", after |-> "idle",
           next |-> "idle", await |-> 0, before |-> 0, swap |-> FALSE,
           guest |-> FALSE, copy |-> FALSE]

Init ==
  /\ WorkerInit
  /\ \E profile \in DOMAIN Profiles :
       env = [gpu |-> 0, removed |-> FALSE, draws |-> 0, profile |-> profile]
  /\ cp = IdleCp
  /\ sub = [open |-> FALSE, current |-> 1, completed |-> 0,
            chunk |-> NoAllocator, direct |-> FALSE, direct_last |-> 0]
  /\ frames = [open |-> FALSE, current |-> 1, completed |-> 0,
               closed |-> [i \in 0 .. QueueFrames - 1 |-> 0]]
  /\ pools = [writable |-> <<>>, submitted |-> <<>>]
  /\ worker = "unattempted"
  /\ lost = FALSE
  /\ clear = FALSE
  /\ readback = FALSE

-----------------------------------------------------------------------------
(* The queue, its fences and its device. *)

Consumed == {queue[i] : i \in 1 .. env.gpu}
GpuPending == {queue[i] : i \in env.gpu + 1 .. Len(queue)}

FenceValue(kind) == Max({0} \union {e.value : e \in {x \in Consumed :
                                                       x.kind = kind}})
SubmissionFence == FenceValue("signal")
DirectFence == FenceValue("direct_signal")

DirectEntry ==
  [kind |-> "direct", commands |-> <<>>, allocator |-> NoAllocator,
   value |-> sub.current]
DirectSignalEntry(value) ==
  [kind |-> "direct_signal", commands |-> <<>>, allocator |-> NoAllocator,
   value |-> value]

GpuStep ==
  /\ ~env.removed
  /\ env.gpu < Len(queue)
  /\ env' = [env EXCEPT !.gpu = @ + 1]
  /\ UNCHANGED <<workerVars, cpuVars>>

(* Removal completes every fence with UINT64_MAX and stops the GPU. *)
DeviceRemoved ==
  /\ ~env.removed
  /\ env' = [env EXCEPT !.removed = TRUE]
  /\ UNCHANGED <<workerVars, cpuVars>>

-----------------------------------------------------------------------------
(* Steps the CP's functions share. *)

At(pc) == cp.pc = pc
Goto(pc) == cp' = IF pc = "idle" THEN IdleCp ELSE [cp EXCEPT !.pc = pc]

CheckNativeReplayResult == lost' = (lost \/ Failed(result))

(* FlushNativeReplay at pc: Wait blocks, or reaps and yields Result.       *)
FlushNativeReplay(pc, done, failed) ==
  /\ At(pc)
  /\ "cp" \notin waiters
  /\ \/ /\ WaitReturn
        /\ CheckNativeReplayResult
        /\ IF Failed(result) THEN failed ELSE done
     \/ WaitBlock /\ UNCHANGED <<cp, lost>>
  /\ UNCHANGED <<sub, frames, pools, worker, clear, readback, env>>

(* For the mutants below: FlushNativeReplay is not called at pc. *)
WithoutFlush(pc, next) ==
  /\ At(pc)
  /\ Goto(next)
  /\ UNCHANGED <<workerVars, sub, frames, pools, worker, lost, clear, readback,
                 env>>

(* The result of an EndSubmission goes to a caller that ends there or to   *)
(* CheckSubmissionFence, which returns at once when it is FALSE.           *)
ReturnFromEnd(ok) ==
  Goto(IF cp.end_ret # "fence" THEN "idle"
       ELSE IF ok THEN "fence_direct" ELSE cp.ret)

Await(after) ==
  cp' = [cp EXCEPT !.pc = "fence", !.ret = "await", !.after = after,
                   !.await = sub.current]

KnownAllocators ==
  {pools.writable[i] : i \in 1 .. Len(pools.writable)}
    \union {pools.submitted[i].allocator : i \in 1 .. Len(pools.submitted)}
    \union {sub.chunk}

(* EnsureWritableCommandAllocator: the writable list with a first element, *)
(* or an empty one when no allocator could be created.                     *)
Writable ==
  IF pools.writable # <<>> THEN {pools.writable}
  ELSE {<<>>} \union {<<a>> : a \in Allocators \ KnownAllocators}

(* EnsureNativeReplayWorker: one attempt in the life of the CP. *)
Workers == IF worker = "unattempted" THEN {"ready", "unavailable"}
           ELSE {worker}

-----------------------------------------------------------------------------
(* BeginSubmission. *)

Opening == cp.guest /\ ~frames.open

CallBeginSubmission(guest, copy) ==
  /\ At("idle")
  /\ frames.current <= MaxFrames /\ sub.current <= MaxSubmissions
  /\ LET opening == guest /\ ~frames.open
         resumed == sub.open /\ ~opening
         to(pc, await) == cp' = [cp EXCEPT !.pc = pc, !.guest = guest,
                                           !.copy = copy, !.ret = "begin",
                                           !.await = await]
     IN \/ /\ lost \/ Failed(result) \/ (env.removed /\ ~resumed)
           /\ lost' = TRUE
           /\ UNCHANGED cp
        \/ /\ ~lost /\ ~Failed(result) /\ resumed
           /\ to("record", 0)
           /\ UNCHANGED lost
        \/ /\ ~lost /\ ~Failed(result) /\ ~env.removed /\ ~resumed
           /\ to("fence", IF opening
                          THEN frames.closed[frames.current % QueueFrames]
                          ELSE 0)
           /\ UNCHANGED lost
  /\ UNCHANGED <<workerVars, sub, frames, pools, worker, clear, readback, env>>

(* Mutant of CompletedFrame: every frame before this one counts. *)
CompletedFrameBeforeThis == frames.current - 1

(* frame_completed_: the frame whose submission was awaited, and those     *)
(* after it that submission_completed_ covers.                             *)
CompletedFrame ==
  LET base == Max({frames.current, QueueFrames}) - QueueFrames
      done(f) == frames.closed[f % QueueFrames] <= sub.completed
  IN Max({f \in base .. Max({base, frames.current - 1}) :
            \A g \in base + 1 .. f : done(g)})

BeginOpen ==
  /\ At("begin")
  /\ IF lost
     THEN Goto("idle") /\ UNCHANGED <<source, sub, frames>>
     ELSE /\ sub' = [sub EXCEPT !.open = TRUE]
          /\ source' = IF sub.open THEN source ELSE <<>>
          /\ frames' = IF Opening
                       THEN [frames EXCEPT !.completed = CompletedFrame,
                                           !.open = TRUE]
                       ELSE frames
          /\ Goto("record")
  /\ UNCHANGED <<slotVars, stream, list, replay_state, wpc, whr, queue, pools,
                 worker, lost, clear, readback, env>>

-----------------------------------------------------------------------------
(* IssueDraw and IssueCopy once a submission is open. *)

RecordCommand ==
  /\ env.draws < MaxDraws
  /\ env' = [env EXCEPT !.draws = @ + 1]
  /\ source' = Append(source, [submission |-> sub.current,
                               frame |-> frames.current])

(* A draw, perhaps one whose memory export is read back, or a copy that is *)
(* not; each may fail before it records anything.                          *)
Record ==
  /\ At("record")
  /\ ~(cp.copy /\ readback)
  /\ \/ UNCHANGED <<source, env>> /\ Goto("idle")
     \/ /\ RecordCommand
        /\ IF cp.copy THEN Goto("idle") ELSE Goto("boundary") \/ Goto("export")
  /\ UNCHANGED <<slotVars, stream, list, replay_state, wpc, whr, queue, sub,
                 frames, pools, worker, lost, clear, readback>>

(* IssueDraw_MemexportReadbackFullPath flushes, records its copies with the *)
(* draw and awaits them; IssueDraw goes on whatever it returns.            *)
MemexportReadback ==
  FlushNativeReplay("export", Await("boundary"), Goto("boundary"))

(* IssueCopy_ReadbackResolvePath: the await it makes for the worker, the   *)
(* resolve and the copy it records, and the await of the full mode.        *)
BeginReadback ==
  /\ At("record")
  /\ cp.copy /\ readback
  /\ IF worker = "ready" THEN Await("copy") ELSE Goto("copy")
  /\ UNCHANGED <<workerVars, sub, frames, pools, worker, lost, clear, readback,
                 env>>

RecordReadback ==
  /\ At("copy")
  /\ \/ UNCHANGED <<source, env>> /\ Goto("idle")
     \/ RecordCommand /\ (Goto("idle") \/ Await("idle"))
  /\ UNCHANGED <<slotVars, stream, list, replay_state, wpc, whr, queue, sub,
                 frames, pools, worker, lost, clear, readback>>

(* Memory a draw or a resolve requests may have to be mapped first.        *)
CallDirect ==
  /\ (At("record") /\ ~(cp.copy /\ readback)) \/ At("copy")
  /\ Cardinality({i \in 1 .. Len(queue) : queue[i].kind = "direct"}) < MaxDirect
  /\ cp' = [cp EXCEPT !.pc = "direct_flush", !.next = cp.pc]
  /\ UNCHANGED <<workerVars, sub, frames, pools, worker, lost, clear, readback,
                 env>>

(* Mutant of DirectFlush: the queue is used while the worker may. *)
DirectFlushSkipped == WithoutFlush("direct_flush", "direct")

DirectFlush == FlushNativeReplay("direct_flush", Goto("direct"), Goto("idle"))

(* UpdateTileMappings, on the queue itself and outside any command list.   *)
UpdateTileMappings ==
  /\ At("direct")
  /\ queue' = Append(queue, DirectEntry)
  /\ sub' = [sub EXCEPT !.direct = TRUE]
  /\ Goto(cp.next)
  /\ UNCHANGED <<slotVars, stream, source, list, replay_state, wpc, whr, frames,
                 pools, worker, lost, clear, readback, env>>

(* ReplayNativeDrawBoundary.  How many draws make a chunk and the features  *)
(* that suppress one are left to choice, as is the cvar that enables it.    *)
ReplayNativeDrawBoundary ==
  /\ At("boundary")
  /\ \/ Goto("idle") /\ UNCHANGED worker
     \/ /\ sub.open /\ frames.open /\ ~lost /\ ~clear /\ ~readback
        /\ worker' \in Workers
        /\ Goto(IF worker' = "ready" THEN "chunk_ready" ELSE "idle")
  /\ UNCHANGED <<workerVars, sub, frames, pools, lost, clear, readback, env>>

CheckChunkSlot ==
  /\ At("chunk_ready")
  /\ ReapCompleted
  /\ IF ReadyForChunk THEN Goto("chunk") \/ Goto("idle")
                      ELSE Goto("chunk_result")
  /\ UNCHANGED <<stop, result, stream, source, list, replay_state, waiters,
                 wpc, whr, queue, sub, frames, pools, worker, lost, clear,
                 readback, env>>

NotifyThen(next) == cp' = [cp EXCEPT !.pc = "notify", !.next = next]

AppendChunk ==
  /\ At("chunk")
  /\ sub.chunk # NoAllocator
  /\ TryAppendChunk
  /\ IF CanAppend THEN NotifyThen("chunk_result") ELSE Goto("chunk_result")
  /\ UNCHANGED <<sub, frames, pools, worker, lost, clear, readback, env>>

BeginChunks ==
  /\ At("chunk")
  /\ sub.chunk = NoAllocator
  /\ \E writable \in Writable :
       \/ /\ writable = <<>>
          /\ Goto("idle")
          /\ UNCHANGED <<workerVars, sub, pools>>
       \/ /\ writable # <<>>
          /\ Start(Head(writable), sub.current, TRUE)
          /\ sub' = [sub EXCEPT !.chunk = Head(writable)]
          /\ pools' = [pools EXCEPT !.writable = Tail(writable)]
          /\ NotifyThen("chunk_result")
       \/ /\ writable # <<>>
          /\ ~CanStart
          /\ pools' = [pools EXCEPT !.writable = writable]
          /\ Goto("chunk_result")
          /\ UNCHANGED <<workerVars, sub>>
  /\ UNCHANGED <<frames, worker, lost, clear, readback, env>>

(* notify_one, and after a chunk the reset of the returned stream. *)
Notify ==
  /\ At("notify")
  /\ NotifyOne
  /\ source' = IF cp.next = "chunk_result" THEN <<>> ELSE source
  /\ Goto(cp.next)
  /\ UNCHANGED <<state, stop, session_active, result, job, stats, stream, list,
                 replay_state, wpc, whr, queue, sub, frames, pools, worker,
                 lost, clear, readback, env>>

ChunkResult ==
  /\ At("chunk_result")
  /\ CheckNativeReplayResult
  /\ Goto("idle")
  /\ UNCHANGED <<workerVars, sub, frames, pools, worker, clear, readback, env>>

-----------------------------------------------------------------------------
(* EndSubmission. *)

CallEndSubmission(swap) ==
  /\ At("idle")
  /\ sub.current <= MaxSubmissions /\ frames.current <= MaxFrames
  /\ cp' = [cp EXCEPT !.pc = "end", !.end_ret = "idle", !.swap = swap]
  /\ UNCHANGED <<workerVars, sub, frames, pools, worker, lost, clear, readback,
                 env>>

(* Mutant of EndFlush: the worker may still hold the last submission. *)
EndFlushSkipped ==
  WithoutFlush("end", IF sub.open THEN "end_submit" ELSE "end_close")

EndFlush ==
  FlushNativeReplay("end", IF lost THEN ReturnFromEnd(FALSE)
                           ELSE Goto(IF sub.open THEN "end_submit"
                                     ELSE "end_close"),
                    ReturnFromEnd(FALSE))

(* The last part of an open chunk session, whatever the options are now.   *)
EndFinishChunks ==
  /\ At("end_submit")
  /\ sub.chunk # NoAllocator
  /\ \/ /\ FinishChunks
        /\ NotifyThen(IF cp.swap THEN "end_swap" ELSE "end_books")
        /\ UNCHANGED lost
     \/ /\ ~CanFinish
        /\ lost' = TRUE
        /\ ReturnFromEnd(FALSE)
        /\ UNCHANGED workerVars
  /\ UNCHANGED <<sub, frames, pools, worker, clear, readback, env>>

EndSwapFlush == FlushNativeReplay("end_swap", Goto("end_books"),
                                  ReturnFromEnd(FALSE))

(* Without a session: the worker takes the whole submission, or the CP     *)
(* replays it itself.                                                      *)
EndSubmit ==
  /\ At("end_submit")
  /\ sub.chunk = NoAllocator
  /\ \E writable \in Writable :
       /\ pools' = [pools EXCEPT !.writable = writable]
       /\ \/ /\ writable = <<>>
             /\ ReturnFromEnd(FALSE)
             /\ UNCHANGED <<workerVars, worker>>
          \/ /\ writable # <<>>
             /\ ~cp.swap /\ frames.open /\ ~readback
             /\ "ready" \in Workers /\ worker' = "ready"
             /\ Start(Head(writable), sub.current, FALSE)
             /\ NotifyThen("end_books")
          \/ /\ writable # <<>>
             /\ worker' \in {worker} \union Workers
             /\ Goto("end_replay")
             /\ UNCHANGED workerVars
  /\ UNCHANGED <<sub, frames, lost, clear, readback, env>>

(* Reset, replay, close, execute and signal on the CP itself.  A call that *)
(* fails here is not looked at; the device is then removed.                *)
EndReplay ==
  /\ At("end_replay")
  /\ \/ /\ queue' = queue \o <<ExecuteEntry(source, Head(pools.writable)),
                               SignalEntry(sub.current)>>
        /\ UNCHANGED env
     \/ /\ env' = [env EXCEPT !.removed = TRUE]
        /\ UNCHANGED queue
  /\ Goto("end_books")
  /\ UNCHANGED <<slotVars, stream, source, list, replay_state, wpc, whr, sub,
                 frames, pools, worker, lost, clear, readback>>

(* The allocator of the submission that ends, and those it leaves writable *)
UsedAllocator ==
  IF sub.chunk # NoAllocator THEN sub.chunk ELSE Head(pools.writable)
LeftWritable ==
  IF sub.chunk # NoAllocator THEN pools.writable ELSE Tail(pools.writable)

EndBooks ==
  /\ At("end_books")
  /\ pools' = [writable  |-> LeftWritable,
               submitted |-> Append(pools.submitted,
                                    [allocator |-> UsedAllocator,
                                     last |-> sub.current])]
  /\ sub' = [sub EXCEPT !.open = FALSE, !.current = @ + 1,
                         !.chunk = NoAllocator, !.direct = FALSE]
  /\ Goto("end_close")
  /\ UNCHANGED <<workerVars, frames, worker, lost, clear, readback, env>>

(* The end of a frame, and the cache clear that may have been requested.   *)
EndClose ==
  /\ At("end_close")
  /\ IF cp.swap /\ frames.open
     THEN /\ frames' = [frames EXCEPT
                          !.open = FALSE, !.current = @ + 1,
                          !.closed[frames.current % QueueFrames]
                            = sub.current - 1]
          /\ IF clear THEN Await("clear") ELSE ReturnFromEnd(TRUE)
     ELSE UNCHANGED frames /\ ReturnFromEnd(TRUE)
  /\ UNCHANGED <<workerVars, sub, pools, worker, lost, clear, readback, env>>

-----------------------------------------------------------------------------
(* CheckSubmissionFence. *)

FenceEnter ==
  /\ At("fence")
  /\ CheckNativeReplayResult
  /\ cp' = IF Failed(result) THEN [cp EXCEPT !.pc = cp.ret]
           ELSE IF cp.await < sub.current THEN [cp EXCEPT !.pc = "fence_check"]
           ELSE IF sub.open
           THEN [cp EXCEPT !.pc = "end", !.end_ret = "fence", !.swap = FALSE]
           ELSE [cp EXCEPT !.pc = "fence_direct"]
  /\ UNCHANGED <<workerVars, sub, frames, pools, worker, clear, readback, env>>

AwaitLastSubmission ==
  cp' = [cp EXCEPT !.pc = "fence_check", !.await = sub.current - 1]

FenceNoDirect ==
  /\ At("fence_direct")
  /\ ~sub.direct
  /\ AwaitLastSubmission
  /\ UNCHANGED <<workerVars, sub, frames, pools, worker, lost, clear, readback,
                 env>>

FenceDirectFlush ==
  /\ sub.direct
  /\ FlushNativeReplay("fence_direct", Goto("fence_direct_signal"),
                       Goto(cp.ret))

FenceDirectSignal ==
  /\ At("fence_direct_signal")
  /\ sub' = [sub EXCEPT !.direct_last = @ + 1]
  /\ \/ /\ queue' = Append(queue, DirectSignalEntry(sub'.direct_last))
        /\ Goto("fence_direct_wait")
     \/ /\ AwaitMayFail
        /\ queue' \in {queue, Append(queue, DirectSignalEntry(sub'.direct_last))}
        /\ AwaitLastSubmission
  /\ UNCHANGED <<slotVars, stream, source, list, replay_state, wpc, whr, frames,
                 pools, worker, lost, clear, readback, env>>

FenceDirectWait ==
  /\ At("fence_direct_wait")
  /\ env.removed \/ DirectFence >= sub.direct_last
  /\ sub' = [sub EXCEPT !.direct = env.removed]
  /\ AwaitLastSubmission
  /\ UNCHANGED <<workerVars, frames, pools, worker, lost, clear, readback, env>>

(* How many submitted allocators, from the oldest, the GPU is done with.   *)
Retired(completed) ==
  Max({n \in 0 .. Len(pools.submitted) :
         \A i \in 1 .. n : pools.submitted[i].last <= completed})

(* The allocators a newly completed submission gives back, oldest first.   *)
Reclaim(completed, before) ==
  LET n == IF completed <= before THEN 0 ELSE Retired(completed)
      back == [i \in 1 .. n |-> pools.submitted[i].allocator]
  IN pools' = [writable  |-> pools.writable \o back,
               submitted |-> SubSeq(pools.submitted, n + 1,
                                    Len(pools.submitted))]

(* GetCompletedValue read UINT64_MAX. *)
FenceLost ==
  /\ env.removed
  /\ lost' = TRUE
  /\ Goto(cp.ret)
  /\ UNCHANGED <<sub, pools>>

FenceCheck ==
  /\ At("fence_check")
  /\ \/ FenceLost
     \/ /\ ~env.removed
        /\ sub' = [sub EXCEPT !.completed = SubmissionFence]
        /\ UNCHANGED lost
        /\ IF sub'.completed < cp.await
           THEN /\ cp' = [cp EXCEPT !.pc = "fence_flush",
                                    !.before = sub.completed]
                /\ UNCHANGED pools
           ELSE Goto(cp.ret) /\ Reclaim(sub'.completed, sub.completed)
  /\ UNCHANGED <<workerVars, frames, worker, clear, readback, env>>

(* Mutant of FenceFlush: the CP waits for a value the worker may never     *)
(* signal, or that it would only see after its own wait.                   *)
FenceFlushSkipped == WithoutFlush("fence_flush", "fence_wait")

FenceFlush == FlushNativeReplay("fence_flush", Goto("fence_wait"),
                                Goto(cp.ret))

(* SetEventOnCompletion and the wait for its event. *)
FenceWait ==
  /\ At("fence_wait")
  /\ \/ FenceLost
     \/ /\ ~env.removed
        /\ SubmissionFence >= cp.await
        /\ sub' = [sub EXCEPT !.completed = SubmissionFence]
        /\ Reclaim(sub'.completed, cp.before)
        /\ Goto(cp.ret)
        /\ UNCHANGED lost
  /\ UNCHANGED <<workerVars, frames, worker, clear, readback, env>>

(* Mutant of FenceWaitFails: the awaited value counts all the same. *)
FenceWaitAssumed ==
  /\ At("fence_wait") /\ AwaitMayFail
  /\ sub' = [sub EXCEPT !.completed = cp.await]
  /\ Reclaim(cp.await, cp.before)
  /\ Goto(cp.ret)
  /\ UNCHANGED <<workerVars, frames, worker, lost, clear, readback, env>>

(* The event could not be armed or waited for; the fence is read once more *)
(* after an unsuccessful wait.                                             *)
FenceWaitFails ==
  /\ At("fence_wait") /\ AwaitMayFail
  /\ sub' \in {sub, [sub EXCEPT !.completed = SubmissionFence]}
  /\ Reclaim(sub'.completed, cp.before)
  /\ Goto(cp.ret)
  /\ UNCHANGED <<workerVars, frames, worker, lost, clear, readback, env>>

-----------------------------------------------------------------------------
(* AwaitAllQueueOperationsCompletion and its callers. *)

CallAwait(after) ==
  /\ At("idle")
  /\ sub.current <= MaxSubmissions
  /\ Await(after)
  /\ UNCHANGED <<workerVars, sub, frames, pools, worker, lost, clear, readback,
                 env>>

(* Mutant of Proven: operations made outside submissions are forgotten. *)
ProvenSubmissions ==
  /\ ~lost /\ ~sub.open /\ sub.chunk = NoAllocator
  /\ sub.completed + 1 >= sub.current

(* What AwaitAllQueueOperationsCompletion returns after its own flush.     *)
Proven ==
  /\ ~lost /\ ~sub.open /\ sub.chunk = NoAllocator /\ ~sub.direct
  /\ sub.completed + 1 >= sub.current

AwaitFlush ==
  FlushNativeReplay("await", Goto(IF Proven THEN "proven" ELSE "unproven"),
                    Goto("unproven"))

(* The caller goes on with what it needed an idle GPU for; a cache clear   *)
(* destroys every command allocator.  NbCommandProcessor::ShutdownContext  *)
(* awaits for its own resources, then lets its base class shut down.       *)
AfterProof ==
  /\ At("proven")
  /\ IF cp.after = "resources" THEN Await("shutdown")
     ELSE Goto(IF cp.after = "shutdown"
               THEN IF worker = "ready" THEN "destroy" ELSE "torn_down"
               ELSE IF cp.after = "clear" THEN "idle" ELSE cp.after)
  /\ IF cp.after = "clear"
     THEN /\ pools' = [writable |-> <<>>, submitted |-> <<>>]
          /\ clear' = FALSE
     ELSE UNCHANGED <<pools, clear>>
  /\ UNCHANGED <<workerVars, sub, frames, worker, lost, readback, env>>

AfterNoProof ==
  /\ At("unproven")
  /\ IF cp.after = "resources" /\ worker # "ready" THEN Await("shutdown")
     ELSE Goto(IF cp.after \in {"resources", "shutdown"}
               THEN IF worker = "ready" THEN "terminate" ELSE "torn_down"
               ELSE IF cp.after = "boundary" THEN "boundary" ELSE "idle")
  /\ UNCHANGED <<workerVars, sub, frames, pools, worker, lost, clear, readback,
                 env>>

(* TerminateUnprovenNativeReplay. *)
Terminate == FlushNativeReplay("terminate", Goto("exited"), Goto("exited"))

(* native_replay_worker_.reset(). *)
DestroyWait == FlushNativeReplay("destroy", Goto("destroy_stop"),
                                 Goto("destroy_stop"))
DestroyStop ==
  /\ At("destroy_stop")
  /\ RequestStop
  /\ NotifyThen("destroy_join")
  /\ UNCHANGED <<sub, frames, pools, worker, lost, clear, readback, env>>
DestroyJoin ==
  /\ At("destroy_join")
  /\ wpc = "exited"
  /\ Goto("torn_down")
  /\ UNCHANGED <<workerVars, sub, frames, pools, worker, lost, clear, readback,
                 env>>

-----------------------------------------------------------------------------
(* The other things the CP does. *)

RequestCacheClear ==
  /\ ClearMayBeRequested /\ At("idle") /\ ~clear
  /\ clear' = TRUE
  /\ UNCHANGED <<workerVars, cp, sub, frames, pools, worker, lost, readback,
                 env>>

EnableReadback ==
  /\ ReadbackMayChange /\ At("idle") /\ ~readback
  /\ readback' = TRUE
  /\ UNCHANGED <<workerVars, cp, sub, frames, pools, worker, lost, clear, env>>

CpCall ==
  /\ sub.direct_last <= MaxDirect
  /\ \/ \E guest \in BOOLEAN : CallBeginSubmission(guest, FALSE)
     \/ CallBeginSubmission(TRUE, TRUE)
     \/ \E swap \in BOOLEAN : CallEndSubmission(swap)
     \/ \E after \in {"idle", "resources"} : CallAwait(after)
     \/ RequestCacheClear \/ EnableReadback

CpContinue ==
  \/ BeginOpen \/ Record \/ MemexportReadback \/ BeginReadback \/ RecordReadback
  \/ ReplayNativeDrawBoundary \/ CheckChunkSlot \/ AppendChunk \/ BeginChunks
  \/ Notify \/ ChunkResult
  \/ EndFlush \/ EndFinishChunks \/ EndSwapFlush \/ EndSubmit \/ EndReplay
  \/ EndBooks \/ EndClose
  \/ FenceEnter \/ FenceNoDirect \/ FenceDirectFlush \/ FenceDirectSignal
  \/ FenceDirectWait \/ FenceCheck \/ FenceFlush \/ FenceWait
  \/ AwaitFlush \/ AfterProof \/ AfterNoProof \/ Terminate
  \/ DestroyWait \/ DestroyStop \/ DestroyJoin
  \/ CallDirect \/ DirectFlush \/ UpdateTileMappings

(* A worker that does not exist, or whose process has exited, is still.    *)
WorkerStep ==
  /\ worker = "ready" /\ ~At("exited")
  /\ WorkerNext
  /\ UNCHANGED <<cpuVars, env>>

Next == CpCall \/ CpContinue \/ FenceWaitFails \/ WorkerStep \/ GpuStep \/ DeviceRemoved

Spec == Init /\ [][Next]_vars

(* Threads that can run do, and a GPU that is not removed makes progress;   *)
(* nothing has to fail.                                                     *)
FairSpec == /\ Spec
            /\ WF_vars(CpContinue) /\ WF_vars(WorkerStep) /\ WF_vars(GpuStep)

-----------------------------------------------------------------------------
(* Properties. *)

Records == [submission : Nat, frame : Nat]

(* Every variable keeps its shape, and the allocator a session, a job or a *)
(* pool refers to exists.                                                  *)
TypeOK ==
  /\ state \in {"Idle", "Queued", "Running", "Complete"}
  /\ state \in {"Queued", "Running"} => job.allocator \in Allocators
  /\ stream \in Seq(Records) /\ source \in Seq(Records)
  /\ list.commands \in Seq(Records)
  /\ sub \in [open : BOOLEAN, current : Nat, completed : Nat,
              chunk : Allocators \union {NoAllocator}, direct : BOOLEAN,
              direct_last : Nat]
  /\ frames \in [open : BOOLEAN, current : Nat, completed : Nat,
                 closed : [0 .. QueueFrames - 1 -> Nat]]
  /\ pools.writable \in Seq(Allocators)
  /\ pools.submitted \in Seq([allocator : Allocators, last : Nat])
  /\ worker \in {"unattempted", "ready", "unavailable"}
  /\ <<lost, clear, readback, env.removed>> \in [1 .. 4 -> BOOLEAN]
  /\ env.gpu \in 0 .. Len(queue)

(* Neither the worker nor the CP resets an allocator, or records into it,  *)
(* while the GPU may still execute a list recorded from it.                *)
AllocatorIsIdle ==
  LET idle(a) == \A e \in GpuPending : e.allocator # a
  IN /\ wpc \in {"reset_allocator", "reset_list", "replay", "close"}
          => idle(job.allocator)
     /\ At("end_replay") /\ ~env.removed => idle(Head(pools.writable))

(* An allocator is in one place: writable, submitted, or with the open     *)
(* chunk session ("Detached from the writable pool ... and retained until  *)
(* the same original submission is finalized").                            *)
AllocatorHasOneOwner ==
  LET owners == pools.writable
                \o [i \in 1 .. Len(pools.submitted) |->
                     pools.submitted[i].allocator]
                \o (IF sub.chunk = NoAllocator THEN <<>> ELSE <<sub.chunk>>)
  IN \A i, j \in 1 .. Len(owners) : i # j => owners[i] # owners[j]

(* Whoever replays it, CP or worker, each submission reaches the queue at  *)
(* most once, in order, with its own commands, its own signal behind it.   *)
SubmissionsInOrder ==
  \A i \in 1 .. Len(queue) :
    /\ queue[i].kind = "signal" =>
         /\ i > 1 /\ queue[i - 1].kind = "execute"
         /\ \A c \in ToSet(queue[i - 1].commands) :
              c.submission = queue[i].value
         /\ \A j \in 1 .. i - 1 :
              queue[j].kind = "signal" => queue[j].value < queue[i].value
    /\ queue[i].kind = "execute" /\ i < Len(queue)
         => queue[i + 1].kind = "signal"

(* An operation made on the queue directly is behind every submission that *)
(* was ended before it and in front of every later one, although the       *)
(* worker may be the one that submits them.                                *)
DirectOperationsInOrder ==
  \A i, j \in 1 .. Len(queue) :
    queue[i].kind = "direct" /\ queue[j].kind = "signal"
      => (j < i <=> queue[j].value < queue[i].value)

(* What a frame counted complete recorded has been executed: its transient *)
(* uploads (constant_buffer_pool_->Reclaim) are not read any more.         *)
CompletedFramesAreExecuted ==
  LET held == IF state = "Queued" \/ wpc \in ExecutePCs \/ session_active
              THEN ToSet(stream) \union ToSet(list.commands) ELSE {}
      recording == IF sub.open /\ cp.pc \notin {"notify", "end_swap", "end_books"}
                   THEN ToSet(source) ELSE {}
      executed == UNION {ToSet(e.commands) : e \in Consumed}
      queued == UNION {ToSet(e.commands) : e \in GpuPending}
  IN \A c \in (held \ executed) \union recording \union queued :
       c.frame > frames.completed

(* When AwaitAllQueueOperationsCompletion returns TRUE, or ShutdownContext *)
(* goes on to free the resources, nothing is queued, running or unread,    *)
(* also outside submissions.                                               *)
QuiescentWhenProven ==
  At("proven") \/ (At("torn_down") /\ worker = "ready")
    => /\ env.gpu = Len(queue)
       /\ state = "Idle" /\ ~session_active /\ wpc \notin ExecutePCs

(* GetDeferredCommandList asserts submission_open_: commands are recorded  *)
(* only into an open submission.                                           *)
RecordsInOpenSubmission == At("record") \/ At("copy") => sub.open

(* Allocators are idle when used and have one owner each, and commands are *)
(* recorded into open submissions only.                                    *)
SubmissionInv ==
  /\ TypeOK
  /\ AllocatorIsIdle
  /\ AllocatorHasOneOwner
  /\ RecordsInOpenSubmission

(* What a completed frame recorded has been executed, where no await of    *)
(* BeginSubmission fails.                                                  *)
RingFramesAreExecuted == ~AwaitMayFail => CompletedFramesAreExecuted

(* The CP thread never waits for a fence value nobody will signal, nor for *)
(* a worker that will not answer.                                          *)
CpReturns == cp.pc # "idle" ~> cp.pc \in {"idle", "torn_down",
                                                        "exited"}

=============================================================================
