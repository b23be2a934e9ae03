------------------------- MODULE OrderedSubmission --------------------------
(***************************************************************************)
(* What a replay worker promises to the command processor that owns it,    *)
(* with no thread, slot or command list: command batches reach the queue   *)
(* whole and one at a time, each followed at once by the signal of the     *)
(* fence value reserved for it, until a failure ends everything.  It is    *)
(* the contract written in the comments of native_replay_worker.h.         *)
(***************************************************************************)
EXTENDS Naturals, Sequences, SequencesExt

CONSTANTS Allocators, NoAllocator

VARIABLES
  batch,   (* the batch being assembled or submitted                        *)
  broken,  (* a failure has happened                                        *)
  queue    (* what reached the Direct3D queue, oldest first                 *)

vars == <<batch, broken, queue>>

NoBatch == [phase |-> "none", allocator |-> NoAllocator, value |-> 0,
            commands |-> <<>>]

Init == batch = NoBatch /\ broken = FALSE /\ queue = <<>>

(* A new batch: its allocator and its fence value are fixed from here on.  *)
Open ==
  /\ ~broken
  /\ batch.phase = "none"
  /\ batch'.phase \in {"open", "closed"}
  /\ batch'.allocator \in Allocators
  /\ \A i \in 1 .. Len(queue) : queue[i].value < batch'.value
  /\ UNCHANGED <<broken, queue>>

(* More commands behind those the batch has; perhaps its last ones.        *)
Extend ==
  /\ ~broken
  /\ batch.phase = "open"
  /\ batch'.phase \in {"open", "closed"}
  /\ IsPrefix(batch.commands, batch'.commands)
  /\ batch' = [batch EXCEPT !.phase = batch'.phase,
                            !.commands = batch'.commands]
  /\ UNCHANGED <<broken, queue>>

ExecuteBatch ==
  /\ ~broken
  /\ batch.phase = "closed"
  /\ batch' = [batch EXCEPT !.phase = "executed"]
  /\ queue' = Append(queue, [kind |-> "execute", commands |-> batch.commands,
                             allocator |-> batch.allocator, value |-> 0])
  /\ UNCHANGED broken

SignalBatch ==
  /\ ~broken
  /\ batch.phase = "executed"
  /\ batch' = NoBatch
  /\ queue' = Append(queue, [kind |-> "signal", commands |-> <<>>,
                             allocator |-> NoAllocator,
                             value |-> batch.value])
  /\ UNCHANGED broken

Break ==
  /\ batch.phase # "none"
  /\ batch' = NoBatch
  /\ broken' = TRUE
  /\ UNCHANGED queue

Next == Open \/ Extend \/ ExecuteBatch \/ SignalBatch \/ Break

Spec == Init /\ [][Next]_vars

=============================================================================
