-------------------------- MODULE MCD3D12Submission --------------------------
(* D3D12Submission for TLC: command allocators are interchangeable, and the *)
(* profiles of the runs.                                                    *)
EXTENDS D3D12Submission, TLC

AllocatorSymmetry == Permutations(Allocators)

(* Chunks, failed awaits and cache clears in few submissions.               *)
Chunks == [ring |-> 3, draws |-> 3, submissions |-> 2, frames |-> 1, direct |-> 0,
           await_fails |-> TRUE, readback |-> FALSE, clear |-> TRUE]

(* Enough frames to go round a ring of two closed frames, while every await *)
(* succeeds.                                                                *)
Ring == [ring |-> 2, draws |-> 1, submissions |-> 3, frames |-> 3, direct |-> 0,
         await_fails |-> FALSE, readback |-> FALSE, clear |-> FALSE]

(* Operations on the queue itself.                                          *)
Direct == [ring |-> 3, draws |-> 1, submissions |-> 2, frames |-> 1, direct |-> 1,
           await_fails |-> TRUE, readback |-> TRUE, clear |-> TRUE]

(* Readback switched on between two submissions.                            *)
Readback == [ring |-> 3, draws |-> 2, submissions |-> 2, frames |-> 1, direct |-> 0,
             await_fails |-> TRUE, readback |-> TRUE, clear |-> TRUE]

ChunkProfiles == <<Chunks, Ring>>
DirectProfiles == <<Direct>>
ReadbackProfiles == <<Readback>>

=============================================================================
