---------------------------- MODULE MCSharedMemory ----------------------------
(* Guest threads are interchangeable. *)
EXTENDS SharedMemory, TLC

ThreadSymmetry == Permutations(Threads)

=============================================================================
