---------------------------- MODULE NativeShaderCache ----------------------------
(***************************************************************************)
(* The disk cache of compiled native shaders (native_shader_cache.cpp): one *)
(* entry, as the compile jobs of several processes load it, compile what it *)
(* does not give them, and publish what they compiled through a temporary   *)
(* file of their own.  Entries of other requests have other names.          *)
(***************************************************************************)
EXTENDS Integers, FiniteSets

CONSTANTS
  Writers,     (* compile jobs                                              *)
  Pid,         (* the process each runs in                                  *)
  Blobs,       (* what the compiler may answer the request with             *)
  Nothing,     (* no blob                                                   *)
  MaxNames,    (* bound: temporary_sequence of a process                    *)
  MaxAttempts, (* 32: names tried for a temporary file                      *)
  MaxDamages,  (* bound: times the entry is damaged from outside            *)
  MaxCrashes   (* bound: processes that die                                 *)

NativeShaderCacheAssumption ==
  /\ Nothing \notin Blobs
  /\ MaxNames \in Nat /\ MaxAttempts \in Nat \ {0} /\ MaxDamages \in Nat /\ MaxCrashes \in Nat

VARIABLES
  entry,       (* the file of the request's key                             *)
  temporaries, (* the temporary files by name: process and sequence number  *)
  sequence,    (* temporary_sequence of each process                        *)
  writer,      (* where each job is in Compile, Load and Store              *)
  faults       (* damages and crashes so far                                *)

vars == <<entry, temporaries, sequence, writer, faults>>

Pids == {Pid[w] : w \in Writers}
Names == [pid : Pids, number : 0 .. MaxNames]

(* A file's bytes: whole when header, key, digest and container agree.      *)
NoFile == [exists |-> FALSE, blob |-> Nothing, whole |-> FALSE]
FileOf(blob) == [exists |-> TRUE, blob |-> blob, whole |-> TRUE]
Torn == [exists |-> TRUE, blob |-> Nothing, whole |-> FALSE]

Idle == [pc |-> "idle", blob |-> Nothing, name |-> [pid |-> CHOOSE p \in Pids : TRUE, number |-> 0],
         attempt |-> 0, result |-> Nothing, stored |-> FALSE]

Init ==
  /\ entry \in {NoFile, Torn}
  /\ temporaries = [n \in Names |-> NoFile]
  /\ sequence = [p \in Pids |-> 0]
  /\ writer = [w \in Writers |-> Idle]
  /\ faults = [damages |-> 0, crashes |-> 0]

-----------------------------------------------------------------------------
(* Compile. *)

(* ReadEntry: a hit only for bytes that are whole.                          *)
ReadEntry == [hit |-> entry.exists /\ entry.whole, blob |-> entry.blob]

Go(w, record) == writer' = [writer EXCEPT ![w] = record]

(* Load, and the blob of a hit is the shader.                               *)
LoadHit(w) ==
  /\ writer[w].pc = "idle"
  /\ ReadEntry.hit
  /\ Go(w, [Idle EXCEPT !.pc = "done", !.result = ReadEntry.blob])
  /\ UNCHANGED <<entry, temporaries, sequence, faults>>

(* Or the compiler's answer is, and it is stored; an optional cache that    *)
(* fails changes no draw.                                                   *)
LoadMiss(w) ==
  /\ writer[w].pc = "idle"
  /\ ~ReadEntry.hit
  /\ \E blob \in Blobs : Go(w, [Idle EXCEPT !.pc = "look", !.blob = blob, !.result = blob])
  /\ UNCHANGED <<entry, temporaries, sequence, faults>>

(* Store: "most competing compiles arrive after a winner is present".       *)
LookFirst(w) ==
  /\ writer[w].pc = "look"
  /\ Go(w, IF ~ReadEntry.hit THEN [writer[w] EXCEPT !.pc = "create"]
           ELSE [writer[w] EXCEPT !.pc = "done", !.stored = ReadEntry.blob = writer[w].blob])
  /\ UNCHANGED <<entry, temporaries, sequence, faults>>

(* "CREATE_NEW is the ownership claim."                                     *)
ClaimsTemporary(name) == ~temporaries[name].exists

CreateTemporary(w) ==
  LET pid == Pid[w]
      name == [pid |-> pid, number |-> sequence[pid]]
      attempt == writer[w].attempt + 1
  IN /\ writer[w].pc = "create"
     /\ sequence[pid] < MaxNames
     /\ sequence' = [sequence EXCEPT ![pid] = @ + 1]
     /\ \/ /\ ClaimsTemporary(name)
           /\ temporaries' = [temporaries EXCEPT ![name] = Torn]
           /\ Go(w, [writer[w] EXCEPT !.pc = "write", !.name = name, !.attempt = attempt])
        \/ /\ ~ClaimsTemporary(name)
           /\ Go(w, [writer[w] EXCEPT !.pc = IF attempt < MaxAttempts THEN "create" ELSE "done",
                                      !.attempt = attempt])
           /\ UNCHANGED temporaries
     /\ UNCHANGED <<entry, faults>>

(* Any other error ends it.                                                 *)
CreateFails(w) ==
  /\ writer[w].pc = "create"
  /\ Go(w, [writer[w] EXCEPT !.pc = "done"])
  /\ UNCHANGED <<entry, temporaries, sequence, faults>>

(* WriteExact, FlushFileBuffers and Close, which may fail half-way.         *)
WriteTemporary(w, complete) ==
  /\ writer[w].pc = "write"
  /\ temporaries' = [temporaries EXCEPT ![writer[w].name] =
                       IF complete THEN FileOf(writer[w].blob) ELSE Torn]
  /\ Go(w, [writer[w] EXCEPT !.pc = IF complete THEN "move" ELSE "delete"])
  /\ UNCHANGED <<entry, sequence, faults>>

(* Mutant of MayMove: MOVEFILE_REPLACE_EXISTING. *)
MayMoveAlways == TRUE

(* MoveFileExW never replaces a file that is there.                         *)
MayMove == ~entry.exists

(* own_temporary = false.                                                   *)
Moved(w) == [writer[w] EXCEPT !.pc = "done", !.stored = TRUE]

Move(w) ==
  /\ writer[w].pc = "move"
  /\ \/ /\ MayMove
        /\ entry' = temporaries[writer[w].name]
        /\ temporaries' = [temporaries EXCEPT ![writer[w].name] = NoFile]
        /\ Go(w, Moved(w))
     \/ /\ Go(w, [writer[w] EXCEPT !.pc = "compare"])   (* an error, of any kind *)
        /\ UNCHANGED <<entry, temporaries>>
  /\ UNCHANGED <<sequence, faults>>

(* Mutant of Identical: who published first is good enough. *)
IdenticalAny(blob) == ReadEntry.hit

Identical(blob) == ReadEntry.hit /\ ReadEntry.blob = blob

(* "Never replace its bytes; compare through the normal validation path."   *)
Compare(w) ==
  /\ writer[w].pc = "compare"
  /\ Go(w, [writer[w] EXCEPT !.pc = "delete", !.stored = Identical(writer[w].blob)])
  /\ UNCHANGED <<entry, temporaries, sequence, faults>>

Delete(w) ==
  /\ writer[w].pc = "delete"
  /\ temporaries' = [temporaries EXCEPT ![writer[w].name] = NoFile]
  /\ Go(w, [writer[w] EXCEPT !.pc = "done"])
  /\ UNCHANGED <<entry, sequence, faults>>

(* The library asks again only in the next run of the program.              *)
Again(w) ==
  /\ writer[w].pc = "done"
  /\ Go(w, Idle)
  /\ UNCHANGED <<entry, temporaries, sequence, faults>>

-----------------------------------------------------------------------------
(* Faults from outside. *)

(* A process dies: its files stay, and a later one may have its number and  *)
(* starts its sequence anew.                                                *)
Crash(pid) ==
  /\ faults.crashes < MaxCrashes
  /\ faults' = [faults EXCEPT !.crashes = @ + 1]
  /\ writer' = [w \in Writers |-> IF Pid[w] = pid THEN Idle ELSE writer[w]]
  /\ sequence' = [sequence EXCEPT ![pid] = 0]
  /\ UNCHANGED <<entry, temporaries>>

(* The entry's bytes are spoiled, or the user deletes the entry.            *)
Damage(file) ==
  /\ faults.damages < MaxDamages /\ entry.exists
  /\ faults' = [faults EXCEPT !.damages = @ + 1]
  /\ entry' = file
  /\ UNCHANGED <<temporaries, sequence, writer>>

Job(w) ==
  \/ LoadHit(w) \/ LoadMiss(w) \/ LookFirst(w) \/ CreateTemporary(w) \/ CreateFails(w)
  \/ \E complete \in BOOLEAN : WriteTemporary(w, complete)
  \/ Move(w) \/ Compare(w) \/ Delete(w)

Next ==
  \/ \E w \in Writers : Job(w) \/ Again(w)
  \/ \E pid \in Pids : Crash(pid)
  \/ \E file \in {Torn, NoFile} : Damage(file)

Spec == Init /\ [][Next]_vars

-----------------------------------------------------------------------------
(* Properties. *)

(* Every variable has its shape, and a job only writes a temporary file     *)
(* that no other job owns.                                                  *)
TypeOK ==
  /\ entry.whole => entry.exists /\ entry.blob \in Blobs
  /\ \A w \in Writers : writer[w].pc \in {"write", "move", "compare", "delete"} =>
       /\ temporaries[writer[w].name].exists
       /\ \A o \in Writers \ {w} : writer[o].pc \in {"write", "move", "compare", "delete"}
                                     => writer[o].name # writer[w].name

(* A shader is a whole blob of its request, whether it was compiled or      *)
(* loaded, whatever lay in the directory.                                   *)
ShaderIsWhole == \A w \in Writers : writer[w].pc = "done" => writer[w].result \in Blobs

(* Only a fault from outside changes an entry that is there: no crash of a  *)
(* writer leaves half of one, and no writer replaces another's bytes.       *)
EntryIsNeverReplaced ==
  [][entry' # entry /\ faults' = faults => ~entry.exists /\ entry'.whole]_vars

(* Store says that it published, or found its own bytes, only when they are *)
(* the entry's.                                                             *)
StoreIsTruthful ==
  [][\A w \in Writers : ~writer[w].stored /\ writer'[w].stored =>
       entry'.whole /\ entry'.blob = writer[w].blob]_vars

=============================================================================
