------------------------- MODULE NativeShaders_proofs -------------------------
(***************************************************************************)
(* The shader library, the passes' pipelines and the disk cache, for every  *)
(* set of shaders, pairs, passes, states and jobs and every number of slots.*)
(***************************************************************************)
EXTENDS NativeShaders, FiniteSetTheorems, TLAPS

(***************************************************************************)
(* The disk cache.                                                         *)
(***************************************************************************)
Owning == {"write", "move", "compare", "delete"}

Blobs == Bodies \union {Nothing}

Files == [exists : BOOLEAN, blob : Blobs, whole : BOOLEAN]

Jobs ==
  [pc : Owning \union {"idle", "look", "create", "done"}, blob : Blobs,
   name : DiskCache!Names, attempt : Nat, result : Blobs, stored : BOOLEAN]

DiskTypes ==
  /\ entry \in Files
  /\ temporaries \in [DiskCache!Names -> Files]
  /\ sequence \in [DiskCache!Pids -> 0 .. MaxNames]
  /\ writer \in [Writers -> Jobs]
  /\ faults \in [damages : Nat, crashes : Nat]

EntryIsGood == entry.whole => entry.exists /\ entry.blob \in Bodies

(* A temporary file belongs to one job, of the process in its name, which   *)
(* has counted past it.                                                     *)
Owns(job) ==
  /\ temporaries[writer[job].name].exists
  /\ writer[job].name.pid = Pid[job]
  /\ writer[job].name.number < sequence[Pid[job]]

JobsOwn ==
  \A job \in Writers : writer[job].pc \in Owning =>
    /\ Owns(job)
    /\ \A other \in Writers \ {job} : writer[other].pc \in Owning
                                        => writer[other].name # writer[job].name

(* What a job compiled is its shader, and is what lies in its temporary     *)
(* file when it asks for the move.                                          *)
JobsHold ==
  \A job \in Writers :
    /\ writer[job].pc # "idle" => writer[job].result \in Bodies
    /\ writer[job].pc \notin {"idle", "done"} => writer[job].blob \in Bodies
    /\ writer[job].pc = "move" =>
         temporaries[writer[job].name] = DiskCache!FileOf(writer[job].blob)

DiskInv == DiskTypes /\ EntryIsGood /\ JobsOwn /\ JobsHold

LEMMA DiskFiles ==
  /\ DiskCache!NoFile \in Files /\ DiskCache!Torn \in Files
  /\ ~DiskCache!NoFile.exists /\ ~DiskCache!NoFile.whole
  /\ DiskCache!Torn.exists /\ ~DiskCache!Torn.whole
  /\ \A blob \in Bodies :
       /\ DiskCache!FileOf(blob) \in Files
       /\ DiskCache!FileOf(blob).exists /\ DiskCache!FileOf(blob).whole
       /\ DiskCache!FileOf(blob).blob = blob
BY DEF DiskCache!NoFile, DiskCache!Torn, DiskCache!FileOf, Files, Blobs

LEMMA IdleIsJob ==
  ASSUME NEW job \in Writers
  PROVE  /\ DiskCache!Idle \in Jobs /\ DiskCache!Idle.pc = "idle"
         /\ ~DiskCache!Idle.stored /\ Pid[job] \in DiskCache!Pids
<1>1. Pid[job] \in DiskCache!Pids
  BY DEF DiskCache!Pids
<1>2. (CHOOSE p \in DiskCache!Pids : TRUE) \in DiskCache!Pids
  BY <1>1
<1>3. 0 \in 0 .. MaxNames
  BY ShadersAssumption DEF DiskCache!NativeShaderCacheAssumption
<1> QED BY <1>1, <1>2, <1>3 DEF DiskCache!Idle, Jobs, Blobs, DiskCache!Names

LEMMA DiskInit == AllInit => DiskInv
<1> SUFFICES ASSUME DiskCache!Init PROVE DiskInv
  BY DEF AllInit
<1> USE DEF DiskCache!Init
<1>1. entry \in Files /\ EntryIsGood
  BY DiskFiles DEF EntryIsGood
<1>2. temporaries \in [DiskCache!Names -> Files]
  BY DiskFiles
<1>3. sequence \in [DiskCache!Pids -> 0 .. MaxNames]
  BY ShadersAssumption DEF DiskCache!NativeShaderCacheAssumption
<1>4. writer \in [Writers -> Jobs] /\ \A job \in Writers : writer[job].pc = "idle"
  BY IdleIsJob
<1>5. DiskTypes
  BY <1>1, <1>2, <1>3, <1>4 DEF DiskTypes
<1>6. JobsOwn /\ JobsHold
  BY <1>4 DEF JobsOwn, JobsHold, Owning
<1> QED BY <1>1, <1>5, <1>6 DEF DiskInv

(* A job's record, after a step that changes its place and little else.     *)
LEMMA GoChangesOne ==
  ASSUME DiskInv, NEW job \in Writers, NEW record \in Jobs,
         DiskCache!Go(job, record)
  PROVE  /\ writer' \in [Writers -> Jobs] /\ writer'[job] = record
         /\ \A other \in Writers \ {job} : writer'[other] = writer[other]
BY DEF DiskCache!Go, DiskInv, DiskTypes

(* Steps that leave the files alone and own none they did not own.          *)
LEMMA QuietJobStep ==
  ASSUME DiskInv, NEW job \in Writers, NEW record \in Jobs,
         DiskCache!Go(job, record), UNCHANGED <<entry, temporaries, sequence, faults>>,
         record.pc \in Owning => writer[job].pc \in Owning /\ record.name = writer[job].name,
         record.pc # "idle" => record.result \in Bodies,
         record.pc \notin {"idle", "done"} => record.blob \in Bodies,
         record.pc # "move"
  PROVE  DiskInv'
<1>1. /\ writer' \in [Writers -> Jobs] /\ writer'[job] = record
      /\ \A other \in Writers \ {job} : writer'[other] = writer[other]
  BY GoChangesOne
<1>2. DiskTypes' /\ EntryIsGood'
  BY <1>1 DEF DiskInv, DiskTypes, EntryIsGood
<1>3. JobsOwn'
  BY <1>1 DEF DiskInv, JobsOwn, Owns
<1>4. JobsHold'
  BY <1>1 DEF DiskInv, JobsHold
<1> QED BY <1>2, <1>3, <1>4 DEF DiskInv

LEMMA LoadKeepsDisk ==
  ASSUME DiskInv, NEW job \in Writers,
         \/ DiskCache!LoadHit(job) \/ DiskCache!LoadMiss(job)
         \/ DiskCache!LookFirst(job) \/ DiskCache!CreateFails(job)
         \/ DiskCache!Compare(job) \/ DiskCache!Again(job)
  PROVE  DiskInv'
<1>0. writer[job] \in Jobs
  BY DEF DiskInv, DiskTypes
<1>1. CASE DiskCache!LoadHit(job)
  <2> DEFINE record == [DiskCache!Idle EXCEPT !.pc = "done",
                                              !.result = DiskCache!ReadEntry.blob]
  <2>1. DiskCache!ReadEntry.blob \in Bodies
    BY <1>1 DEF DiskCache!LoadHit, DiskCache!ReadEntry, DiskInv, EntryIsGood
  <2>2. record \in Jobs /\ record.pc = "done" /\ record.result \in Bodies
    BY <2>1, IdleIsJob DEF Jobs, Blobs
  <2>3. DiskCache!Go(job, record)
        /\ UNCHANGED <<entry, temporaries, sequence, faults>>
    BY <1>1 DEF DiskCache!LoadHit
  <2> HIDE DEF record
  <2> QED BY <2>2, <2>3, QuietJobStep DEF Owning
<1>2. CASE DiskCache!LoadMiss(job)
  <2>1. PICK blob \in Bodies :
          DiskCache!Go(job, [DiskCache!Idle EXCEPT !.pc = "look", !.blob = blob,
                                                   !.result = blob])
    BY <1>2 DEF DiskCache!LoadMiss
  <2> DEFINE record == [DiskCache!Idle EXCEPT !.pc = "look", !.blob = blob,
                                              !.result = blob]
  <2>2. /\ record \in Jobs /\ record.pc = "look"
        /\ record.result \in Bodies /\ record.blob \in Bodies
    BY IdleIsJob DEF Jobs, Blobs
  <2>3. DiskCache!Go(job, record)
        /\ UNCHANGED <<entry, temporaries, sequence, faults>>
    BY <1>2, <2>1 DEF DiskCache!LoadMiss
  <2> HIDE DEF record
  <2> QED BY <2>2, <2>3, QuietJobStep DEF Owning
<1>3. CASE DiskCache!LookFirst(job)
  <2> DEFINE found == [writer[job] EXCEPT
                         !.pc = "done",
                         !.stored = (DiskCache!ReadEntry.blob = writer[job].blob)]
             record == IF ~DiskCache!ReadEntry.hit
                       THEN [writer[job] EXCEPT !.pc = "create"] ELSE found
  <2>1. writer[job].pc = "look"
    BY <1>3 DEF DiskCache!LookFirst
  <2>2. writer[job].result \in Bodies /\ writer[job].blob \in Bodies
    BY <2>1 DEF DiskInv, JobsHold
  <2>3. /\ record \in Jobs /\ record.pc \in {"create", "done"}
        /\ record.result \in Bodies /\ record.blob \in Bodies
    BY <1>0, <2>2 DEF Jobs
  <2>4. DiskCache!Go(job, record)
        /\ UNCHANGED <<entry, temporaries, sequence, faults>>
    BY <1>3 DEF DiskCache!LookFirst
  <2> HIDE DEF record
  <2> QED BY <2>3, <2>4, QuietJobStep DEF Owning
<1>4. CASE DiskCache!CreateFails(job)
  <2> DEFINE record == [writer[job] EXCEPT !.pc = "done"]
  <2>1. writer[job].pc = "create"
    BY <1>4 DEF DiskCache!CreateFails
  <2>2. writer[job].result \in Bodies
    BY <2>1 DEF DiskInv, JobsHold
  <2>3. record \in Jobs /\ record.pc = "done" /\ record.result \in Bodies
    BY <1>0, <2>2 DEF Jobs
  <2>4. DiskCache!Go(job, record)
        /\ UNCHANGED <<entry, temporaries, sequence, faults>>
    BY <1>4 DEF DiskCache!CreateFails
  <2> HIDE DEF record
  <2> QED BY <2>3, <2>4, QuietJobStep DEF Owning
<1>5. CASE DiskCache!Compare(job)
  <2> DEFINE record == [writer[job] EXCEPT
                          !.pc = "delete",
                          !.stored = DiskCache!Identical(writer[job].blob)]
  <2>1. writer[job].pc = "compare"
    BY <1>5 DEF DiskCache!Compare
  <2>2. writer[job].result \in Bodies /\ writer[job].blob \in Bodies
    BY <2>1 DEF DiskInv, JobsHold
  <2>3. DiskCache!Identical(writer[job].blob) \in BOOLEAN
    BY DEF DiskCache!Identical, DiskCache!ReadEntry, DiskInv, DiskTypes, Files
  <2>4. /\ record \in Jobs /\ record.pc = "delete"
        /\ record.name = writer[job].name
        /\ record.result \in Bodies /\ record.blob \in Bodies
    BY <1>0, <2>2, <2>3 DEF Jobs, Owning
  <2>5. DiskCache!Go(job, record)
        /\ UNCHANGED <<entry, temporaries, sequence, faults>>
    BY <1>5 DEF DiskCache!Compare
  <2> HIDE DEF record
  <2> QED BY <2>1, <2>4, <2>5, QuietJobStep DEF Owning
<1>6. CASE DiskCache!Again(job)
  <2>1. DiskCache!Go(job, DiskCache!Idle)
        /\ UNCHANGED <<entry, temporaries, sequence, faults>>
    BY <1>6 DEF DiskCache!Again
  <2> QED BY <2>1, IdleIsJob, QuietJobStep DEF Owning
<1> QED BY <1>1, <1>2, <1>3, <1>4, <1>5, <1>6

(* CREATE_NEW gives the job a name that nobody else has.                    *)
LEMMA CreateKeepsDisk ==
  ASSUME DiskInv, NEW job \in Writers, DiskCache!CreateTemporary(job)
  PROVE  DiskInv'
<1> DEFINE pid == Pid[job]
           name == [pid |-> pid, number |-> sequence[pid]]
           attempt == writer[job].attempt + 1
           made == [writer[job] EXCEPT !.pc = "write", !.name = name,
                                       !.attempt = attempt]
           again == [writer[job] EXCEPT
                       !.pc = IF attempt < MaxAttempts THEN "create" ELSE "done",
                       !.attempt = attempt]
<1>0. writer[job] \in Jobs /\ writer[job].pc = "create" /\ pid \in DiskCache!Pids
  BY IdleIsJob DEF DiskCache!CreateTemporary, DiskInv, DiskTypes
<1>1. writer[job].result \in Bodies /\ writer[job].blob \in Bodies
  BY <1>0 DEF DiskInv, JobsHold
<1>2. /\ sequence[pid] < MaxNames
      /\ sequence' = [sequence EXCEPT ![pid] = @ + 1]
      /\ entry' = entry /\ faults' = faults
  BY DEF DiskCache!CreateTemporary
<1>3. \/ /\ ~temporaries[name].exists
         /\ temporaries' = [temporaries EXCEPT ![name] = DiskCache!Torn]
         /\ DiskCache!Go(job, made)
      \/ DiskCache!Go(job, again) /\ temporaries' = temporaries
  BY DEF DiskCache!CreateTemporary, DiskCache!ClaimsTemporary
<1>4. MaxNames \in Nat /\ MaxAttempts \in Nat
  BY ShadersAssumption DEF DiskCache!NativeShaderCacheAssumption
<1>5. sequence \in [DiskCache!Pids -> 0 .. MaxNames]
  BY DEF DiskInv, DiskTypes
<1>6. name \in DiskCache!Names
  BY <1>0, <1>5 DEF DiskCache!Names
<1>7. /\ sequence' \in [DiskCache!Pids -> 0 .. MaxNames]
      /\ sequence'[pid] = sequence[pid] + 1
      /\ \A q \in DiskCache!Pids : sequence'[q] >= sequence[q]
      /\ sequence[pid] \in Nat
  BY <1>0, <1>2, <1>4, <1>5
<1>8. name.pid = pid /\ name.number = sequence[pid]
  OBVIOUS
<1>9. attempt \in Nat
  BY <1>0 DEF Jobs
<1> HIDE DEF name, attempt
<1>10. /\ made \in Jobs /\ made.pc = "write" /\ made.name = name
       /\ made.result \in Bodies /\ made.blob \in Bodies
  BY <1>0, <1>1, <1>6, <1>9 DEF Jobs, Owning
<1>11. /\ again \in Jobs /\ again.pc \in {"create", "done"}
       /\ again.result \in Bodies /\ again.blob \in Bodies
  <2>1. (IF attempt < MaxAttempts THEN "create" ELSE "done") \in {"create", "done"}
    OBVIOUS
  <2> DEFINE pc == IF attempt < MaxAttempts THEN "create" ELSE "done"
  <2> HIDE DEF pc
  <2>2. again = [writer[job] EXCEPT !.pc = pc, !.attempt = attempt]
    BY DEF pc
  <2>3. pc \in {"create", "done"}
    BY <2>1 DEF pc
  <2> HIDE DEF again
  <2> QED BY <1>0, <1>1, <1>9, <2>2, <2>3 DEF Jobs
<1> HIDE DEF made, again
<1>12. CASE /\ ~temporaries[name].exists
            /\ temporaries' = [temporaries EXCEPT ![name] = DiskCache!Torn]
            /\ DiskCache!Go(job, made)
  <2>1. /\ writer' \in [Writers -> Jobs] /\ writer'[job] = made
        /\ \A other \in Writers \ {job} : writer'[other] = writer[other]
    BY <1>10, <1>12, GoChangesOne
  <2>2. /\ temporaries' \in [DiskCache!Names -> Files]
        /\ temporaries'[name].exists
        /\ \A n \in DiskCache!Names \ {name} : temporaries'[n] = temporaries[n]
    BY <1>6, <1>12, DiskFiles DEF DiskInv, DiskTypes
  <2>3. DiskTypes' /\ EntryIsGood'
    BY <1>2, <1>7, <2>1, <2>2 DEF DiskInv, DiskTypes, EntryIsGood
  <2>4. \A other \in Writers \ {job} : writer[other].pc \in Owning =>
          /\ writer[other].name # name /\ writer[other].name \in DiskCache!Names
          /\ Pid[other] \in DiskCache!Pids
          /\ writer[other].name.number \in Nat
    BY <1>4, <1>12, IdleIsJob
       DEF DiskInv, DiskTypes, JobsOwn, Owns, Jobs, DiskCache!Names
  <2>5. JobsOwn'
    <3>1. Owns(job)'
      BY <1>7, <1>10, <1>8, <2>1, <2>2 DEF Owns
    <3>2. ASSUME NEW other \in Writers \ {job}, writer[other].pc \in Owning
          PROVE  Owns(other)'
      <4>1. Owns(other)
        BY <3>2 DEF DiskInv, JobsOwn
      <4>2. /\ sequence'[Pid[other]] \in Int /\ sequence[Pid[other]] \in Int
            /\ sequence'[Pid[other]] >= sequence[Pid[other]]
        BY <1>4, <1>5, <1>7, <2>4, <3>2
      <4> QED BY <2>1, <2>2, <2>4, <3>2, <4>1, <4>2 DEF Owns
    <3> QED BY <1>10, <2>1, <2>4, <3>1, <3>2 DEF DiskInv, JobsOwn
  <2>6. JobsHold'
    BY <1>10, <2>1, <2>2, <2>4 DEF DiskInv, JobsHold, Owning
  <2> QED BY <2>3, <2>5, <2>6 DEF DiskInv
<1>13. CASE DiskCache!Go(job, again) /\ temporaries' = temporaries
  <2>1. /\ writer' \in [Writers -> Jobs] /\ writer'[job] = again
        /\ \A other \in Writers \ {job} : writer'[other] = writer[other]
    BY <1>11, <1>13, GoChangesOne
  <2>2. DiskTypes' /\ EntryIsGood'
    BY <1>2, <1>7, <1>13, <2>1 DEF DiskInv, DiskTypes, EntryIsGood
  <2>3. ASSUME NEW other \in Writers \ {job}, writer[other].pc \in Owning
        PROVE  Owns(other)'
    <3>1. Owns(other) /\ Pid[other] \in DiskCache!Pids
      BY <2>3, IdleIsJob DEF DiskInv, JobsOwn
    <3>2. /\ sequence'[Pid[other]] \in Int /\ sequence[Pid[other]] \in Int
          /\ sequence'[Pid[other]] >= sequence[Pid[other]]
      BY <1>4, <1>5, <1>7, <3>1
    <3>3. writer[other].name.number \in Int
      BY <1>4 DEF DiskInv, DiskTypes, Jobs, DiskCache!Names
    <3> QED BY <1>13, <2>1, <3>1, <3>2, <3>3 DEF Owns
  <2>4. JobsOwn'
    BY <1>11, <2>1, <2>3 DEF DiskInv, JobsOwn, Owning
  <2>5. JobsHold'
    BY <1>11, <1>13, <2>1 DEF DiskInv, JobsHold
  <2> QED BY <2>2, <2>4, <2>5 DEF DiskInv
<1> QED BY <1>3, <1>12, <1>13

(* A job changes its own temporary file and moves on, giving it up or not.  *)
LEMMA OwnFileStep ==
  ASSUME DiskInv, NEW job \in Writers, NEW record \in Jobs, NEW file \in Files,
         writer[job].pc \in Owning,
         DiskCache!Go(job, record), UNCHANGED <<sequence, faults>>,
         temporaries' = [temporaries EXCEPT ![writer[job].name] = file],
         entry' \in Files, EntryIsGood',
         record.pc \in Owning => file.exists,
         record.pc \in Owning \union {"done"},
         record.pc = "move" => file = DiskCache!FileOf(record.blob),
         record.name = writer[job].name, record.blob = writer[job].blob,
         record.result = writer[job].result
  PROVE  DiskInv'
<1>1. /\ writer' \in [Writers -> Jobs] /\ writer'[job] = record
      /\ \A other \in Writers \ {job} : writer'[other] = writer[other]
  BY GoChangesOne
<1>2. writer[job].name \in DiskCache!Names
  BY DEF DiskInv, DiskTypes, Jobs
<1>3. /\ temporaries' \in [DiskCache!Names -> Files]
      /\ temporaries'[writer[job].name] = file
      /\ \A n \in DiskCache!Names \ {writer[job].name} :
           temporaries'[n] = temporaries[n]
  BY <1>2 DEF DiskInv, DiskTypes
<1>4. DiskTypes'
  BY <1>1, <1>3 DEF DiskInv, DiskTypes
<1>5. ASSUME NEW other \in Writers \ {job}, writer[other].pc \in Owning
      PROVE  /\ writer[other].name # writer[job].name
             /\ temporaries'[writer[other].name] = temporaries[writer[other].name]
  <2>1. writer[other].name # writer[job].name
    BY <1>5 DEF DiskInv, JobsOwn
  <2>2. writer[other].name \in DiskCache!Names
    BY <1>5 DEF DiskInv, DiskTypes, Jobs
  <2> QED BY <1>3, <2>1, <2>2
<1>6. JobsOwn'
  BY <1>1, <1>3, <1>5 DEF DiskInv, JobsOwn, Owns
<1>7. JobsHold'
  <2>1. /\ writer[job].result \in Bodies /\ writer[job].blob \in Bodies
    BY DEF DiskInv, JobsHold, Owning
  <2>2. ASSUME NEW other \in Writers \ {job}, writer[other].pc = "move"
        PROVE  temporaries'[writer[other].name]
                 = DiskCache!FileOf(writer[other].blob)
    BY <1>5, <2>2 DEF DiskInv, JobsHold, Owning
  <2> QED BY <1>1, <1>3, <2>1, <2>2 DEF DiskInv, JobsHold
<1> QED BY <1>4, <1>6, <1>7 DEF DiskInv

LEMMA WriteKeepsDisk ==
  ASSUME DiskInv, NEW job \in Writers, NEW complete \in BOOLEAN,
         DiskCache!WriteTemporary(job, complete)
  PROVE  DiskInv'
<1> DEFINE file == IF complete THEN DiskCache!FileOf(writer[job].blob)
                   ELSE DiskCache!Torn
           next == IF complete THEN "move" ELSE "delete"
           record == [writer[job] EXCEPT !.pc = next]
<1>1. /\ writer[job].pc = "write" /\ writer[job] \in Jobs
      /\ writer[job].blob \in Bodies
  BY DEF DiskCache!WriteTemporary, DiskInv, DiskTypes, JobsHold
<1>2. /\ temporaries' = [temporaries EXCEPT ![writer[job].name] = file]
      /\ DiskCache!Go(job, record)
      /\ UNCHANGED <<entry, sequence, faults>>
  BY DEF DiskCache!WriteTemporary
<1>3. file \in Files /\ file.exists
  BY <1>1, DiskFiles
<1>4. next \in {"move", "delete"}
  OBVIOUS
<1>5. next = "move" => file = DiskCache!FileOf(writer[job].blob)
  OBVIOUS
<1> HIDE DEF next, file
<1>6. /\ record \in Jobs /\ record.pc = next /\ record.name = writer[job].name
      /\ record.blob = writer[job].blob /\ record.result = writer[job].result
  BY <1>1, <1>4 DEF Jobs, Owning
<1> HIDE DEF record
<1>7. entry' \in Files /\ EntryIsGood'
  BY <1>2 DEF DiskInv, DiskTypes, EntryIsGood
<1>8. /\ writer[job].pc \in Owning /\ record.pc \in Owning
      /\ record.pc = "move" => file = DiskCache!FileOf(record.blob)
      /\ UNCHANGED <<sequence, faults>>
  BY <1>1, <1>2, <1>4, <1>5, <1>6 DEF Owning
<1> QED BY <1>2, <1>3, <1>6, <1>7, <1>8, OwnFileStep

(* What is moved is the whole file of the job that asked for it.            *)
LEMMA MovedIsOwn ==
  ASSUME DiskInv, NEW job \in Writers, DiskCache!Move(job), entry' # entry
  PROVE  /\ ~entry.exists /\ writer[job].blob \in Bodies
         /\ entry' = DiskCache!FileOf(writer[job].blob)
<1>1. ~entry.exists /\ entry' = temporaries[writer[job].name]
  BY DEF DiskCache!Move, DiskCache!MayMove
<1>2. writer[job].pc = "move"
  BY DEF DiskCache!Move
<1> QED BY <1>1, <1>2 DEF DiskInv, JobsHold

LEMMA MoveKeepsDisk ==
  ASSUME DiskInv, NEW job \in Writers, DiskCache!Move(job)
  PROVE  DiskInv'
<1>1. /\ writer[job].pc = "move" /\ writer[job] \in Jobs
      /\ writer[job].blob \in Bodies /\ writer[job].result \in Bodies
      /\ UNCHANGED <<sequence, faults>>
      /\ temporaries[writer[job].name] = DiskCache!FileOf(writer[job].blob)
  BY DEF DiskCache!Move, DiskInv, DiskTypes, JobsHold
<1>2. CASE /\ entry' = temporaries[writer[job].name]
           /\ temporaries' = [temporaries EXCEPT ![writer[job].name] =
                                DiskCache!NoFile]
           /\ DiskCache!Go(job, DiskCache!Moved(job))
  <2> DEFINE record == [writer[job] EXCEPT !.pc = "done", !.stored = TRUE]
  <2>1. DiskCache!Go(job, record)
    BY <1>2 DEF DiskCache!Moved
  <2>2. /\ record \in Jobs /\ record.pc = "done"
        /\ record.name = writer[job].name
        /\ record.blob = writer[job].blob /\ record.result = writer[job].result
    BY <1>1 DEF Jobs
  <2> HIDE DEF record
  <2>3. entry' \in Files /\ EntryIsGood'
    BY <1>1, <1>2, DiskFiles DEF EntryIsGood
  <2>4. /\ writer[job].pc \in Owning /\ record.pc \notin Owning
        /\ record.pc # "move"
        /\ record.pc \in Owning \union {"done"}
    BY <1>1, <2>2 DEF Owning
  <2>5. DiskCache!NoFile \in Files
    BY DiskFiles
  <2> QED BY <1>1, <1>2, <2>1, <2>2, <2>3, <2>4, <2>5, OwnFileStep
<1>3. CASE /\ DiskCache!Go(job, [writer[job] EXCEPT !.pc = "compare"])
           /\ UNCHANGED <<entry, temporaries>>
  <2> DEFINE record == [writer[job] EXCEPT !.pc = "compare"]
  <2>1. /\ record \in Jobs /\ record.pc = "compare"
        /\ record.name = writer[job].name
        /\ record.blob \in Bodies /\ record.result \in Bodies
    BY <1>1 DEF Jobs, Owning
  <2>2. DiskCache!Go(job, record)
    BY <1>3
  <2> HIDE DEF record
  <2> QED BY <1>1, <1>3, <2>1, <2>2, QuietJobStep DEF Owning
<1> QED BY <1>2, <1>3 DEF DiskCache!Move

LEMMA DeleteKeepsDisk ==
  ASSUME DiskInv, NEW job \in Writers, DiskCache!Delete(job)
  PROVE  DiskInv'
<1> DEFINE record == [writer[job] EXCEPT !.pc = "done"]
<1>1. /\ writer[job].pc = "delete" /\ writer[job] \in Jobs
      /\ temporaries' = [temporaries EXCEPT ![writer[job].name] =
                           DiskCache!NoFile]
      /\ DiskCache!Go(job, record)
      /\ UNCHANGED <<entry, sequence, faults>>
  BY DEF DiskCache!Delete, DiskInv, DiskTypes
<1>2. /\ record \in Jobs /\ record.pc = "done"
      /\ record.name = writer[job].name
      /\ record.blob = writer[job].blob /\ record.result = writer[job].result
  BY <1>1 DEF Jobs
<1> HIDE DEF record
<1>3. entry' \in Files /\ EntryIsGood'
  BY <1>1 DEF DiskInv, DiskTypes, EntryIsGood
<1>4. /\ writer[job].pc \in Owning /\ record.pc \notin Owning
      /\ record.pc # "move" /\ record.pc \in Owning \union {"done"}
      /\ UNCHANGED <<sequence, faults>>
  BY <1>1, <1>2 DEF Owning
<1>5. DiskCache!NoFile \in Files
  BY DiskFiles
<1> QED BY <1>1, <1>2, <1>3, <1>4, <1>5, OwnFileStep

(* A process dies: its jobs own nothing any more, and the files stay.       *)
LEMMA CrashKeepsDisk ==
  ASSUME DiskInv, NEW pid \in DiskCache!Pids, DiskCache!Crash(pid)
  PROVE  DiskInv' /\ faults' # faults
<1>1. /\ faults' = [faults EXCEPT !.crashes = @ + 1]
      /\ writer' = [job \in Writers |-> IF Pid[job] = pid THEN DiskCache!Idle
                                        ELSE writer[job]]
      /\ sequence' = [sequence EXCEPT ![pid] = 0]
      /\ entry' = entry /\ temporaries' = temporaries
  BY DEF DiskCache!Crash
<1>2. /\ faults' \in [damages : Nat, crashes : Nat]
      /\ faults'.crashes = faults.crashes + 1 /\ faults.crashes \in Nat
  BY <1>1 DEF DiskInv, DiskTypes
<1>3. \A job \in Writers :
        \/ writer'[job].pc = "idle" /\ writer'[job] \in Jobs
        \/ writer'[job] = writer[job] /\ Pid[job] # pid
  BY <1>1, IdleIsJob
<1>4. writer' \in [Writers -> Jobs]
  BY <1>1, <1>3 DEF DiskInv, DiskTypes
<1>5. sequence' \in [DiskCache!Pids -> 0 .. MaxNames]
  BY <1>1, ShadersAssumption
     DEF DiskInv, DiskTypes, DiskCache!NativeShaderCacheAssumption
<1>6. DiskTypes' /\ EntryIsGood'
  BY <1>1, <1>2, <1>4, <1>5 DEF DiskInv, DiskTypes, EntryIsGood
<1>7. \A q \in DiskCache!Pids \ {pid} : sequence'[q] = sequence[q]
  BY <1>1 DEF DiskInv, DiskTypes
<1>8. \A job \in Writers : Pid[job] \in DiskCache!Pids
  BY IdleIsJob
<1>9. JobsOwn'
  BY <1>1, <1>3, <1>7, <1>8 DEF DiskInv, JobsOwn, Owns, Owning
<1>10. JobsHold'
  BY <1>1, <1>3 DEF DiskInv, JobsHold
<1> QED BY <1>2, <1>6, <1>9, <1>10 DEF DiskInv

LEMMA DamageKeepsDisk ==
  ASSUME DiskInv, NEW file \in {DiskCache!Torn, DiskCache!NoFile},
         DiskCache!Damage(file)
  PROVE  DiskInv' /\ faults' # faults
<1>1. /\ faults' = [faults EXCEPT !.damages = @ + 1]
      /\ entry' = file
      /\ UNCHANGED <<temporaries, sequence, writer>>
  BY DEF DiskCache!Damage
<1>2. /\ faults' \in [damages : Nat, crashes : Nat]
      /\ faults'.damages = faults.damages + 1 /\ faults.damages \in Nat
  BY <1>1 DEF DiskInv, DiskTypes
<1>3. entry' \in Files /\ ~entry'.whole
  BY <1>1, DiskFiles
<1>4. DiskTypes' /\ EntryIsGood'
  BY <1>1, <1>2, <1>3 DEF DiskInv, DiskTypes, EntryIsGood
<1>5. JobsOwn' /\ JobsHold'
  BY <1>1 DEF DiskInv, JobsOwn, Owns, JobsHold
<1> QED BY <1>2, <1>4, <1>5 DEF DiskInv

LEMMA DiskNext ==
  ASSUME DiskInv, DiskCache!Next
  PROVE  DiskInv'
<1>1. ASSUME NEW job \in Writers, DiskCache!Job(job) \/ DiskCache!Again(job)
      PROVE  DiskInv'
  BY <1>1, LoadKeepsDisk, CreateKeepsDisk, WriteKeepsDisk, MoveKeepsDisk,
     DeleteKeepsDisk DEF DiskCache!Job
<1> QED BY <1>1, CrashKeepsDisk, DamageKeepsDisk DEF DiskCache!Next

LEMMA DiskStays ==
  ASSUME DiskInv, UNCHANGED diskVars
  PROVE  DiskInv'
BY DEF DiskInv, diskVars, DiskTypes, EntryIsGood, JobsOwn, Owns, JobsHold

(***************************************************************************)
(* What no step of the disk cache does.                                    *)
(***************************************************************************)
LEMMA EntryStep ==
  ASSUME DiskInv, DiskCache!Next, entry' # entry, faults' = faults
  PROVE  ~entry.exists /\ entry'.whole
<1>1. PICK job \in Writers : DiskCache!Job(job) \/ DiskCache!Again(job)
  BY CrashKeepsDisk, DamageKeepsDisk DEF DiskCache!Next
<1>2. DiskCache!Move(job)
  BY <1>1 DEF DiskCache!Job, DiskCache!Again, DiskCache!LoadHit,
     DiskCache!LoadMiss, DiskCache!LookFirst, DiskCache!CreateTemporary,
     DiskCache!CreateFails, DiskCache!WriteTemporary, DiskCache!Compare,
     DiskCache!Delete
<1> QED BY <1>2, MovedIsOwn, DiskFiles

(* No job but the acting one changes its record, and it claims a stored     *)
(* entry in three places.                                                   *)
LEMMA StoreStep ==
  ASSUME DiskInv, DiskCache!Next, NEW job \in Writers,
         ~writer[job].stored, writer'[job].stored
  PROVE  entry'.whole /\ entry'.blob = writer[job].blob
<1> USE DEF DiskCache!Go
<1>0. writer \in [Writers -> Jobs] /\ writer[job] \in Jobs
  BY DEF DiskInv, DiskTypes
<1>1. ~DiskCache!Idle.stored
  BY IdleIsJob
<1>2. PICK actor \in Writers : DiskCache!Job(actor) \/ DiskCache!Again(actor)
  <2>1. ASSUME NEW pid \in DiskCache!Pids, DiskCache!Crash(pid) PROVE FALSE
    BY <1>1, <2>1 DEF DiskCache!Crash
  <2>2. ASSUME NEW file, DiskCache!Damage(file) PROVE FALSE
    BY <2>2 DEF DiskCache!Damage
  <2> QED BY <2>1, <2>2 DEF DiskCache!Next
<1>3. CASE DiskCache!LookFirst(actor)
  <2>1. actor = job /\ writer[job].pc = "look"
    BY <1>0, <1>3 DEF DiskCache!LookFirst
  <2>2. CASE ~DiskCache!ReadEntry.hit
    BY <1>0, <1>3, <2>1, <2>2 DEF DiskCache!LookFirst, Jobs
  <2>3. CASE DiskCache!ReadEntry.hit
    <3> DEFINE same == (DiskCache!ReadEntry.blob = writer[job].blob)
    <3>1. writer' = [writer EXCEPT ![job] =
                       [writer[job] EXCEPT !.pc = "done", !.stored = same]]
      BY <1>3, <2>1, <2>3 DEF DiskCache!LookFirst
    <3> HIDE DEF same
    <3>2. same
      BY <1>0, <3>1 DEF Jobs
    <3>3. entry' = entry
      BY <1>3 DEF DiskCache!LookFirst
    <3> QED BY <2>3, <3>2, <3>3 DEF same, DiskCache!ReadEntry
  <2> QED BY <2>2, <2>3
<1>4. CASE DiskCache!Move(actor)
  <2>1. actor = job
    BY <1>0, <1>4 DEF DiskCache!Move, DiskCache!Moved
  <2>2. CASE DiskCache!Go(job, [writer[job] EXCEPT !.pc = "compare"])
    BY <1>0, <2>2 DEF Jobs
  <2>3. CASE /\ entry' = temporaries[writer[job].name]
             /\ writer[job].pc = "move"
    <3>1. /\ entry' = DiskCache!FileOf(writer[job].blob)
          /\ writer[job].blob \in Bodies
      BY <2>3 DEF DiskInv, JobsHold
    <3> QED BY <3>1, DiskFiles
  <2> QED BY <1>4, <2>1, <2>2, <2>3 DEF DiskCache!Move
<1>5. CASE DiskCache!Compare(actor)
  <2>1. actor = job
    BY <1>0, <1>5 DEF DiskCache!Compare
  <2> DEFINE same == DiskCache!Identical(writer[job].blob)
  <2>2. /\ writer' = [writer EXCEPT ![job] =
                        [writer[job] EXCEPT !.pc = "delete", !.stored = same]]
        /\ entry' = entry
    BY <1>5, <2>1 DEF DiskCache!Compare
  <2> HIDE DEF same
  <2>3. same
    BY <1>0, <2>2 DEF Jobs
  <2> QED BY <2>2, <2>3
          DEF same, DiskCache!Identical, DiskCache!ReadEntry
<1>6. CASE DiskCache!LoadHit(actor) \/ DiskCache!LoadMiss(actor)
           \/ DiskCache!Again(actor)
  <2>1. \A blob : /\ ~[DiskCache!Idle EXCEPT !.pc = "done", !.result = blob].stored
                  /\ ~[DiskCache!Idle EXCEPT !.pc = "look", !.blob = blob,
                                             !.result = blob].stored
    BY <1>1 DEF DiskCache!Idle
  <2> QED BY <1>0, <1>1, <1>6, <2>1, ZenonT(60)
          DEF DiskCache!LoadHit, DiskCache!LoadMiss, DiskCache!Again
<1>7. CASE DiskCache!CreateTemporary(actor) \/ DiskCache!CreateFails(actor)
           \/ (\E complete \in BOOLEAN : DiskCache!WriteTemporary(actor, complete))
           \/ DiskCache!Delete(actor)
  <2>1. ASSUME NEW record, writer' = [writer EXCEPT ![actor] = record],
               record.stored = writer[actor].stored
        PROVE  writer'[job].stored = writer[job].stored
    BY <1>0, <2>1
  <2>2. writer'[job].stored = writer[job].stored
    <3>1. CASE DiskCache!CreateTemporary(actor)
      <4> DEFINE name == [pid |-> Pid[actor], number |-> sequence[Pid[actor]]]
                 attempt == writer[actor].attempt + 1
                 next == IF attempt < MaxAttempts THEN "create" ELSE "done"
                 made == [writer[actor] EXCEPT !.pc = "write", !.name = name,
                                               !.attempt = attempt]
                 again == [writer[actor] EXCEPT !.pc = next, !.attempt = attempt]
      <4>1. \/ writer' = [writer EXCEPT ![actor] = made]
            \/ writer' = [writer EXCEPT ![actor] = again]
        BY <3>1 DEF DiskCache!CreateTemporary
      <4> HIDE DEF name, attempt, next
      <4>2. /\ made.stored = writer[actor].stored
            /\ again.stored = writer[actor].stored
        BY <1>0 DEF Jobs
      <4> HIDE DEF made, again
      <4> QED BY <2>1, <4>1, <4>2
    <3>2. CASE DiskCache!CreateFails(actor) \/ DiskCache!Delete(actor)
      <4> DEFINE record == [writer[actor] EXCEPT !.pc = "done"]
      <4>1. writer' = [writer EXCEPT ![actor] = record]
        BY <3>2 DEF DiskCache!CreateFails, DiskCache!Delete
      <4>2. record.stored = writer[actor].stored
        BY <1>0 DEF Jobs
      <4> HIDE DEF record
      <4> QED BY <2>1, <4>1, <4>2
    <3>3. ASSUME NEW complete \in BOOLEAN,
                 DiskCache!WriteTemporary(actor, complete)
          PROVE  writer'[job].stored = writer[job].stored
      <4> DEFINE next == IF complete THEN "move" ELSE "delete"
                 record == [writer[actor] EXCEPT !.pc = next]
      <4>1. writer' = [writer EXCEPT ![actor] = record]
        BY <3>3 DEF DiskCache!WriteTemporary
      <4> HIDE DEF next
      <4>2. record.stored = writer[actor].stored
        BY <1>0 DEF Jobs
      <4> HIDE DEF record
      <4> QED BY <2>1, <4>1, <4>2
    <3> QED BY <1>7, <3>1, <3>2, <3>3
  <2> QED BY <2>2
<1> QED BY <1>2, <1>3, <1>4, <1>5, <1>6, <1>7 DEF DiskCache!Job

(***************************************************************************)
(* The pipelines.                                                          *)
(***************************************************************************)
Lines ==
  [Pipelines!Keys -> [status : Pipelines!Statuses,
                      shader : {Pipelines!Base, Pipelines!Variant}]]

Holdings ==
  [variant : BOOLEAN, failed : BOOLEAN,
   memo : [valid : BOOLEAN,
           key : Pipelines!Keys \union {Pipelines!NoMemo.key}]]

Draws == [pass : Holdings, pipelines : Lines, in_flight : Nat]

BasePending(lines) == {key \in Pipelines!PendingOf(lines) : ~key.word18}

VariantsRunning(lines) ==
  {key \in Pipelines!Keys : lines[key].status = "running" /\ key.word18}

(* One pass: its memo remembers a ready pipeline, only a key of the variant *)
(* has one with the other shader, and only once the pass holds that shader. *)
PassIsGood(d) ==
  /\ d \in Draws
  /\ d.pass.memo.valid => /\ d.pass.memo.key \in Pipelines!Keys
                          /\ d.pipelines[d.pass.memo.key].status = "ready"
  /\ \A key \in Pipelines!Keys :
       IF key.word18
       THEN d.pass.variant \/ d.pipelines[key] = Pipelines!NoPipeline
       ELSE d.pipelines[key].shader = Pipelines!Base
  /\ IsFiniteSet(Pipelines!PendingOf(d.pipelines))
  /\ Cardinality(BasePending(d.pipelines)) <= Slots

(* All passes: the shared count is that of the variants on workers.         *)
CountIsExact ==
  /\ in_flight \in 0 .. VariantSlots
  /\ IsFiniteSet(Pipelines!Running(TRUE))
  /\ in_flight = Cardinality(Pipelines!Running(TRUE))

PipelinesInv ==
  /\ pass \in [Passes -> Holdings]
  /\ pipelines \in [Passes -> Lines]
  /\ \A p \in Passes : PassIsGood(Pipelines!At(p))
  /\ CountIsExact

LEMMA SlotsArePositive == Slots \in Nat \ {0} /\ VariantSlots \in Nat \ {0}
BY ShadersAssumption DEF Pipelines!NativePipelinesAssumption

(* Within its limit, and one more or one less.                              *)
LEMMA WithinSlots ==
  /\ \A n : n \in 0 .. VariantSlots <=> n \in Nat /\ n <= VariantSlots
  /\ \A n \in 0 .. VariantSlots : n - 1 \in Nat => n - 1 \in 0 .. VariantSlots
<1>1. VariantSlots \in Nat
  BY SlotsArePositive
<1> QED BY <1>1

LEMMA CountIsTyped ==
  CountIsExact => in_flight \in Nat /\ in_flight <= VariantSlots
BY WithinSlots DEF CountIsExact

LEMMA NoMemoIsHolding ==
  /\ Pipelines!NoMemo \in [valid : BOOLEAN,
                           key : Pipelines!Keys \union {Pipelines!NoMemo.key}]
  /\ ~Pipelines!NoMemo.valid
BY DEF Pipelines!NoMemo

LEMMA NoPipelineIsLine ==
  /\ Pipelines!NoPipeline \in [status : Pipelines!Statuses,
                               shader : {Pipelines!Base, Pipelines!Variant}]
  /\ Pipelines!NoPipeline.status = "absent"
  /\ Pipelines!NoPipeline.shader = Pipelines!Base
BY DEF Pipelines!NoPipeline, Pipelines!Statuses

LEMMA PipelinesInit == AllInit => PipelinesInv
<1> SUFFICES ASSUME Pipelines!Init PROVE PipelinesInv
  BY DEF AllInit
<1>1. Pipelines!NewPass \in Holdings /\ ~Pipelines!NewPass.memo.valid
  BY NoMemoIsHolding DEF Pipelines!NewPass, Holdings
<1>2. /\ pass \in [Passes -> Holdings]
      /\ \A p \in Passes : ~pass[p].memo.valid
  BY <1>1 DEF Pipelines!Init
<1>3. /\ pipelines \in [Passes -> Lines]
      /\ \A p \in Passes, key \in Pipelines!Keys :
           pipelines[p][key] = Pipelines!NoPipeline
  BY NoPipelineIsLine DEF Pipelines!Init, Lines
<1>4. in_flight = 0
  BY DEF Pipelines!Init
<1>5. Pipelines!Running(TRUE) = {}
  <2>1. \A x \in Passes \X Pipelines!Keys : pipelines[x[1]][x[2]].status # "running"
    BY <1>3, NoPipelineIsLine
  <2> QED BY <2>1 DEF Pipelines!Running
<1>6. CountIsExact
  <2>1. 0 \in 0 .. VariantSlots
    BY SlotsArePositive
  <2>2. IsFiniteSet({}) /\ Cardinality({}) = 0
    BY FS_EmptySet
  <2> QED BY <1>4, <1>5, <2>1, <2>2 DEF CountIsExact
<1>7. ASSUME NEW p \in Passes PROVE PassIsGood(Pipelines!At(p))
  <2>1. /\ Pipelines!At(p) \in Draws
        /\ Pipelines!At(p).pass = pass[p]
        /\ Pipelines!At(p).pipelines = pipelines[p]
    BY <1>2, <1>3, <1>4 DEF Pipelines!At, Draws
  <2>2. Pipelines!PendingOf(pipelines[p]) = {}
    BY <1>3, NoPipelineIsLine DEF Pipelines!PendingOf
  <2>3. BasePending(pipelines[p]) = {}
    BY <2>2 DEF BasePending
  <2> QED BY <1>2, <1>3, <2>1, <2>2, <2>3, NoPipelineIsLine, FS_EmptySet,
             SlotsArePositive DEF PassIsGood
<1> QED BY <1>2, <1>3, <1>6, <1>7 DEF PipelinesInv

(* What a worker returned is settled, and nothing else changes.             *)
LEMMA ReapedFacts ==
  ASSUME NEW d \in Draws
  PROVE  LET r == Pipelines!Reaped(d)
         IN /\ r \in Draws
            /\ r.in_flight = d.in_flight
            /\ r.pass.memo = d.pass.memo /\ r.pass.variant = d.pass.variant
            /\ \A key \in Pipelines!Keys :
                 /\ r.pipelines[key].shader = d.pipelines[key].shader
                 /\ \/ r.pipelines[key] = d.pipelines[key]
                       /\ d.pipelines[key].status \notin {"good_result", "bad_result"}
                    \/ /\ d.pipelines[key].status = "good_result"
                       /\ r.pipelines[key].status = "ready"
                    \/ /\ d.pipelines[key].status = "bad_result"
                       /\ r.pipelines[key].status = "bad"
<1> DEFINE failing == d.pass.failed \/
             \E key \in Pipelines!Keys :
               key.word18 /\ d.pipelines[key].status = "bad_result"
           Settled(status) == CASE status = "good_result" -> "ready"
                                [] status = "bad_result" -> "bad"
                                [] OTHER -> status
           lines == [key \in Pipelines!Keys |->
                       [d.pipelines[key] EXCEPT
                          !.status = Settled(d.pipelines[key].status)]]
           holding == [d.pass EXCEPT !.failed = failing]
           r == Pipelines!Reaped(d)
<1>1. \A status : /\ status = "good_result" => Settled(status) = "ready"
                  /\ status = "bad_result" => Settled(status) = "bad"
                  /\ status \notin {"good_result", "bad_result"}
                       => Settled(status) = status
  OBVIOUS
<1>2. failing \in BOOLEAN
  BY DEF Draws, Holdings
<1>3. /\ d.pass \in Holdings /\ d.pipelines \in Lines /\ d.in_flight \in Nat
  BY DEF Draws
<1>4. r = [d EXCEPT !.pass = holding, !.pipelines = lines]
  BY DEF Pipelines!Reaped, Draws, Holdings
<1> HIDE DEF failing, Settled, r
<1>5. /\ holding \in Holdings /\ holding.memo = d.pass.memo
      /\ holding.variant = d.pass.variant
  BY <1>2, <1>3 DEF Holdings
<1>6. \A key \in Pipelines!Keys :
        /\ lines[key].shader = d.pipelines[key].shader
        /\ lines[key].status = Settled(d.pipelines[key].status)
        /\ lines[key] \in [status : Pipelines!Statuses,
                           shader : {Pipelines!Base, Pipelines!Variant}]
        /\ d.pipelines[key] \in [status : Pipelines!Statuses,
                           shader : {Pipelines!Base, Pipelines!Variant}]
  BY <1>1, <1>3 DEF Lines, Pipelines!Statuses
<1>7. lines \in Lines
  BY <1>6 DEF Lines
<1> HIDE DEF holding, lines
<1>8. /\ r \in Draws /\ r.pass = holding /\ r.pipelines = lines
      /\ r.in_flight = d.in_flight
  BY <1>3, <1>4, <1>5, <1>7 DEF Draws
<1>9. \A key \in Pipelines!Keys :
        d.pipelines[key].status \notin {"good_result", "bad_result"}
          => lines[key] = d.pipelines[key]
  BY <1>1, <1>6
<1> QED BY <1>1, <1>5, <1>6, <1>8, <1>9 DEF r

LEMMA ReapedIsGood ==
  ASSUME NEW d, PassIsGood(d)
  PROVE  /\ PassIsGood(Pipelines!Reaped(d))
         /\ VariantsRunning(Pipelines!Reaped(d).pipelines)
              = VariantsRunning(d.pipelines)
<1> DEFINE r == Pipelines!Reaped(d)
<1>0. d \in Draws
  BY DEF PassIsGood
<1>1. /\ r \in Draws
      /\ r.pass.memo = d.pass.memo /\ r.pass.variant = d.pass.variant
      /\ \A key \in Pipelines!Keys :
           /\ r.pipelines[key].shader = d.pipelines[key].shader
           /\ \/ r.pipelines[key] = d.pipelines[key]
                 /\ d.pipelines[key].status \notin {"good_result", "bad_result"}
              \/ /\ d.pipelines[key].status = "good_result"
                 /\ r.pipelines[key].status = "ready"
              \/ /\ d.pipelines[key].status = "bad_result"
                 /\ r.pipelines[key].status = "bad"
  BY <1>0, ReapedFacts
<1> HIDE DEF r
<1>2. Pipelines!PendingOf(r.pipelines) \subseteq Pipelines!PendingOf(d.pipelines)
  BY <1>1 DEF Pipelines!PendingOf
<1>3. /\ IsFiniteSet(Pipelines!PendingOf(r.pipelines))
      /\ IsFiniteSet(BasePending(d.pipelines))
      /\ BasePending(r.pipelines) \subseteq BasePending(d.pipelines)
  <2>1. BasePending(d.pipelines) \subseteq Pipelines!PendingOf(d.pipelines)
    BY DEF BasePending
  <2> QED BY <1>2, <2>1, FS_Subset DEF PassIsGood, BasePending
<1>4. Cardinality(BasePending(r.pipelines)) <= Slots
  <2>1. /\ Cardinality(BasePending(r.pipelines)) \in Nat
        /\ Cardinality(BasePending(d.pipelines)) \in Nat
        /\ Cardinality(BasePending(r.pipelines))
             <= Cardinality(BasePending(d.pipelines))
    BY <1>3, FS_Subset, FS_CardinalityType
  <2> QED BY <2>1, SlotsArePositive DEF PassIsGood
<1>5. r.pass.memo.valid => /\ r.pass.memo.key \in Pipelines!Keys
                           /\ r.pipelines[r.pass.memo.key].status = "ready"
  BY <1>1 DEF PassIsGood
<1>6. \A key \in Pipelines!Keys :
        IF key.word18
        THEN r.pass.variant \/ r.pipelines[key] = Pipelines!NoPipeline
        ELSE r.pipelines[key].shader = Pipelines!Base
  BY <1>1, NoPipelineIsLine DEF PassIsGood
<1>7. VariantsRunning(r.pipelines) = VariantsRunning(d.pipelines)
  BY <1>1 DEF VariantsRunning
<1> QED BY <1>1, <1>3, <1>4, <1>5, <1>6, <1>7 DEF PassIsGood, r

(* The shared count follows a pass's variants on workers.                   *)
Counted(d, e) ==
  \/ /\ e.in_flight = d.in_flight
     /\ VariantsRunning(e.pipelines) = VariantsRunning(d.pipelines)
  \/ /\ e.in_flight = d.in_flight + 1 /\ d.in_flight < VariantSlots
     /\ \E key \in Pipelines!Keys \ VariantsRunning(d.pipelines) :
          VariantsRunning(e.pipelines) = VariantsRunning(d.pipelines) \union {key}

(* The instance counts as everybody does.                                   *)
LEMMA SameCardinality ==
  ASSUME NEW S
  PROVE  Pipelines!Cardinality(S) = Cardinality(S)
BY DEF Pipelines!Cardinality, Cardinality

(* Every state but those of the variant hold a slot.                        *)
LEMMA BaseCount ==
  ASSUME NEW lines, IsFiniteSet(Pipelines!PendingOf(lines))
  PROVE  LET pending == Pipelines!PendingOf(lines)
         IN /\ IsFiniteSet(BasePending(lines))
            /\ Cardinality(BasePending(lines)) \in Nat
            /\ pending \ Pipelines!VariantsOf(pending) = BasePending(lines)
            /\ Cardinality(pending)
                 - Cardinality(Pipelines!VariantsOf(pending))
                 = Cardinality(BasePending(lines))
<1> DEFINE pending == Pipelines!PendingOf(lines)
           variants_ == Pipelines!VariantsOf(pending)
<1>1. /\ variants_ \subseteq pending
      /\ pending \ variants_ = BasePending(lines)
      /\ pending \intersect variants_ = variants_
  BY DEF Pipelines!VariantsOf, BasePending
<1> HIDE DEF pending, variants_
<1>2. IsFiniteSet(pending)
  BY DEF pending
<1>3. /\ IsFiniteSet(variants_) /\ IsFiniteSet(pending \ variants_)
      /\ Cardinality(pending \ variants_)
           = Cardinality(pending) - Cardinality(pending \intersect variants_)
  BY <1>1, <1>2, FS_Subset, FS_Difference
<1>4. /\ Cardinality(pending) \in Nat /\ Cardinality(variants_) \in Nat
      /\ Cardinality(pending \ variants_) \in Nat
  BY <1>2, <1>3, FS_CardinalityType
<1> QED BY <1>1, <1>3, <1>4 DEF pending, variants_

(* CreatePipeline for a key that has none yet.                              *)
LEMMA CreateIsGood ==
  ASSUME NEW d, PassIsGood(d), NEW key \in Pipelines!Keys,
         d.pipelines[key].status = "absent",
         key.word18 => d.pass.variant,
         NEW e, e = Pipelines!Create(d, key, key.word18)
  PROVE  /\ PassIsGood(e) /\ Counted(d, e)
         /\ e.pass = d.pass
         /\ \A other \in Pipelines!Keys \ {key} :
              e.pipelines[other] = d.pipelines[other]
         /\ e.pipelines[key].status # "ready"
         /\ e # d => e.pipelines[key].status # "absent"
         /\ ~key.word18 /\ e = d =>
              Cardinality(BasePending(d.pipelines)) = Slots
<1>0. /\ d \in Draws /\ d.pipelines \in Lines /\ d.in_flight \in Nat
      /\ key.word18 \in BOOLEAN
      /\ d.pipelines[key] \in [status : Pipelines!Statuses,
                               shader : {Pipelines!Base, Pipelines!Variant}]
  BY DEF PassIsGood, Draws, Lines, Pipelines!Keys
<1>1. /\ IsFiniteSet(Pipelines!PendingOf(d.pipelines))
      /\ IsFiniteSet(BasePending(d.pipelines))
      /\ Cardinality(BasePending(d.pipelines)) \in Nat
      /\ Cardinality(BasePending(d.pipelines)) <= Slots
      /\ Pipelines!BaseSlotFree(d)
           <=> Cardinality(BasePending(d.pipelines)) < Slots
  <2>1. /\ IsFiniteSet(Pipelines!PendingOf(d.pipelines))
        /\ Cardinality(BasePending(d.pipelines)) <= Slots
    BY DEF PassIsGood
  <2>2. /\ IsFiniteSet(BasePending(d.pipelines))
        /\ Cardinality(BasePending(d.pipelines)) \in Nat
        /\ Cardinality(Pipelines!PendingOf(d.pipelines))
             - Cardinality(Pipelines!VariantsOf(Pipelines!PendingOf(d.pipelines)))
             = Cardinality(BasePending(d.pipelines))
    BY <2>1, BaseCount
  <2> QED BY <2>1, <2>2, SameCardinality DEF Pipelines!BaseSlotFree
<1>2. key \notin Pipelines!PendingOf(d.pipelines)
      /\ key \notin VariantsRunning(d.pipelines)
  BY DEF Pipelines!PendingOf, VariantsRunning
<1>3. ASSUME NEW line \in [status : Pipelines!Statuses,
                           shader : {Pipelines!Base, Pipelines!Variant}],
             NEW count \in Nat,
             e = [d EXCEPT !.pipelines = [d.pipelines EXCEPT ![key] = line],
                           !.in_flight = count]
      PROVE  /\ e \in Draws /\ e.pass = d.pass /\ e.in_flight = count
             /\ e.pipelines[key] = line
             /\ \A other \in Pipelines!Keys \ {key} :
                  e.pipelines[other] = d.pipelines[other]
  <2> DEFINE lines == [d.pipelines EXCEPT ![key] = line]
  <2>1. /\ lines \in Lines /\ lines[key] = line
        /\ \A other \in Pipelines!Keys \ {key} : lines[other] = d.pipelines[other]
    BY <1>0 DEF Lines
  <2>2. e = [d EXCEPT !.pipelines = lines, !.in_flight = count]
    BY <1>3
  <2> HIDE DEF lines
  <2>3. e \in Draws /\ e.pass = d.pass /\ e.in_flight = count /\ e.pipelines = lines
    BY <1>0, <2>1, <2>2 DEF Draws
  <2> QED BY <2>1, <2>3
<1>4. CASE key.state \in Culled
  <2> DEFINE line == [status |-> "bad", shader |-> Pipelines!Base]
  <2>1. e = [d EXCEPT !.pipelines[key] = line]
    BY <1>4 DEF Pipelines!Create
  <2>2. line \in [status : Pipelines!Statuses,
                  shader : {Pipelines!Base, Pipelines!Variant}]
    BY DEF Pipelines!Statuses
  <2>3. e = [d EXCEPT !.pipelines = [d.pipelines EXCEPT ![key] = line],
                      !.in_flight = d.in_flight]
    <3> DEFINE lines == [d.pipelines EXCEPT ![key] = line]
    <3>1. e = [d EXCEPT !.pipelines = lines]
      BY <2>1
    <3>2. lines \in Lines
      BY <1>0, <2>2 DEF Lines
    <3> HIDE DEF lines
    <3>3. e = [d EXCEPT !.pipelines = lines, !.in_flight = d.in_flight]
      BY <1>0, <3>1, <3>2 DEF Draws
    <3> QED BY <3>3 DEF lines
  <2>4. line.status = "bad" /\ line.shader = Pipelines!Base
    OBVIOUS
  <2> HIDE DEF line
  <2>5. /\ e \in Draws /\ e.pass = d.pass /\ e.in_flight = d.in_flight
        /\ e.pipelines[key] = line
        /\ \A other \in Pipelines!Keys \ {key} :
             e.pipelines[other] = d.pipelines[other]
    BY <1>0, <1>3, <2>2, <2>3
  <2>6. /\ Pipelines!PendingOf(e.pipelines) = Pipelines!PendingOf(d.pipelines)
        /\ VariantsRunning(e.pipelines) = VariantsRunning(d.pipelines)
    BY <1>2, <2>4, <2>5 DEF Pipelines!PendingOf, VariantsRunning
  <2>7. e # d
    BY <2>4, <2>5
  <2>8. Counted(d, e)
    BY <2>5, <2>6 DEF Counted
  <2>9. PassIsGood(e)
    <3>1. e.pass.memo.valid => /\ e.pass.memo.key \in Pipelines!Keys
                               /\ e.pipelines[e.pass.memo.key].status = "ready"
      BY <2>5 DEF PassIsGood
    <3>2. \A other \in Pipelines!Keys :
            IF other.word18
            THEN e.pass.variant \/ e.pipelines[other] = Pipelines!NoPipeline
            ELSE e.pipelines[other].shader = Pipelines!Base
      BY <2>4, <2>5 DEF PassIsGood
    <3>3. BasePending(e.pipelines) = BasePending(d.pipelines)
      BY <2>6 DEF BasePending
    <3> QED BY <2>5, <2>6, <3>1, <3>2, <3>3 DEF PassIsGood
  <2> QED BY <2>4, <2>5, <2>7, <2>8, <2>9
<1>5. CASE /\ key.state \notin Culled
           /\ ~(IF key.word18 THEN Pipelines!VariantAdmitted(d)
                ELSE Pipelines!BaseSlotFree(d))
  <2>1. e = d
    BY <1>5 DEF Pipelines!Create
  <2>2. ~key.word18 => Cardinality(BasePending(d.pipelines)) = Slots
    BY <1>1, <1>5, SlotsArePositive
  <2>3. Counted(d, e)
    BY <2>1 DEF Counted
  <2> QED BY <2>1, <2>2, <2>3
<1>6. CASE /\ key.state \notin Culled
           /\ IF key.word18 THEN Pipelines!VariantAdmitted(d)
              ELSE Pipelines!BaseSlotFree(d)
  <2> DEFINE line == [status |-> "running",
                      shader |-> IF key.word18 THEN Pipelines!Variant
                                 ELSE Pipelines!Base]
             count == d.in_flight + (IF key.word18 THEN 1 ELSE 0)
  <2>1. e = [d EXCEPT !.pipelines[key] = line,
                      !.in_flight = @ + (IF key.word18 THEN 1 ELSE 0)]
    BY <1>6 DEF Pipelines!Create
  <2>2. line \in [status : Pipelines!Statuses,
                  shader : {Pipelines!Base, Pipelines!Variant}]
    BY DEF Pipelines!Statuses
  <2>3. count \in Nat
    BY <1>0
  <2>4. e = [d EXCEPT !.pipelines = [d.pipelines EXCEPT ![key] = line],
                      !.in_flight = count]
    BY <1>0, <2>1 DEF Draws
  <2>5. /\ line.status = "running"
        /\ ~key.word18 => line.shader = Pipelines!Base
        /\ count = IF key.word18 THEN d.in_flight + 1 ELSE d.in_flight
    BY <1>0
  <2> HIDE DEF line, count
  <2>6. /\ e \in Draws /\ e.pass = d.pass /\ e.in_flight = count
        /\ e.pipelines[key] = line
        /\ \A other \in Pipelines!Keys \ {key} :
             e.pipelines[other] = d.pipelines[other]
    BY <1>3, <2>2, <2>3, <2>4
  <2>7. /\ Pipelines!PendingOf(e.pipelines)
             = Pipelines!PendingOf(d.pipelines) \union {key}
        /\ VariantsRunning(e.pipelines)
             = IF key.word18 THEN VariantsRunning(d.pipelines) \union {key}
               ELSE VariantsRunning(d.pipelines)
        /\ BasePending(e.pipelines)
             = IF key.word18 THEN BasePending(d.pipelines)
               ELSE BasePending(d.pipelines) \union {key}
    BY <2>5, <2>6 DEF Pipelines!PendingOf, VariantsRunning, BasePending
  <2>8. e # d
    BY <2>5, <2>6
  <2>9. Counted(d, e)
    <3>1. CASE key.word18
      <4>1. d.in_flight < VariantSlots
        BY <1>6, <3>1 DEF Pipelines!VariantAdmitted
      <4> QED BY <1>2, <2>5, <2>6, <2>7, <3>1, <4>1 DEF Counted
    <3>2. CASE ~key.word18
      BY <2>5, <2>6, <2>7, <3>2 DEF Counted
    <3> QED BY <3>1, <3>2
  <2>10. PassIsGood(e)
    <3>1. e.pass.memo.valid => /\ e.pass.memo.key \in Pipelines!Keys
                               /\ e.pipelines[e.pass.memo.key].status = "ready"
      BY <2>6 DEF PassIsGood
    <3>2. \A other \in Pipelines!Keys :
            IF other.word18
            THEN e.pass.variant \/ e.pipelines[other] = Pipelines!NoPipeline
            ELSE e.pipelines[other].shader = Pipelines!Base
      BY <2>5, <2>6 DEF PassIsGood
    <3>3. IsFiniteSet(Pipelines!PendingOf(e.pipelines))
      BY <1>1, <2>7, FS_AddElement
    <3>4. Cardinality(BasePending(e.pipelines)) <= Slots
      <4>1. CASE key.word18
        BY <1>1, <2>7, <4>1
      <4>2. CASE ~key.word18
        <5>1. Cardinality(BasePending(d.pipelines)) < Slots
          BY <1>1, <1>6, <4>2
        <5>2. Cardinality(BasePending(e.pipelines))
                <= Cardinality(BasePending(d.pipelines)) + 1
          <6>1. BasePending(e.pipelines) = BasePending(d.pipelines) \union {key}
            BY <2>7, <4>2
          <6>2. Cardinality(BasePending(d.pipelines) \union {key}) =
                  IF key \in BasePending(d.pipelines)
                  THEN Cardinality(BasePending(d.pipelines))
                  ELSE Cardinality(BasePending(d.pipelines)) + 1
            BY <1>1, FS_AddElement
          <6> QED BY <1>1, <6>1, <6>2
        <5>3. IsFiniteSet(BasePending(e.pipelines))
          BY <1>1, <2>7, <4>2, FS_AddElement
        <5>4. Cardinality(BasePending(e.pipelines)) \in Nat
          BY <5>3, FS_CardinalityType
        <5> QED BY <1>1, <5>1, <5>2, <5>4, SlotsArePositive
      <4> QED BY <4>1, <4>2
    <3> QED BY <2>6, <3>1, <3>2, <3>3, <3>4 DEF PassIsGood
  <2> QED BY <2>5, <2>6, <2>8, <2>9, <2>10
<1> QED BY <1>4, <1>5, <1>6

(* Publishing a ready pipeline to the memo, or forgetting it.               *)
LEMMA PublishedIsGood ==
  ASSUME NEW d, PassIsGood(d), NEW key \in Pipelines!Keys, NEW reuse \in BOOLEAN,
         Pipelines!Found(d, key, reuse),
         NEW e, e = Pipelines!Published(d, key, reuse)
  PROVE  /\ PassIsGood(e) /\ e.pipelines = d.pipelines
         /\ e.in_flight = d.in_flight
         /\ e.pass.variant = d.pass.variant /\ e.pass.failed = d.pass.failed
<1>0. d \in Draws /\ d.pass \in Holdings
  BY DEF PassIsGood, Draws
<1>1. d.pipelines[key].status = "ready"
  BY DEF Pipelines!Found, Pipelines!MemoHit, Pipelines!Ready, PassIsGood
<1>2. CASE ~reuse \/ Pipelines!MemoHit(d, key, reuse)
  <2>1. e = d
    <3>1. [d EXCEPT !.pass.memo = @] = d
      BY <1>0 DEF Draws, Holdings
    <3> QED BY <1>2, <3>1 DEF Pipelines!Published
  <2> QED BY <2>1
<1>3. CASE reuse /\ ~Pipelines!MemoHit(d, key, reuse)
  <2> DEFINE memo_ == [valid |-> TRUE, key |-> key]
             holding == [d.pass EXCEPT !.memo = memo_]
  <2>1. e = [d EXCEPT !.pass = holding]
    BY <1>0, <1>3 DEF Pipelines!Published, Draws, Holdings
  <2>2. memo_ \in [valid : BOOLEAN,
                   key : Pipelines!Keys \union {Pipelines!NoMemo.key}]
    OBVIOUS
  <2>3. memo_.key = key
    OBVIOUS
  <2> HIDE DEF memo_
  <2>4. /\ holding \in Holdings /\ holding.memo = memo_
        /\ holding.variant = d.pass.variant /\ holding.failed = d.pass.failed
    BY <1>0, <2>2 DEF Holdings
  <2> HIDE DEF holding
  <2>5. /\ e \in Draws /\ e.pass = holding /\ e.pipelines = d.pipelines
        /\ e.in_flight = d.in_flight
    BY <1>0, <2>1, <2>4 DEF Draws
  <2> QED BY <1>1, <2>3, <2>4, <2>5 DEF PassIsGood
<1> QED BY <1>2, <1>3

(* A draw that does not reuse starts without a memo.                        *)
LEMMA ForgottenIsGood ==
  ASSUME NEW d, PassIsGood(d), NEW memo_ \in {d.pass.memo, Pipelines!NoMemo},
         NEW e, e = [d EXCEPT !.pass.memo = memo_]
  PROVE  /\ PassIsGood(e) /\ e.pipelines = d.pipelines
         /\ e.in_flight = d.in_flight
         /\ e.pass.variant = d.pass.variant /\ e.pass.failed = d.pass.failed
<1>0. d \in Draws /\ d.pass \in Holdings
  BY DEF PassIsGood, Draws
<1> DEFINE holding == [d.pass EXCEPT !.memo = memo_]
<1>1. e = [d EXCEPT !.pass = holding]
  BY <1>0 DEF Draws, Holdings
<1>2. /\ memo_ \in [valid : BOOLEAN,
                    key : Pipelines!Keys \union {Pipelines!NoMemo.key}]
      /\ memo_ = d.pass.memo \/ ~memo_.valid
  BY <1>0, NoMemoIsHolding DEF Holdings
<1>3. /\ holding \in Holdings /\ holding.memo = memo_
      /\ holding.variant = d.pass.variant /\ holding.failed = d.pass.failed
  BY <1>0, <1>2 DEF Holdings
<1> HIDE DEF holding
<1>4. /\ e \in Draws /\ e.pass = holding /\ e.pipelines = d.pipelines
      /\ e.in_flight = d.in_flight
  BY <1>0, <1>1, <1>3 DEF Draws
<1> QED BY <1>2, <1>3, <1>4 DEF PassIsGood

LEMMA AnswerFields ==
  ASSUME NEW d, NEW answer, NEW shader
  PROVE  /\ Pipelines!Answer(d, answer, shader).draw = d
         /\ Pipelines!Answer(d, answer, shader).answer = answer
         /\ Pipelines!Answer(d, answer, shader).shader = shader
BY DEF Pipelines!Answer

(* What a draw may be answered with, of the pass as it is when the draw     *)
(* comes: it leaves a good pass, is counted, and what it draws with is      *)
(* there.                                                                   *)
Sound(d, state, r) ==
  /\ PassIsGood(r.draw) /\ Counted(d, r.draw)
  /\ r.answer = "no_slot" =>
       LET pending == Pipelines!PendingOf(r.draw.pipelines)
       IN Cardinality(pending \ Pipelines!VariantsOf(pending)) = Slots
  /\ Pipelines!Ready(r.draw, Pipelines!KeyFor(state, FALSE)) => r.answer = "drawn"

LEMMA BaseAnswerIsSound ==
  ASSUME NEW d, PassIsGood(d), NEW state \in States,
         NEW queue_variant \in BOOLEAN, NEW reuse \in BOOLEAN,
         queue_variant => /\ d.pass.variant
                          /\ d.pipelines[Pipelines!KeyFor(state, TRUE)].status
                               = "absent"
  PROVE  LET r == Pipelines!BaseAnswer(d, Pipelines!KeyFor(state, FALSE),
                    Pipelines!KeyFor(state, TRUE), queue_variant, reuse)
         IN Sound(d, state, r) /\ (r.answer = "drawn" => r.shader = Pipelines!Base)
<1> DEFINE base == Pipelines!KeyFor(state, FALSE)
           variant == Pipelines!KeyFor(state, TRUE)
           status == d.pipelines[base].status
           queue == queue_variant /\ ~d.pass.failed /\ Pipelines!VariantAdmitted(d)
           done == Pipelines!Published(d, base, reuse)
           made == Pipelines!Create(d, base, FALSE)
           r == Pipelines!BaseAnswer(d, base, variant, queue_variant, reuse)
<1>0. /\ base \in Pipelines!Keys /\ variant \in Pipelines!Keys /\ base # variant
      /\ ~base.word18 /\ variant.word18
      /\ base.word18 = FALSE /\ variant.word18 = TRUE
  BY DEF Pipelines!KeyFor, Pipelines!Keys
<1>1. r = CASE Pipelines!Found(d, base, reuse) ->
                 Pipelines!Answer(IF queue THEN Pipelines!Create(done, variant, TRUE)
                                  ELSE done, "drawn",
                                  Pipelines!ShaderOf(d, base, reuse))
            [] ~Pipelines!Found(d, base, reuse) /\ status = "absent" ->
                 Pipelines!Answer(made, IF made = d THEN "no_slot" ELSE "queued",
                                  Pipelines!Base)
            [] OTHER -> Pipelines!Answer(d, IF status = "bad" THEN "bad"
                                            ELSE "pending", Pipelines!Base)
  BY DEF Pipelines!BaseAnswer
<1> HIDE DEF r, base, variant
<1>2. CASE Pipelines!Found(d, base, reuse)
  <2>1. /\ PassIsGood(done) /\ done.pipelines = d.pipelines
        /\ done.in_flight = d.in_flight /\ done.pass.variant = d.pass.variant
    BY <1>0, <1>2, PublishedIsGood
  <2>2. d.pipelines[base].shader = Pipelines!Base
    BY <1>0 DEF PassIsGood
  <2>3. Pipelines!ShaderOf(d, base, reuse) = Pipelines!Base
    BY <2>2 DEF Pipelines!ShaderOf, Pipelines!MemoHit
  <2> DEFINE after == IF queue THEN Pipelines!Create(done, variant, TRUE) ELSE done
  <2>4. /\ r.draw = after /\ r.answer = "drawn"
        /\ r.shader = Pipelines!Base
    <3>1. r = Pipelines!Answer(after, "drawn", Pipelines!ShaderOf(d, base, reuse))
      BY <1>1, <1>2
    <3> HIDE DEF after
    <3> QED BY <2>3, <3>1, AnswerFields
  <2>5. Counted(done, after) => Counted(d, after)
    BY <2>1 DEF Counted
  <2>6. CASE queue
    <3>1. done.pipelines[variant].status = "absent" /\ done.pass.variant
      BY <2>1, <2>6 DEF variant
    <3>2. after = Pipelines!Create(done, variant, variant.word18)
      BY <1>0, <2>6
    <3> HIDE DEF after, done
    <3>3. PassIsGood(after) /\ Counted(done, after)
      BY <1>0, <2>1, <3>1, <3>2, CreateIsGood
    <3> QED BY <2>4, <2>5, <3>3 DEF Sound, base, r, variant
  <2>7. CASE ~queue
    <3>1. after = done
      BY <2>7
    <3>2. Counted(done, after)
      BY <3>1 DEF Counted
    <3> HIDE DEF after, done
    <3> QED BY <2>1, <2>4, <2>5, <3>1, <3>2 DEF Sound, base, r, variant
  <2> QED BY <2>6, <2>7
<1>3. CASE ~Pipelines!Found(d, base, reuse) /\ status = "absent"
  <2>1. /\ r.draw = made
        /\ r.answer = IF made = d THEN "no_slot" ELSE "queued"
    <3>1. r = Pipelines!Answer(made, IF made = d THEN "no_slot" ELSE "queued",
                               Pipelines!Base)
      BY <1>1, <1>3
    <3> HIDE DEF made
    <3> QED BY <3>1, AnswerFields
  <2>2. made = Pipelines!Create(d, base, base.word18)
    BY <1>0
  <2> HIDE DEF made
  <2>3. /\ PassIsGood(made) /\ Counted(d, made)
        /\ made.pipelines[base].status # "ready"
        /\ made = d => Cardinality(BasePending(d.pipelines)) = Slots
    BY <1>0, <1>3, <2>2, CreateIsGood
  <2>4. made = d =>
          LET pending == Pipelines!PendingOf(d.pipelines)
          IN Cardinality(pending \ Pipelines!VariantsOf(pending)) = Slots
    BY <2>3, BaseCount DEF PassIsGood
  <2> QED BY <2>1, <2>3, <2>4 DEF Sound, Pipelines!Ready, base, r, variant
<1>4. CASE ~Pipelines!Found(d, base, reuse) /\ status # "absent"
  <2>1. /\ r.draw = d /\ r.answer \in {"bad", "pending"}
    BY <1>1, <1>4, AnswerFields
  <2>2. ~Pipelines!Ready(d, base)
    BY <1>4 DEF Pipelines!Found
  <2>3. Counted(d, d)
    BY DEF Counted
  <2> QED BY <2>1, <2>2, <2>3 DEF Sound, base, r, variant
<1> QED BY <1>2, <1>3, <1>4

LEMMA ChosenIsSound ==
  ASSUME NEW p \in Passes, PassIsGood(Pipelines!At(p)), NEW state \in States,
         NEW alpha \in Pipelines!Alphas, NEW reuse \in BOOLEAN
  PROVE  LET r == Pipelines!Chosen(p, state, alpha, reuse)
         IN /\ Sound(Pipelines!At(p), state, r)
            /\ r.answer = "drawn" /\ alpha.discards => r.shader = Pipelines!Base
<1> DEFINE d0 == Pipelines!At(p)
           d == Pipelines!Reaped(d0)
           base == Pipelines!KeyFor(state, FALSE)
           variant == Pipelines!KeyFor(state, TRUE)
           want == Pipelines!WantsVariant(d0, alpha)
           e == [d EXCEPT !.pass.memo = IF reuse THEN @ ELSE Pipelines!NoMemo]
           queue == want /\ d.pipelines[variant].status = "absent"
           published == Pipelines!Published(d, variant, reuse)
           r == Pipelines!Chosen(p, state, alpha, reuse)
<1>0. variant \in Pipelines!Keys
  BY DEF Pipelines!KeyFor, Pipelines!Keys
<1>1. /\ d0 \in Draws /\ PassIsGood(d)
      /\ VariantsRunning(d.pipelines) = VariantsRunning(d0.pipelines)
      /\ d.in_flight = d0.in_flight /\ d.pass.variant = d0.pass.variant
  <2>1. PassIsGood(d0) /\ d0 \in Draws
    BY DEF PassIsGood
  <2> HIDE DEF d0
  <2> QED BY <2>1, ReapedIsGood, ReapedFacts
<1>2. want => ~alpha.discards /\ d0.pass.variant
  BY DEF Pipelines!WantsVariant
<1>3. want \in BOOLEAN /\ queue \in BOOLEAN
  BY DEF Pipelines!WantsVariant
<1>4. r = IF want /\ Pipelines!Found(d, variant, reuse)
          THEN Pipelines!Answer(published, "drawn",
                                Pipelines!ShaderOf(d, variant, reuse))
          ELSE Pipelines!BaseAnswer(e, base, variant, queue, reuse)
  BY DEF Pipelines!Chosen
<1>5. CASE want /\ Pipelines!Found(d, variant, reuse)
  <2>1. r.draw = published /\ r.answer = "drawn"
    <3> DEFINE shader == Pipelines!ShaderOf(d, variant, reuse)
    <3>1. r = Pipelines!Answer(published, "drawn", shader)
      BY <1>4, <1>5
    <3> HIDE DEF published, r, shader
    <3> QED BY <3>1, AnswerFields
  <2> HIDE DEF d, d0, want, r, variant
  <2>2. /\ PassIsGood(published) /\ published.pipelines = d.pipelines
        /\ published.in_flight = d.in_flight
    BY <1>0, <1>1, <1>5, PublishedIsGood
  <2>3. Counted(d0, published)
    BY <1>1, <2>2 DEF Counted
  <2> QED BY <1>2, <1>5, <2>1, <2>2, <2>3 DEF Sound, r, d0
<1>6. CASE ~(want /\ Pipelines!Found(d, variant, reuse))
  <2>1. r = Pipelines!BaseAnswer(e, base, variant, queue, reuse)
    BY <1>4, <1>6
  <2> HIDE DEF r, d, d0, want
  <2>2. /\ PassIsGood(e) /\ e.pipelines = d.pipelines
        /\ e.in_flight = d.in_flight /\ e.pass.variant = d.pass.variant
    <3> DEFINE memo_ == IF reuse THEN d.pass.memo ELSE Pipelines!NoMemo
    <3>1. memo_ \in {d.pass.memo, Pipelines!NoMemo}
      OBVIOUS
    <3>2. e = [d EXCEPT !.pass.memo = memo_]
      OBVIOUS
    <3> HIDE DEF e, memo_
    <3> QED BY <1>1, <3>1, <3>2, ForgottenIsGood
  <2>3. queue => e.pass.variant /\ e.pipelines[variant].status = "absent"
    BY <1>1, <1>2, <2>2
  <2> HIDE DEF e, queue
  <2>4. /\ Sound(e, state, r)
        /\ r.answer = "drawn" => r.shader = Pipelines!Base
    BY <1>3, <2>1, <2>2, <2>3, BaseAnswerIsSound
  <2>5. Counted(e, r.draw) => Counted(d0, r.draw)
    BY <1>1, <2>2 DEF Counted
  <2> QED BY <2>4, <2>5 DEF Sound, r, d0
<1> QED BY <1>5, <1>6

(***************************************************************************)
(* The steps of the pipelines.                                             *)
(***************************************************************************)
LEMMA AtFields ==
  ASSUME NEW p \in Passes
  PROVE  /\ Pipelines!At(p).pass = pass[p]
         /\ Pipelines!At(p).pipelines = pipelines[p]
         /\ Pipelines!At(p).in_flight = in_flight
BY DEF Pipelines!At

(* A pass stays good whatever the others do to the shared count.            *)
LEMMA OtherPassStays ==
  ASSUME NEW q \in Passes, PassIsGood(Pipelines!At(q)),
         pass'[q] = pass[q], pipelines'[q] = pipelines[q], in_flight' \in Nat
  PROVE  PassIsGood(Pipelines!At(q))'
<1>1. Pipelines!At(q)' \in Draws
  BY DEF Pipelines!At, PassIsGood, Draws
<1>2. /\ Pipelines!At(q)'.pass = Pipelines!At(q).pass
      /\ Pipelines!At(q)'.pipelines = Pipelines!At(q).pipelines
  BY DEF Pipelines!At
<1> QED BY <1>1, <1>2 DEF PassIsGood

LEMMA DrawKeepsPipelines ==
  ASSUME PipelinesInv, NEW p \in Passes, NEW state \in States,
         NEW alpha \in Pipelines!Alphas, NEW reuse \in BOOLEAN,
         Pipelines!Draw(p, state, alpha, reuse)
  PROVE  PipelinesInv'
<1> DEFINE r == Pipelines!Chosen(p, state, alpha, reuse).draw
<1>1. PassIsGood(r) /\ Counted(Pipelines!At(p), r)
  BY ChosenIsSound DEF PipelinesInv, Sound
<1>2. /\ pass' = [pass EXCEPT ![p] = r.pass]
      /\ pipelines' = [pipelines EXCEPT ![p] = r.pipelines]
      /\ in_flight' = r.in_flight
  BY DEF Pipelines!Draw
<1> HIDE DEF r
<1>3. /\ r.pass \in Holdings /\ r.pipelines \in Lines /\ r.in_flight \in Nat
      /\ r = [pass |-> r.pass, pipelines |-> r.pipelines, in_flight |-> r.in_flight]
  BY <1>1 DEF PassIsGood, Draws
<1>4. /\ pass' \in [Passes -> Holdings] /\ pipelines' \in [Passes -> Lines]
      /\ pass'[p] = r.pass /\ pipelines'[p] = r.pipelines
      /\ \A q \in Passes \ {p} : pass'[q] = pass[q] /\ pipelines'[q] = pipelines[q]
  BY <1>2, <1>3 DEF PipelinesInv
<1>5. ASSUME NEW q \in Passes PROVE PassIsGood(Pipelines!At(q))'
  <2>1. CASE q = p
    <3>1. Pipelines!At(p)' = r
      BY <1>2, <1>3, <1>4 DEF Pipelines!At
    <3> QED BY <1>1, <2>1, <3>1 DEF PassIsGood
  <2>2. CASE q # p
    <3>1. PassIsGood(Pipelines!At(q))
      BY DEF PipelinesInv
    <3> QED BY <1>2, <1>3, <1>4, <2>2, <3>1, OtherPassStays
  <2> QED BY <2>1, <2>2
<1>6. CountIsExact'
  <2>1. /\ in_flight \in 0 .. VariantSlots
        /\ IsFiniteSet(Pipelines!Running(TRUE))
        /\ in_flight = Cardinality(Pipelines!Running(TRUE))
    BY DEF PipelinesInv, CountIsExact
  <2>2. CASE /\ r.in_flight = in_flight
             /\ VariantsRunning(r.pipelines) = VariantsRunning(pipelines[p])
    <3>1. Pipelines!Running(TRUE)' = Pipelines!Running(TRUE)
      <4>1. ASSUME NEW x \in Passes \X Pipelines!Keys
            PROVE  (pipelines'[x[1]][x[2]].status = "running" /\ x[2].word18 = TRUE)
                     <=> (pipelines[x[1]][x[2]].status = "running" /\ x[2].word18 = TRUE)
        <5>1. CASE x[1] = p
          BY <1>4, <2>2, <5>1 DEF VariantsRunning, Pipelines!Keys
        <5>2. CASE x[1] # p
          BY <1>4, <5>2
        <5> QED BY <5>1, <5>2
      <4> QED BY <4>1 DEF Pipelines!Running
    <3> QED BY <1>2, <2>1, <2>2, <3>1 DEF CountIsExact
  <2>3. ASSUME r.in_flight = in_flight + 1, in_flight < VariantSlots,
               NEW key \in Pipelines!Keys \ VariantsRunning(pipelines[p]),
               VariantsRunning(r.pipelines)
                 = VariantsRunning(pipelines[p]) \union {key}
        PROVE  CountIsExact'
    <3>1. Pipelines!Running(TRUE)' = Pipelines!Running(TRUE) \union {<<p, key>>}
      <4>1. ASSUME NEW x \in Passes \X Pipelines!Keys
            PROVE  (pipelines'[x[1]][x[2]].status = "running" /\ x[2].word18 = TRUE)
                     <=> \/ pipelines[x[1]][x[2]].status = "running"
                            /\ x[2].word18 = TRUE
                         \/ x = <<p, key>>
        <5>1. CASE x[1] = p
          <6>1. x[2] \in VariantsRunning(r.pipelines)
                  <=> x[2] \in VariantsRunning(pipelines[p]) \/ x[2] = key
            BY <2>3
          <6>2. x = <<p, key>> <=> x[2] = key
            BY <5>1
          <6>3. x[2].word18 \in BOOLEAN /\ x[2] \in Pipelines!Keys
            BY DEF Pipelines!Keys
          <6> QED BY <1>4, <5>1, <6>1, <6>2, <6>3 DEF VariantsRunning
        <5>2. CASE x[1] # p
          <6>1. x # <<p, key>>
            BY <5>2
          <6> QED BY <1>4, <5>2, <6>1
        <5> QED BY <5>1, <5>2
      <4>2. <<p, key>> \in Passes \X Pipelines!Keys
        OBVIOUS
      <4> QED BY <4>1, <4>2 DEF Pipelines!Running
    <3>2. <<p, key>> \notin Pipelines!Running(TRUE)
      BY <2>3 DEF Pipelines!Running, VariantsRunning
    <3>3. /\ IsFiniteSet(Pipelines!Running(TRUE) \union {<<p, key>>})
          /\ Cardinality(Pipelines!Running(TRUE) \union {<<p, key>>})
               = Cardinality(Pipelines!Running(TRUE)) + 1
      BY <2>1, <3>2, FS_AddElement
    <3>4. in_flight' \in 0 .. VariantSlots
      <4>1. in_flight' = in_flight + 1
        BY <1>2, <2>3
      <4>2. in_flight \in 0 .. VariantSlots /\ in_flight < VariantSlots
        BY <2>1, <2>3
      <4> QED BY <4>1, <4>2, SlotsArePositive
    <3> QED BY <1>2, <2>1, <2>3, <3>1, <3>3, <3>4 DEF CountIsExact
  <2>4. Pipelines!At(p).in_flight = in_flight
        /\ Pipelines!At(p).pipelines = pipelines[p]
    BY AtFields
  <2> QED BY <1>1, <2>2, <2>3, <2>4 DEF Counted
<1> QED BY <1>4, <1>5, <1>6 DEF PipelinesInv

LEMMA SetVariantKeepsPipelines ==
  ASSUME PipelinesInv, NEW p \in Passes, Pipelines!SetVariant(p)
  PROVE  PipelinesInv'
<1> DEFINE holding == [pass[p] EXCEPT !.variant = TRUE]
<1>1. /\ pass[p] \in Holdings /\ pass \in [Passes -> Holdings]
      /\ pipelines' = pipelines /\ in_flight' = in_flight
      /\ in_flight \in Nat
  BY CountIsTyped DEF PipelinesInv, Pipelines!SetVariant
<1>2. pass' = [pass EXCEPT ![p] = holding]
  BY <1>1 DEF Pipelines!SetVariant, Holdings
<1>3. holding \in Holdings /\ holding.memo = pass[p].memo /\ holding.variant
  BY <1>1 DEF Holdings
<1> HIDE DEF holding
<1>4. /\ pass' \in [Passes -> Holdings] /\ pass'[p] = holding
      /\ \A q \in Passes \ {p} : pass'[q] = pass[q]
  BY <1>1, <1>2, <1>3
<1>5. ASSUME NEW q \in Passes PROVE PassIsGood(Pipelines!At(q))'
  <2>1. PassIsGood(Pipelines!At(q))
    BY DEF PipelinesInv
  <2>2. CASE q = p
    <3>1. /\ Pipelines!At(q)'.pass = holding
          /\ Pipelines!At(q)'.pipelines = Pipelines!At(q).pipelines
          /\ Pipelines!At(q).pass = pass[p]
      BY <1>1, <1>4, <2>2 DEF Pipelines!At
    <3>2. Pipelines!At(q)' \in Draws
      BY <1>1, <1>3, <1>4, <2>1, <2>2 DEF Pipelines!At, PassIsGood, Draws
    <3> QED BY <1>3, <2>1, <3>1, <3>2 DEF PassIsGood
  <2>3. CASE q # p
    BY <1>1, <1>4, <2>1, <2>3, OtherPassStays
  <2> QED BY <2>2, <2>3
<1>6. CountIsExact'
  <2>1. Pipelines!Running(TRUE)' = Pipelines!Running(TRUE)
    BY <1>1 DEF Pipelines!Running
  <2> QED BY <1>1, <2>1 DEF PipelinesInv, CountIsExact
<1> QED BY <1>1, <1>4, <1>5, <1>6 DEF PipelinesInv

LEMMA ReturnKeepsPipelines ==
  ASSUME PipelinesInv, NEW p \in Passes, NEW key \in Pipelines!Keys,
         NEW good \in BOOLEAN, Pipelines!CreationReturns(p, key, good)
  PROVE  PipelinesInv'
<1> DEFINE status == IF good THEN "good_result" ELSE "bad_result"
           line == [pipelines[p][key] EXCEPT !.status = status]
           lines == [pipelines[p] EXCEPT ![key] = line]
<1>1. /\ pipelines \in [Passes -> Lines] /\ pipelines[p] \in Lines
      /\ pipelines[p][key] \in [status : Pipelines!Statuses,
                                shader : {Pipelines!Base, Pipelines!Variant}]
      /\ pipelines[p][key].status = "running" /\ pass' = pass
      /\ pass \in [Passes -> Holdings]
      /\ in_flight \in Nat /\ in_flight \in 0 .. VariantSlots
      /\ in_flight' = in_flight - Pipelines!Uncounted(key, good)
      /\ IsFiniteSet(Pipelines!Running(TRUE))
      /\ in_flight = Cardinality(Pipelines!Running(TRUE))
  <2>1. in_flight \in Nat /\ pipelines \in [Passes -> Lines]
    BY CountIsTyped DEF PipelinesInv
  <2> QED BY <2>1 DEF PipelinesInv, Pipelines!CreationReturns, CountIsExact, Lines
<1>2. pipelines' = [pipelines EXCEPT ![p] = lines]
  BY <1>1 DEF Pipelines!CreationReturns, Lines
<1>3. /\ line \in [status : Pipelines!Statuses,
                   shader : {Pipelines!Base, Pipelines!Variant}]
      /\ line.shader = pipelines[p][key].shader
      /\ line.status \in {"good_result", "bad_result"}
  BY <1>1 DEF Pipelines!Statuses
<1> HIDE DEF line
<1>4. /\ lines \in Lines /\ lines[key] = line
      /\ \A other \in Pipelines!Keys \ {key} : lines[other] = pipelines[p][other]
  BY <1>1, <1>3 DEF Lines
<1> HIDE DEF lines
<1>5. /\ pipelines' \in [Passes -> Lines] /\ pipelines'[p] = lines
      /\ \A q \in Passes \ {p} : pipelines'[q] = pipelines[q]
  BY <1>1, <1>2, <1>4
<1>6. /\ CountIsExact' /\ in_flight' \in Nat
  <2>1. ASSUME NEW x \in Passes \X Pipelines!Keys
        PROVE  (pipelines'[x[1]][x[2]].status = "running" /\ x[2].word18 = TRUE)
                 <=> /\ pipelines[x[1]][x[2]].status = "running"
                     /\ x[2].word18 = TRUE
                     /\ x # <<p, key>>
    <3>1. CASE x = <<p, key>>
      BY <1>3, <1>4, <1>5, <3>1
    <3>2. CASE x[1] = p /\ x[2] # key
      <4>1. x # <<p, key>> /\ x[2] \in Pipelines!Keys \ {key}
        BY <3>2
      <4> QED BY <1>4, <1>5, <3>2, <4>1
    <3>3. CASE x[1] # p
      <4>1. x # <<p, key>> /\ x[1] \in Passes \ {p}
        BY <3>3
      <4> QED BY <1>5, <4>1
    <3>4. x = <<p, key>> \/ x[1] # p \/ x[2] # key
      OBVIOUS
    <3> QED BY <3>1, <3>2, <3>3, <3>4
  <2>2. Pipelines!Running(TRUE)' = Pipelines!Running(TRUE) \ {<<p, key>>}
    BY <2>1 DEF Pipelines!Running
  <2>3. CASE key.word18
    <3>1. <<p, key>> \in Pipelines!Running(TRUE)
      <4>1. key.word18 = TRUE
        BY <2>3 DEF Pipelines!Keys
      <4> QED BY <1>1, <4>1 DEF Pipelines!Running
    <3>2. /\ IsFiniteSet(Pipelines!Running(TRUE) \ {<<p, key>>})
          /\ Cardinality(Pipelines!Running(TRUE) \ {<<p, key>>})
               = Cardinality(Pipelines!Running(TRUE)) - 1
      BY <1>1, <3>1, FS_RemoveElement
    <3>3. Cardinality(Pipelines!Running(TRUE) \ {<<p, key>>}) \in Nat
      BY <3>2, FS_CardinalityType
    <3>4. in_flight' = in_flight - 1
      BY <1>1, <2>3 DEF Pipelines!Uncounted
    <3>5. in_flight' \in 0 .. VariantSlots
      <4>1. in_flight - 1 \in Nat
        BY <1>1, <3>2, <3>3
      <4>2. in_flight \in 0 .. VariantSlots
        BY <1>1
      <4> QED BY <3>4, <4>1, <4>2, WithinSlots
    <3>6. in_flight' = Cardinality(Pipelines!Running(TRUE))'
      BY <1>1, <2>2, <3>2, <3>4
    <3>7. in_flight' \in Nat
      BY <3>5, WithinSlots
    <3> QED BY <2>2, <3>2, <3>5, <3>6, <3>7 DEF CountIsExact
  <2>4. CASE ~key.word18
    <3>1. <<p, key>> \notin Pipelines!Running(TRUE)
      BY <2>4 DEF Pipelines!Running
    <3>2. Pipelines!Running(TRUE)' = Pipelines!Running(TRUE)
      BY <2>2, <3>1
    <3>3. in_flight' = in_flight
      <4>1. Pipelines!Uncounted(key, good) = 0
        BY <2>4 DEF Pipelines!Uncounted
      <4>2. in_flight \in Nat /\ in_flight' = in_flight - Pipelines!Uncounted(key, good)
        BY <1>1
      <4> QED BY <4>1, <4>2
    <3> QED BY <1>1, <3>2, <3>3 DEF CountIsExact
  <2> QED BY <2>3, <2>4
<1>7. ASSUME NEW q \in Passes PROVE PassIsGood(Pipelines!At(q))'
  <2>1. PassIsGood(Pipelines!At(q))
    BY DEF PipelinesInv
  <2>2. CASE q = p
    <3>1. /\ Pipelines!At(q)'.pass = pass[p] /\ Pipelines!At(q).pass = pass[p]
          /\ Pipelines!At(q)'.pipelines = lines
          /\ Pipelines!At(q).pipelines = pipelines[p]
      BY <1>1, <1>5, <2>2 DEF Pipelines!At
    <3>2. Pipelines!At(q)' \in Draws
      BY <1>1, <1>4, <1>5, <1>6, <2>2 DEF Pipelines!At, Draws
    <3>3. /\ Pipelines!PendingOf(lines) = Pipelines!PendingOf(pipelines[p])
      BY <1>1, <1>3, <1>4 DEF Pipelines!PendingOf
    <3>4. BasePending(lines) = BasePending(pipelines[p])
      BY <3>3 DEF BasePending
    <3>5. pass[p].memo.valid => /\ pass[p].memo.key \in Pipelines!Keys
                                /\ lines[pass[p].memo.key].status = "ready"
      <4>1. pass[p].memo.valid =>
              /\ pass[p].memo.key \in Pipelines!Keys
              /\ pipelines[p][pass[p].memo.key].status = "ready"
        BY <2>1, <3>1 DEF PassIsGood
      <4> QED BY <1>1, <1>4, <4>1
    <3>6. ASSUME NEW other \in Pipelines!Keys
          PROVE  IF other.word18
                 THEN pass[p].variant \/ lines[other] = Pipelines!NoPipeline
                 ELSE lines[other].shader = Pipelines!Base
      <4>1. IF other.word18
            THEN pass[p].variant \/ pipelines[p][other] = Pipelines!NoPipeline
            ELSE pipelines[p][other].shader = Pipelines!Base
        BY <2>1, <3>1 DEF PassIsGood
      <4>2. pipelines[p][key] # Pipelines!NoPipeline
        BY <1>1, NoPipelineIsLine
      <4> QED BY <1>3, <1>4, <4>1, <4>2
    <3> QED BY <2>1, <3>1, <3>2, <3>3, <3>4, <3>5, <3>6 DEF PassIsGood
  <2>3. CASE q # p
    BY <1>1, <1>5, <1>6, <2>1, <2>3, OtherPassStays
  <2> QED BY <2>2, <2>3
<1> QED BY <1>1, <1>5, <1>6, <1>7 DEF PipelinesInv

LEMMA PipelinesNext == PipelinesInv /\ Pipelines!Next => PipelinesInv'
BY DrawKeepsPipelines, SetVariantKeepsPipelines, ReturnKeepsPipelines
   DEF Pipelines!Next

LEMMA PipelinesStay == PipelinesInv /\ UNCHANGED pipelinesVars => PipelinesInv'
<1> SUFFICES ASSUME PipelinesInv, UNCHANGED pipelinesVars PROVE PipelinesInv'
  OBVIOUS
<1>1. pass' = pass /\ pipelines' = pipelines /\ in_flight' = in_flight
  BY DEF pipelinesVars
<1>2. in_flight' \in Nat
  BY <1>1, CountIsTyped DEF PipelinesInv
<1>3. \A p \in Passes : PassIsGood(Pipelines!At(p))'
  BY <1>1, <1>2, OtherPassStays DEF PipelinesInv
<1>4. Pipelines!Running(TRUE)' = Pipelines!Running(TRUE)
  BY <1>1 DEF Pipelines!Running
<1> QED BY <1>1, <1>3, <1>4 DEF PipelinesInv, CountIsExact

(* What the pipelines' properties ask follows.                              *)
LEMMA PipelinesImply ==
  PipelinesInv => /\ Pipelines!TypeOK /\ Pipelines!VariantsInFlight
                  /\ Pipelines!DiscardIsKept /\ Pipelines!VariantCostsNoDraw
<1> SUFFICES ASSUME PipelinesInv
             PROVE  /\ Pipelines!TypeOK /\ Pipelines!VariantsInFlight
                    /\ Pipelines!DiscardIsKept /\ Pipelines!VariantCostsNoDraw
  OBVIOUS
<1>1. Pipelines!TypeOK
  <2>1. ASSUME NEW p \in Passes, NEW key \in Pipelines!Keys
        PROVE  /\ pipelines[p][key].status \in Pipelines!Statuses
               /\ key.word18 =>
                    pass[p].variant \/ pipelines[p][key] = Pipelines!NoPipeline
    <3>1. PassIsGood(Pipelines!At(p)) /\ pipelines[p] \in Lines
      BY DEF PipelinesInv
    <3> QED BY <3>1, AtFields DEF PassIsGood, Lines
  <2>2. ASSUME NEW p \in Passes
        PROVE  Pipelines!Cardinality({key \in Pipelines!PendingOf(pipelines[p]) :
                                        ~key.word18}) <= Slots
    <3>1. PassIsGood(Pipelines!At(p))
      BY DEF PipelinesInv
    <3> QED BY <3>1, AtFields, SameCardinality DEF PassIsGood, BasePending
  <2> QED BY <2>1, <2>2 DEF Pipelines!TypeOK
<1>2. Pipelines!VariantsInFlight
  <2>1. in_flight <= VariantSlots
    BY CountIsTyped DEF PipelinesInv
  <2> QED BY <2>1, SameCardinality
          DEF PipelinesInv, CountIsExact, Pipelines!VariantsInFlight
<1>3. Pipelines!DiscardIsKept
  BY ChosenIsSound DEF PipelinesInv, Pipelines!DiscardIsKept
<1>4. Pipelines!VariantCostsNoDraw
  <2>1. ASSUME NEW p \in Passes, NEW state \in States,
               NEW alpha \in Pipelines!Alphas, NEW reuse \in BOOLEAN
        PROVE  LET r == Pipelines!Chosen(p, state, alpha, reuse)
                   pending == Pipelines!PendingOf(r.draw.pipelines)
               IN /\ r.answer = "no_slot" =>
                       Pipelines!Cardinality(pending \ Pipelines!VariantsOf(pending))
                         = Slots
                  /\ Pipelines!Ready(r.draw, Pipelines!KeyFor(state, FALSE))
                       => r.answer = "drawn"
    BY ChosenIsSound, SameCardinality DEF PipelinesInv, Sound
  <2> QED BY <2>1 DEF Pipelines!VariantCostsNoDraw
<1> QED BY <1>1, <1>2, <1>3, <1>4

(***************************************************************************)
(* The library.                                                            *)
(***************************************************************************)
AnyBody == Bodies \union {NoBody, CHOOSE body \in Bodies : TRUE}

InFlightStates == {"reading", "compiling", "returned"}

FormRecords ==
  [state : {"none", "ready", "failed"} \union InFlightStates,
   body : AnyBody, blob : AnyBody, expected : AnyBody]

PairRecords ==
  [built : BOOLEAN, usable : BOOLEAN, refused : BOOLEAN,
   body : AnyBody, variant : AnyBody]

Libraries ==
  [variants : [Forms -> FormRecords], tracked : SUBSET Forms, without : Nat,
   pairs : [Pairs -> PairRecords]]

BaseOf(forms) == {f \in forms : f.alpha_test}
TestlessOf(forms) == {f \in forms : ~f.alpha_test}

(* A blob is of the body its job read; that of the form without AlphaTest   *)
(* is also of the body the generated form was compiled from.                *)
FormIsGood(d, f) ==
  LET x == d.variants[f]
      base == d.variants[Generated(f.shader)]
  IN /\ x.blob \in {NoBody, x.body}
     /\ x.state \in {"none", "reading", "compiling"} => x.blob = NoBody
     /\ x.state = "ready" => x.blob # NoBody
     /\ ~f.alpha_test =>
          /\ x.blob \in {NoBody, x.expected}
          /\ x.expected # NoBody => base.state = "ready" /\ base.body = x.expected

(* A pair draws with the generated form, and its variant is of that body.   *)
PairIsGood(d, pair) ==
  LET base == d.variants[Generated(pair.ps)]
      held == d.pairs[pair]
  IN /\ held.built => base.state = "ready" /\ held.body = base.blob
     /\ held.variant # NoBody => held.built /\ held.variant = held.body

CountsAreRight(d) ==
  /\ d.tracked = {f \in Forms : d.variants[f].state \in InFlightStates}
  /\ IsFiniteSet(d.tracked)
  /\ Cardinality(BaseOf(d.tracked)) <= Slots
  /\ d.without = Cardinality(TestlessOf(d.tracked)) /\ d.without <= 1

LibraryIsGood(d) ==
  /\ d \in Libraries
  /\ \A f \in Forms : FormIsGood(d, f)
  /\ \A pair \in Pairs : PairIsGood(d, pair)
  /\ CountsAreRight(d)

CompilesInv ==
  /\ LibraryIsGood(Now)
  /\ files \in [Shaders -> AnyBody]
  /\ MemoIsReady

LEMMA LibraryFacts ==
  /\ VertexShaders \intersect PixelShaders = {} /\ Slots \in Nat \ {0}
  /\ NoBody \notin Bodies
  /\ \A pair \in Pairs : /\ pair.vs \in VertexShaders /\ pair.ps \in PixelShaders
                         /\ pair = [vs |-> pair.vs, ps |-> pair.ps]
                         /\ Generated(pair.vs) \in Forms /\ Generated(pair.ps) \in Forms
                         /\ WithoutTest(pair.ps) \in Forms
  /\ \A f \in Forms : /\ f.shader \in Shaders /\ f.alpha_test \in BOOLEAN
                      /\ Generated(f.shader) \in Forms
                      /\ f.alpha_test <=> f = Generated(f.shader)
                      /\ ~f.alpha_test <=> f = WithoutTest(f.shader)
  /\ \A s : /\ Generated(s).shader = s /\ Generated(s).alpha_test
            /\ WithoutTest(s).shader = s /\ ~WithoutTest(s).alpha_test
BY NativeShaderLibraryAssumption DEF Forms, Shaders, Generated, WithoutTest

LEMMA NoVariantFacts ==
  /\ NoVariant \in FormRecords /\ NoVariant.state = "none"
  /\ NoVariant.body = NoBody /\ NoVariant.blob = NoBody /\ NoVariant.expected = NoBody
BY DEF NoVariant, FormRecords, AnyBody

LEMMA NoPairFacts ==
  /\ NoPair \in PairRecords /\ ~NoPair.built /\ NoPair.variant = NoBody
BY DEF NoPair, PairRecords, AnyBody

(* The forms in flight are those with AlphaTest and those without.          *)
LEMMA BothKinds ==
  ASSUME NEW forms, IsFiniteSet(forms)
  PROVE  /\ IsFiniteSet(BaseOf(forms)) /\ IsFiniteSet(TestlessOf(forms))
         /\ Cardinality(BaseOf(forms)) \in Nat
         /\ Cardinality(TestlessOf(forms)) \in Nat
         /\ Cardinality(forms) \in Nat
         /\ Cardinality(forms) - Cardinality(TestlessOf(forms))
              = Cardinality(BaseOf(forms))
<1> DEFINE base == BaseOf(forms)
           testless == TestlessOf(forms)
<1>1. /\ base \subseteq forms /\ testless \subseteq forms
      /\ forms \ testless = base /\ forms \intersect testless = testless
  BY DEF BaseOf, TestlessOf
<1> HIDE DEF base, testless
<1>2. /\ IsFiniteSet(base) /\ IsFiniteSet(testless)
      /\ Cardinality(forms \ testless)
           = Cardinality(forms) - Cardinality(forms \intersect testless)
  BY <1>1, FS_Subset, FS_Difference
<1>3. /\ Cardinality(base) \in Nat /\ Cardinality(testless) \in Nat
      /\ Cardinality(forms) \in Nat
  BY <1>2, FS_CardinalityType
<1> QED BY <1>1, <1>2, <1>3 DEF base, testless

(* ReapCompiles.                                                            *)
LEMMA ReapedLibrary ==
  ASSUME NEW d, LibraryIsGood(d), NEW e, e = Reaped(d)
  PROVE  LibraryIsGood(e) /\ e.pairs = d.pairs
<1> DEFINE gone == IsReturned(d)
           State(f) == IF f \in gone
                       THEN IF d.variants[f].blob = NoBody THEN "failed" ELSE "ready"
                       ELSE d.variants[f].state
           forms == [f \in Forms |-> [d.variants[f] EXCEPT !.state = State(f)]]
           tracked_ == d.tracked \ gone
           left == TestlessOf(gone)
           without_ == d.without - Cardinality(left)
<1>0. /\ d \in Libraries /\ d.variants \in [Forms -> FormRecords]
      /\ d.tracked \subseteq Forms /\ d.without \in Nat
      /\ d.pairs \in [Pairs -> PairRecords]
  BY DEF LibraryIsGood, Libraries
<1>1. e = [d EXCEPT !.variants = forms, !.tracked = tracked_, !.without = without_]
  BY DEF Reaped, TestlessOf
<1>2. \A f : /\ f \in gone => f \in d.tracked /\ d.variants[f].state = "returned"
             /\ f \in Forms /\ d.variants[f].state = "returned" => f \in gone
             /\ f \in gone => State(f) = IF d.variants[f].blob = NoBody
                                         THEN "failed" ELSE "ready"
             /\ f \notin gone => State(f) = d.variants[f].state
  BY DEF IsReturned, LibraryIsGood, CountsAreRight, InFlightStates
<1>3. \A f \in Forms : State(f) \in {"none", "ready", "failed"} \union InFlightStates
  BY <1>0, <1>2 DEF FormRecords
<1> HIDE DEF gone, State
<1>4. \A f \in Forms : /\ forms[f].state = State(f)
                       /\ forms[f].body = d.variants[f].body
                       /\ forms[f].blob = d.variants[f].blob
                       /\ forms[f].expected = d.variants[f].expected
                       /\ forms[f] \in FormRecords
  BY <1>0, <1>3 DEF FormRecords
<1>5. forms \in [Forms -> FormRecords]
  BY <1>4
<1> HIDE DEF forms
<1>6. /\ d.tracked = {f \in Forms : d.variants[f].state \in InFlightStates}
      /\ IsFiniteSet(d.tracked) /\ Cardinality(BaseOf(d.tracked)) <= Slots
      /\ d.without = Cardinality(TestlessOf(d.tracked)) /\ d.without <= 1
  BY DEF LibraryIsGood, CountsAreRight
<1>7. /\ IsFiniteSet(tracked_) /\ tracked_ \subseteq Forms
      /\ tracked_ = {f \in Forms : forms[f].state \in InFlightStates}
  <2>1. IsFiniteSet(tracked_)
    BY <1>6, FS_Difference
  <2>2. tracked_ = {f \in Forms : forms[f].state \in InFlightStates}
    BY <1>2, <1>4, <1>6 DEF InFlightStates
  <2> QED BY <1>0, <2>1, <2>2
<1>8. /\ without_ \in Nat /\ without_ <= 1
      /\ without_ = Cardinality(TestlessOf(tracked_))
  <2>1. /\ TestlessOf(tracked_) = TestlessOf(d.tracked) \ left
        /\ TestlessOf(d.tracked) \intersect left = left
    BY <1>2 DEF TestlessOf
  <2>2. IsFiniteSet(TestlessOf(d.tracked)) /\ IsFiniteSet(left)
    <3>1. IsFiniteSet(gone)
      BY <1>2, <1>6, FS_Subset
    <3> QED BY <1>6, <3>1, BothKinds
  <2> HIDE DEF left, tracked_
  <2>3. Cardinality(TestlessOf(tracked_))
          = Cardinality(TestlessOf(d.tracked)) - Cardinality(left)
    BY <2>1, <2>2, FS_Difference
  <2>4. Cardinality(TestlessOf(tracked_)) \in Nat /\ Cardinality(left) \in Nat
    BY <1>7, <2>2, BothKinds, FS_CardinalityType
  <2> QED BY <1>0, <1>6, <2>3, <2>4
<1>9. Cardinality(BaseOf(tracked_)) <= Slots
  <2>1. BaseOf(tracked_) \subseteq BaseOf(d.tracked)
    BY DEF BaseOf
  <2> HIDE DEF tracked_
  <2>2. IsFiniteSet(BaseOf(d.tracked)) /\ Cardinality(BaseOf(d.tracked)) \in Nat
    BY <1>6, BothKinds
  <2>3. /\ Cardinality(BaseOf(tracked_)) <= Cardinality(BaseOf(d.tracked))
        /\ Cardinality(BaseOf(tracked_)) \in Nat
    BY <1>7, <2>1, <2>2, FS_Subset, BothKinds
  <2> QED BY <1>6, <2>2, <2>3, LibraryFacts
<1> HIDE DEF tracked_, without_
<1>10. /\ e \in Libraries /\ e.variants = forms /\ e.tracked = tracked_
       /\ e.without = without_ /\ e.pairs = d.pairs
  BY <1>0, <1>1, <1>5, <1>7, <1>8 DEF Libraries
<1>11. CountsAreRight(e)
  BY <1>7, <1>8, <1>9, <1>10 DEF CountsAreRight
<1>12. ASSUME NEW f \in Forms, d.variants[f].state \in {"ready", "none"}
       PROVE  forms[f].state = d.variants[f].state
  BY <1>2, <1>4, <1>12
<1>13. ASSUME NEW f \in Forms PROVE FormIsGood(e, f)
  <2>1. FormIsGood(d, f) /\ Generated(f.shader) \in Forms
    BY LibraryFacts DEF LibraryIsGood
  <2> QED BY <1>2, <1>4, <1>10, <1>12, <2>1 DEF FormIsGood
<1>14. ASSUME NEW pair \in Pairs PROVE PairIsGood(e, pair)
  <2>1. PairIsGood(d, pair) /\ Generated(pair.ps) \in Forms
    BY LibraryFacts DEF LibraryIsGood
  <2> QED BY <1>4, <1>10, <1>12, <2>1 DEF PairIsGood
<1> QED BY <1>10, <1>11, <1>13, <1>14 DEF LibraryIsGood

(* A job starts for a form that has none yet and whose slot is free.        *)
LEMMA StartedLibrary ==
  ASSUME NEW d, LibraryIsGood(d), NEW form \in Forms, NEW async \in BOOLEAN,
         files \in [Shaders -> AnyBody], d.variants[form].state = "none",
         IF form.alpha_test THEN BaseSlotFree(d) ELSE VariantAdmitted(d),
         NEW e, e = Started(d, form, async)
  PROVE  /\ LibraryIsGood(e) /\ e.pairs = d.pairs
         /\ e.variants[form].state \in {"reading", "compiling"}
         /\ \A f \in Forms \ {form} : e.variants[f] = d.variants[f]
<1> DEFINE read == IF async THEN NoBody ELSE files[form.shader]
           begun == IF async THEN "reading" ELSE "compiling"
           asked == Expected(d, form)
           record == [NoVariant EXCEPT !.state = begun, !.body = read,
                                       !.expected = asked]
           forms == [d.variants EXCEPT ![form] = record]
           tracked_ == d.tracked \union {form}
           without_ == d.without + (IF form.alpha_test THEN 0 ELSE 1)
<1>0. /\ d \in Libraries /\ d.variants \in [Forms -> FormRecords]
      /\ d.tracked \subseteq Forms /\ d.without \in Nat
      /\ d.pairs \in [Pairs -> PairRecords]
  BY DEF LibraryIsGood, Libraries
<1>1. e = [d EXCEPT !.variants = forms, !.tracked = tracked_, !.without = without_]
  BY <1>0 DEF Started, Libraries
<1>2. read \in AnyBody /\ begun \in {"reading", "compiling"}
  BY LibraryFacts DEF AnyBody
<1>3. /\ asked \in AnyBody
      /\ ~form.alpha_test /\ asked # NoBody =>
           /\ d.variants[Generated(form.shader)].state = "ready"
           /\ d.variants[Generated(form.shader)].body = asked
  BY <1>0, LibraryFacts DEF Expected, FormRecords, AnyBody
<1> HIDE DEF read, begun, asked
<1>4. /\ record \in FormRecords /\ record.state = begun /\ record.body = read
      /\ record.blob = NoBody /\ record.expected = asked
  BY <1>2, <1>3 DEF NoVariant, FormRecords, AnyBody, InFlightStates
<1> HIDE DEF record
<1>5. /\ forms \in [Forms -> FormRecords] /\ forms[form] = record
      /\ \A f \in Forms \ {form} : forms[f] = d.variants[f]
  BY <1>0, <1>4
<1> HIDE DEF forms
<1>6. /\ d.tracked = {f \in Forms : d.variants[f].state \in InFlightStates}
      /\ IsFiniteSet(d.tracked) /\ Cardinality(BaseOf(d.tracked)) <= Slots
      /\ d.without = Cardinality(TestlessOf(d.tracked)) /\ d.without <= 1
  BY DEF LibraryIsGood, CountsAreRight
<1>7. form \notin d.tracked /\ form \in Forms
  BY <1>6 DEF InFlightStates
<1>8. /\ tracked_ = {f \in Forms : forms[f].state \in InFlightStates}
      /\ IsFiniteSet(tracked_)
  <2>1. tracked_ = {f \in Forms : forms[f].state \in InFlightStates}
    BY <1>2, <1>4, <1>5, <1>6 DEF InFlightStates
  <2> QED BY <1>6, <2>1, FS_AddElement
<1>9. /\ Cardinality(BaseOf(tracked_)) <= Slots
      /\ without_ = Cardinality(TestlessOf(tracked_))
      /\ without_ \in Nat /\ without_ <= 1
  <2>1. /\ Cardinality(BaseOf(d.tracked)) \in Nat
        /\ IsFiniteSet(BaseOf(d.tracked)) /\ IsFiniteSet(TestlessOf(d.tracked))
        /\ Cardinality(d.tracked) - Cardinality(TestlessOf(d.tracked))
             = Cardinality(BaseOf(d.tracked))
    BY <1>6, BothKinds
  <2>2. CASE form.alpha_test
    <3>1. /\ BaseOf(tracked_) = BaseOf(d.tracked) \union {form}
          /\ TestlessOf(tracked_) = TestlessOf(d.tracked)
          /\ form \notin BaseOf(d.tracked)
      BY <1>7, <2>2 DEF BaseOf, TestlessOf
    <3>2. Cardinality(BaseOf(tracked_)) = Cardinality(BaseOf(d.tracked)) + 1
      BY <2>1, <3>1, FS_AddElement
    <3>3. Cardinality(BaseOf(d.tracked)) < Slots
      BY <1>6, <2>1, <2>2 DEF BaseSlotFree
    <3>4. without_ = d.without
      BY <1>0, <2>2
    <3> QED BY <1>0, <1>6, <2>1, <3>1, <3>2, <3>3, <3>4, LibraryFacts
  <2>3. CASE ~form.alpha_test
    <3>1. /\ TestlessOf(tracked_) = TestlessOf(d.tracked) \union {form}
          /\ BaseOf(tracked_) = BaseOf(d.tracked)
          /\ form \notin TestlessOf(d.tracked)
      BY <1>7, <2>3 DEF BaseOf, TestlessOf
    <3>2. Cardinality(TestlessOf(tracked_)) = Cardinality(TestlessOf(d.tracked)) + 1
      BY <2>1, <3>1, FS_AddElement
    <3>3. d.without = 0 /\ without_ = 1
      BY <2>3 DEF VariantAdmitted
    <3> QED BY <1>6, <3>1, <3>2, <3>3
  <2> QED BY <2>2, <2>3
<1> HIDE DEF tracked_, without_
<1>10. /\ e \in Libraries /\ e.variants = forms /\ e.tracked = tracked_
       /\ e.without = without_ /\ e.pairs = d.pairs
  <2>1. tracked_ \subseteq Forms
    BY <1>8
  <2> QED BY <1>0, <1>1, <1>5, <1>9, <2>1 DEF Libraries
<1>11. CountsAreRight(e)
  BY <1>8, <1>9, <1>10 DEF CountsAreRight
<1>12. ASSUME NEW f \in Forms, d.variants[f].state = "ready"
       PROVE  forms[f] = d.variants[f]
  BY <1>5, <1>12
<1>13. ASSUME NEW f \in Forms PROVE FormIsGood(e, f)
  <2>1. FormIsGood(d, f) /\ Generated(f.shader) \in Forms
    BY LibraryFacts DEF LibraryIsGood
  <2>2. CASE f = form
    BY <1>2, <1>3, <1>4, <1>5, <1>10, <1>12, <2>1, <2>2 DEF FormIsGood
  <2>3. CASE f # form
    BY <1>5, <1>10, <1>12, <2>1, <2>3 DEF FormIsGood
  <2> QED BY <2>2, <2>3
<1>14. ASSUME NEW pair \in Pairs PROVE PairIsGood(e, pair)
  <2>1. PairIsGood(d, pair) /\ Generated(pair.ps) \in Forms
    BY LibraryFacts DEF LibraryIsGood
  <2> QED BY <1>10, <1>12, <2>1 DEF PairIsGood
<1> QED BY <1>2, <1>4, <1>5, <1>10, <1>11, <1>13, <1>14 DEF LibraryIsGood

(* A compile that is known to fail before it starts.                        *)
Failed(d, form) == [d EXCEPT !.variants[form].state = "failed"]

LEMMA FailedLibrary ==
  ASSUME NEW d, LibraryIsGood(d), NEW form \in Forms,
         d.variants[form].state = "none",
         NEW e, e = Failed(d, form)
  PROVE  /\ LibraryIsGood(e) /\ e.pairs = d.pairs
         /\ e.variants[form].state = "failed"
         /\ \A f \in Forms \ {form} : e.variants[f] = d.variants[f]
<1> DEFINE record == [d.variants[form] EXCEPT !.state = "failed"]
           forms == [d.variants EXCEPT ![form] = record]
<1>0. /\ d \in Libraries /\ d.variants \in [Forms -> FormRecords]
      /\ d.tracked \subseteq Forms /\ d.without \in Nat
      /\ d.pairs \in [Pairs -> PairRecords]
  BY DEF LibraryIsGood, Libraries
<1>1. e = [d EXCEPT !.variants = forms]
  BY <1>0 DEF Failed, Libraries
<1>2. /\ record \in FormRecords /\ record.state = "failed"
      /\ record.body = d.variants[form].body /\ record.blob = d.variants[form].blob
      /\ record.expected = d.variants[form].expected
  BY <1>0 DEF FormRecords
<1> HIDE DEF record
<1>3. /\ forms \in [Forms -> FormRecords] /\ forms[form] = record
      /\ \A f \in Forms \ {form} : forms[f] = d.variants[f]
  BY <1>0, <1>2
<1> HIDE DEF forms
<1>4. /\ e \in Libraries /\ e.variants = forms /\ e.tracked = d.tracked
      /\ e.without = d.without /\ e.pairs = d.pairs
  BY <1>0, <1>1, <1>3 DEF Libraries
<1>5. CountsAreRight(e)
  <2>1. \A f \in Forms : forms[f].state \in InFlightStates
                           <=> d.variants[f].state \in InFlightStates
    BY <1>2, <1>3 DEF InFlightStates
  <2> QED BY <1>4, <2>1 DEF LibraryIsGood, CountsAreRight
<1>6. ASSUME NEW f \in Forms, d.variants[f].state = "ready"
      PROVE  forms[f] = d.variants[f]
  BY <1>3, <1>6
<1>7. ASSUME NEW f \in Forms PROVE FormIsGood(e, f)
  <2>1. FormIsGood(d, f) /\ Generated(f.shader) \in Forms
    BY LibraryFacts DEF LibraryIsGood
  <2>2. CASE f = form
    BY <1>2, <1>3, <1>4, <1>6, <2>1, <2>2 DEF FormIsGood
  <2>3. CASE f # form
    BY <1>3, <1>4, <1>6, <2>1, <2>3 DEF FormIsGood
  <2> QED BY <2>2, <2>3
<1>8. ASSUME NEW pair \in Pairs PROVE PairIsGood(e, pair)
  <2>1. PairIsGood(d, pair) /\ Generated(pair.ps) \in Forms
    BY LibraryFacts DEF LibraryIsGood
  <2> QED BY <1>4, <1>6, <2>1 DEF PairIsGood
<1> QED BY <1>2, <1>3, <1>4, <1>5, <1>7, <1>8 DEF LibraryIsGood

(* EnsureCompiled: what it leaves, and that a generated form is only left   *)
(* without a job when generated forms hold every slot.                      *)
LEMMA EnsuredLibrary ==
  ASSUME NEW d, LibraryIsGood(d), NEW form \in Forms, NEW async \in BOOLEAN,
         files \in [Shaders -> AnyBody], NEW e, e = Ensured(d, form, async)
  PROVE  /\ LibraryIsGood(e) /\ e.pairs = d.pairs
         /\ \A f \in Forms \ {form} : e.variants[f] = d.variants[f]
         /\ d.variants[form].state # "none" => e = d
         /\ form.alpha_test /\ e.variants[form].state = "none" =>
              e = d /\ Cardinality(BaseOf(d.tracked)) = Slots
         /\ form.alpha_test /\ Cardinality(BaseOf(d.tracked)) = Slots => e = d
<1>1. CASE d.variants[form].state # "none"
  <2>1. e = d
    BY <1>1 DEF Ensured
  <2> QED BY <1>1, <2>1
<1>2. ASSUME form.alpha_test
      PROVE  /\ BaseSlotFree(d) <=> Cardinality(BaseOf(d.tracked)) # Slots
             /\ Cardinality(BaseOf(d.tracked)) \in Nat
  <2>1. /\ IsFiniteSet(d.tracked) /\ Cardinality(BaseOf(d.tracked)) <= Slots
        /\ d.without = Cardinality(TestlessOf(d.tracked))
    BY DEF LibraryIsGood, CountsAreRight
  <2>2. /\ Cardinality(d.tracked) - d.without = Cardinality(BaseOf(d.tracked))
        /\ Cardinality(BaseOf(d.tracked)) \in Nat
    BY <2>1, BothKinds
  <2> QED BY <2>1, <2>2, LibraryFacts DEF BaseSlotFree
<1>3. CASE /\ d.variants[form].state = "none"
           /\ ~(IF form.alpha_test THEN BaseSlotFree(d) ELSE VariantAdmitted(d))
  <2>1. e = d
    BY <1>3 DEF Ensured
  <2> QED BY <1>2, <1>3, <2>1
<1>4. CASE /\ d.variants[form].state = "none"
           /\ IF form.alpha_test THEN BaseSlotFree(d) ELSE VariantAdmitted(d)
  <2>1. form.alpha_test => Cardinality(BaseOf(d.tracked)) # Slots
    BY <1>2, <1>4
  <2>2. CASE ~async /\ files[form.shader] = NoBody
    <3>1. e = Failed(d, form)
      BY <1>4, <2>2 DEF Ensured, Failed
    <3>2. d.variants[form].state = "none"
      BY <1>4
    <3>3. /\ LibraryIsGood(e) /\ e.pairs = d.pairs
          /\ e.variants[form].state = "failed"
          /\ \A f \in Forms \ {form} : e.variants[f] = d.variants[f]
      BY <3>1, <3>2, FailedLibrary
    <3> QED BY <1>4, <2>1, <3>3
  <2>3. CASE ~(~async /\ files[form.shader] = NoBody)
    <3>1. e = Started(d, form, async)
      BY <1>4, <2>3 DEF Ensured
    <3>2. /\ LibraryIsGood(e) /\ e.pairs = d.pairs
          /\ e.variants[form].state \in {"reading", "compiling"}
          /\ \A f \in Forms \ {form} : e.variants[f] = d.variants[f]
      BY <1>4, <3>1, StartedLibrary
    <3> QED BY <1>4, <2>1, <3>2
  <2> QED BY <2>2, <2>3
<1> QED BY <1>1, <1>3, <1>4

LEMMA LookupFields ==
  ASSUME NEW d, NEW answer
  PROVE  Lookup(d, answer).d = d /\ Lookup(d, answer).answer = answer
BY DEF Lookup

(* A pair that is answered "ready" stays so.                                *)
KeepsReady(d, e) ==
  \A pair \in Pairs : d.pairs[pair].built /\ d.pairs[pair].usable
                        => e.pairs[pair].built /\ e.pairs[pair].usable

(* A pair is built once its pixel shader is there.                          *)
LEMMA BuiltLibrary ==
  ASSUME NEW d, LibraryIsGood(d), NEW pair \in Pairs, NEW initialized \in BOOLEAN,
         d.variants[Generated(pair.ps)].state = "ready", ~d.pairs[pair].built,
         NEW e, e = Built(d, pair, initialized)
  PROVE  /\ LibraryIsGood(e) /\ KeepsReady(d, e)
         /\ e.pairs[pair].built /\ e.pairs[pair].usable = initialized
<1> DEFINE blob == d.variants[Generated(pair.ps)].blob
           record == [NoPair EXCEPT !.built = TRUE, !.usable = initialized,
                                    !.body = blob]
           held == [d.pairs EXCEPT ![pair] = record]
<1>0. /\ d \in Libraries /\ d.variants \in [Forms -> FormRecords]
      /\ d.tracked \subseteq Forms /\ d.without \in Nat
      /\ d.pairs \in [Pairs -> PairRecords]
  BY DEF LibraryIsGood, Libraries
<1>1. e = [d EXCEPT !.pairs = held]
  BY <1>0 DEF Built, Libraries
<1>2. blob \in AnyBody
  BY <1>0, LibraryFacts DEF FormRecords
<1>3. /\ record \in PairRecords /\ record.built /\ record.usable = initialized
      /\ record.body = blob /\ record.variant = NoBody
  <2> HIDE DEF blob
  <2> QED BY <1>2 DEF NoPair, PairRecords, AnyBody
<1> HIDE DEF record
<1>4. /\ held \in [Pairs -> PairRecords] /\ held[pair] = record
      /\ \A other \in Pairs \ {pair} : held[other] = d.pairs[other]
  BY <1>0, <1>3
<1> HIDE DEF held
<1>5. /\ e \in Libraries /\ e.variants = d.variants /\ e.tracked = d.tracked
      /\ e.without = d.without /\ e.pairs = held
  BY <1>0, <1>1, <1>4 DEF Libraries
<1>6. CountsAreRight(e) /\ \A f \in Forms : FormIsGood(e, f)
  BY <1>5 DEF LibraryIsGood, CountsAreRight, FormIsGood
<1>7. ASSUME NEW other \in Pairs PROVE PairIsGood(e, other)
  <2>1. PairIsGood(d, other)
    BY DEF LibraryIsGood
  <2>2. CASE other = pair
    BY <1>3, <1>4, <1>5, <2>2 DEF PairIsGood
  <2>3. CASE other # pair
    BY <1>4, <1>5, <2>1, <2>3 DEF PairIsGood
  <2> QED BY <2>2, <2>3
<1>8. KeepsReady(d, e)
  BY <1>4, <1>5 DEF KeepsReady
<1> QED BY <1>3, <1>4, <1>5, <1>6, <1>7, <1>8 DEF LibraryIsGood

(* FindPair without its memo.                                               *)
LEMMA FoundLibrary ==
  ASSUME NEW d0, LibraryIsGood(d0), NEW pair \in Pairs, NEW async \in BOOLEAN,
         files \in [Shaders -> AnyBody], NEW r \in FoundPair(d0, pair, async)
  PROVE  /\ LibraryIsGood(r.d) /\ KeepsReady(d0, r.d)
         /\ r.answer = "ready" => r.d.pairs[pair].built /\ r.d.pairs[pair].usable
         /\ (~r.d.pairs[pair].built
              /\ \E s \in {pair.vs, pair.ps} :
                   r.d.variants[Generated(s)].state = "none")
              => Cardinality(BaseOf(r.d.tracked)) = Slots
<1> DEFINE d == Reaped(d0)
           half == Ensured(d, Generated(pair.vs), async)
           e == Ensured(half, Generated(pair.ps), async)
           states == {e.variants[Generated(s)].state : s \in {pair.vs, pair.ps}}
<1>1. LibraryIsGood(d) /\ d.pairs = d0.pairs
  BY ReapedLibrary
<1>2. /\ Generated(pair.vs) \in Forms /\ Generated(pair.ps) \in Forms
      /\ Generated(pair.vs).alpha_test /\ Generated(pair.ps).alpha_test
      /\ Generated(pair.vs) # Generated(pair.ps)
  BY LibraryFacts DEF Generated
<1>3. \/ /\ d.pairs[pair].built
         /\ \/ r = Lookup(d, "ready") /\ d.pairs[pair].usable
            \/ r = Lookup(d, "unusable")
      \/ /\ ~d.pairs[pair].built
         /\ \/ r = Lookup(e, "not_ready")
            \/ r = Lookup(e, "unusable")
            \/ /\ states = {"ready"}
               /\ \/ r = Lookup(Built(e, pair, TRUE), "ready")
                  \/ r = Lookup(Built(e, pair, FALSE), "unusable")
  BY DEF FoundPair
<1> HIDE DEF d
<1>4. /\ LibraryIsGood(half) /\ half.pairs = d.pairs
      /\ half.variants[Generated(pair.vs)].state = "none" =>
           half = d /\ Cardinality(BaseOf(d.tracked)) = Slots
  BY <1>1, <1>2, EnsuredLibrary
<1> HIDE DEF half
<1>5. /\ LibraryIsGood(e) /\ e.pairs = d.pairs
      /\ \A f \in Forms \ {Generated(pair.ps)} : e.variants[f] = half.variants[f]
      /\ e.variants[Generated(pair.ps)].state = "none" =>
           e = half /\ Cardinality(BaseOf(half.tracked)) = Slots
      /\ Cardinality(BaseOf(half.tracked)) = Slots => e = half
  BY <1>2, <1>4, EnsuredLibrary
<1>6. (\E s \in {pair.vs, pair.ps} : e.variants[Generated(s)].state = "none")
        => Cardinality(BaseOf(e.tracked)) = Slots
  <2>1. CASE e.variants[Generated(pair.ps)].state = "none"
    BY <1>5, <2>1
  <2>2. CASE e.variants[Generated(pair.vs)].state = "none"
    <3>1. half.variants[Generated(pair.vs)].state = "none"
      BY <1>2, <1>5, <2>2
    <3> QED BY <1>4, <1>5, <3>1
  <2> HIDE DEF e
  <2> QED BY <2>1, <2>2
<1>7. KeepsReady(d0, d) /\ KeepsReady(d0, e)
  BY <1>1, <1>5 DEF KeepsReady
<1>8. states = {"ready"} => e.variants[Generated(pair.ps)].state = "ready"
  OBVIOUS
<1> HIDE DEF e, states
<1>9. CASE d.pairs[pair].built
  <2>1. r.d = d /\ (r.answer = "ready" => d.pairs[pair].usable)
    <3>1. "unusable" # "ready"
      OBVIOUS
    <3> QED BY <1>3, <1>9, <3>1, LookupFields
  <2> QED BY <1>1, <1>7, <1>9, <2>1
<1>10. CASE ~d.pairs[pair].built
  <2>1. CASE r = Lookup(e, "not_ready") \/ r = Lookup(e, "unusable")
    <3>1. r.d = e /\ r.answer # "ready"
      BY <2>1, LookupFields
    <3> QED BY <1>5, <1>6, <1>7, <3>1
  <2>2. ASSUME NEW initialized \in BOOLEAN, states = {"ready"},
               r = Lookup(Built(e, pair, initialized),
                          IF initialized THEN "ready" ELSE "unusable")
        PROVE  /\ LibraryIsGood(r.d) /\ KeepsReady(d0, r.d)
               /\ r.answer = "ready" => r.d.pairs[pair].built /\ r.d.pairs[pair].usable
               /\ r.d.pairs[pair].built
    <3>1. /\ r.d = Built(e, pair, initialized)
          /\ r.answer = IF initialized THEN "ready" ELSE "unusable"
      BY <2>2, LookupFields
    <3>2. ~e.pairs[pair].built
      BY <1>5, <1>10
    <3>3. /\ LibraryIsGood(r.d) /\ KeepsReady(e, r.d)
          /\ r.d.pairs[pair].built /\ r.d.pairs[pair].usable = initialized
      BY <1>5, <1>8, <2>2, <3>1, <3>2, BuiltLibrary
    <3>4. KeepsReady(d0, r.d)
      BY <1>7, <3>3 DEF KeepsReady
    <3>5. r.answer = "ready" => initialized
      BY <3>1
    <3> QED BY <3>3, <3>4, <3>5
  <2>3. CASE states = {"ready"} /\ r = Lookup(Built(e, pair, TRUE), "ready")
    BY <2>2, <2>3
  <2>4. CASE states = {"ready"} /\ r = Lookup(Built(e, pair, FALSE), "unusable")
    BY <2>2, <2>4
  <2> QED BY <1>3, <1>10, <2>1, <2>3, <2>4
<1> QED BY <1>9, <1>10

(* A pair's pass refuses the variant, or takes one of its own body.         *)
LEMMA HeldLibrary ==
  ASSUME NEW d, LibraryIsGood(d), NEW pair \in Pairs, NEW record \in PairRecords,
         record.built = d.pairs[pair].built, record.usable = d.pairs[pair].usable,
         record.body = d.pairs[pair].body,
         record.variant # NoBody => record.built /\ record.variant = record.body,
         NEW held, held = [d.pairs EXCEPT ![pair] = record],
         NEW e, e = [d EXCEPT !.pairs = held]
  PROVE  LibraryIsGood(e) /\ KeepsReady(d, e)
<1>0. /\ d \in Libraries /\ d.variants \in [Forms -> FormRecords]
      /\ d.tracked \subseteq Forms /\ d.without \in Nat
      /\ d.pairs \in [Pairs -> PairRecords]
  BY DEF LibraryIsGood, Libraries
<1>1. /\ held \in [Pairs -> PairRecords] /\ held[pair] = record
      /\ \A other \in Pairs \ {pair} : held[other] = d.pairs[other]
  BY <1>0
<1>2. /\ e \in Libraries /\ e.variants = d.variants /\ e.tracked = d.tracked
      /\ e.without = d.without /\ e.pairs = held
  BY <1>0, <1>1 DEF Libraries
<1>3. CountsAreRight(e) /\ \A f \in Forms : FormIsGood(e, f)
  <2>1. CountsAreRight(e)
    BY <1>2 DEF LibraryIsGood, CountsAreRight
  <2>2. ASSUME NEW f \in Forms PROVE FormIsGood(e, f)
    <3>1. FormIsGood(d, f)
      BY DEF LibraryIsGood
    <3> QED BY <1>2, <3>1 DEF FormIsGood
  <2> QED BY <2>1, <2>2
<1>4. ASSUME NEW other \in Pairs PROVE PairIsGood(e, other)
  <2>1. PairIsGood(d, other)
    BY DEF LibraryIsGood
  <2>2. CASE other = pair
    BY <1>1, <1>2, <2>1, <2>2 DEF PairIsGood
  <2>3. CASE other # pair
    BY <1>1, <1>2, <2>1, <2>3 DEF PairIsGood
  <2> QED BY <2>2, <2>3
<1>5. KeepsReady(d, e)
  BY <1>1, <1>2 DEF KeepsReady
<1> QED BY <1>2, <1>3, <1>4, <1>5 DEF LibraryIsGood

(* RequestNoAlphaTest of a pair that is there.                              *)
LEMMA VariantLibrary ==
  ASSUME NEW d, LibraryIsGood(d), NEW pair \in Pairs, d.pairs[pair].built,
         NEW async \in BOOLEAN, files \in [Shaders -> AnyBody],
         NEW r \in WithVariant(d, pair, async)
  PROVE  LibraryIsGood(r) /\ KeepsReady(d, r)
<1> DEFINE form == WithoutTest(pair.ps)
           e == Ensured(d, form, async)
           blob == e.variants[form].blob
           refused == [e EXCEPT !.pairs[pair].refused = TRUE]
           given == [e EXCEPT !.pairs[pair].variant = blob]
<1>1. \/ r = d
      \/ r = e
      \/ r = refused
      \/ e.variants[form].state = "ready" /\ r = given
  BY DEF WithVariant
<1>2. KeepsReady(d, d)
  BY DEF KeepsReady
<1>3. form \in Forms /\ form.shader = pair.ps /\ ~form.alpha_test
  BY LibraryFacts
<1>4. LibraryIsGood(e) /\ e.pairs = d.pairs
  <2> HIDE DEF form
  <2> QED BY <1>3, EnsuredLibrary
<1>5. KeepsReady(d, e)
  BY <1>4 DEF KeepsReady
<1> HIDE DEF e, form
<1>6. /\ e.pairs[pair] \in PairRecords /\ e.pairs[pair].built
      /\ e.pairs \in [Pairs -> PairRecords]
      /\ e.variants \in [Forms -> FormRecords] /\ e \in Libraries
      /\ PairIsGood(e, pair)
  BY <1>4 DEF LibraryIsGood, Libraries
<1>7. CASE r = refused
  <2> DEFINE record == [e.pairs[pair] EXCEPT !.refused = TRUE]
             held == [e.pairs EXCEPT ![pair] = record]
  <2>1. r = [e EXCEPT !.pairs = held]
    BY <1>6, <1>7 DEF Libraries
  <2>2. /\ record \in PairRecords /\ record.built = e.pairs[pair].built
        /\ record.usable = e.pairs[pair].usable /\ record.body = e.pairs[pair].body
        /\ record.variant = e.pairs[pair].variant
    BY <1>6 DEF PairRecords
  <2>3. record.variant # NoBody => record.built /\ record.variant = record.body
    BY <1>6, <2>2 DEF PairIsGood
  <2> HIDE DEF record
  <2>4. LibraryIsGood(r) /\ KeepsReady(e, r)
    BY <1>4, <2>1, <2>2, <2>3, HeldLibrary
  <2> QED BY <1>5, <2>4 DEF KeepsReady
<1>8. CASE e.variants[form].state = "ready" /\ r = given
  <2>1. blob = e.pairs[pair].body /\ blob \in AnyBody
    <3>1. /\ FormIsGood(e, form) /\ FormIsGood(e, Generated(pair.ps))
          /\ Generated(pair.ps) \in Forms
      BY <1>3, <1>4, LibraryFacts DEF LibraryIsGood
    <3>2. blob # NoBody /\ blob = e.variants[form].expected /\ blob \in AnyBody
      BY <1>3, <1>6, <1>8, <3>1 DEF FormIsGood, FormRecords
    <3>3. /\ e.variants[Generated(pair.ps)].state = "ready"
          /\ e.variants[Generated(pair.ps)].body = blob
      BY <1>3, <3>1, <3>2 DEF FormIsGood
    <3>4. e.variants[Generated(pair.ps)].blob = blob
      BY <3>1, <3>3, LibraryFacts DEF FormIsGood
    <3> QED BY <1>6, <3>2, <3>4 DEF PairIsGood
  <2> HIDE DEF blob
  <2> DEFINE record == [e.pairs[pair] EXCEPT !.variant = blob]
             held == [e.pairs EXCEPT ![pair] = record]
  <2>2. r = [e EXCEPT !.pairs = held]
    BY <1>6, <1>8 DEF Libraries
  <2>3. /\ record \in PairRecords /\ record.built = e.pairs[pair].built
        /\ record.usable = e.pairs[pair].usable /\ record.body = e.pairs[pair].body
        /\ record.variant = blob
    BY <1>6, <2>1 DEF PairRecords
  <2>4. record.variant # NoBody => record.built /\ record.variant = record.body
    BY <1>6, <2>1, <2>3
  <2> HIDE DEF record
  <2>5. LibraryIsGood(r) /\ KeepsReady(e, r)
    BY <1>4, <2>2, <2>3, <2>4, HeldLibrary
  <2> QED BY <1>5, <2>5 DEF KeepsReady
<1> QED BY <1>1, <1>2, <1>4, <1>5, <1>7, <1>8

LEMMA NowFields ==
  /\ Now.variants = variants /\ Now.tracked = tracked
  /\ Now.without = without /\ Now.pairs = pairs
BY DEF Now

(* A remembered pair is one pair.                                           *)
LEMMA MemoIsOne ==
  ASSUME NEW pair \in Pairs, NEW other \in Pairs,
         pair.vs = other.vs, pair.ps = other.ps
  PROVE  pair = other
BY LibraryFacts

(* TryGenericPassImpl.                                                      *)
LEMMA DrawKeepsCompiles ==
  ASSUME CompilesInv, NEW pair \in Pairs, NEW async \in BOOLEAN, Draw(pair, async)
  PROVE  CompilesInv'
<1>1. PICK found \in FoundPair(Now, pair, async), use_memo \in BOOLEAN :
        LET r == IF use_memo /\ MemoHit(pair) THEN Lookup(Reaped(Now), "ready")
                 ELSE found
        IN \E d \in {r.d} \union (IF r.answer = "ready"
                                  THEN WithVariant(r.d, pair, async) ELSE {}) :
             /\ variants' = d.variants /\ tracked' = d.tracked
             /\ without' = d.without /\ pairs' = d.pairs
             /\ memo' = IF use_memo /\ r.answer = "ready" THEN pair ELSE memo
             /\ UNCHANGED <<files, rewrites>>
  BY DEF Draw
<1> DEFINE r == IF use_memo /\ MemoHit(pair) THEN Lookup(Reaped(Now), "ready")
                ELSE found
<1>2. PICK d \in {r.d} \union (IF r.answer = "ready"
                               THEN WithVariant(r.d, pair, async) ELSE {}) :
        /\ variants' = d.variants /\ tracked' = d.tracked
        /\ without' = d.without /\ pairs' = d.pairs
        /\ memo' = IF use_memo /\ r.answer = "ready" THEN pair ELSE memo
        /\ files' = files
  BY <1>1
<1>3. LibraryIsGood(Now) /\ files \in [Shaders -> AnyBody]
  BY DEF CompilesInv
<1>4. /\ LibraryIsGood(r.d) /\ KeepsReady(Now, r.d)
      /\ r.answer = "ready" => r.d.pairs[pair].built /\ r.d.pairs[pair].usable
  <2>1. CASE use_memo /\ MemoHit(pair)
    <3>1. r.d = Reaped(Now)
      BY <2>1, LookupFields
    <3>2. LibraryIsGood(Reaped(Now)) /\ Reaped(Now).pairs = pairs
      BY <1>3, ReapedLibrary, NowFields
    <3>3. pairs[pair].built /\ pairs[pair].usable
      BY <2>1 DEF CompilesInv, MemoIsReady
    <3> HIDE DEF r
    <3> QED BY <3>1, <3>2, <3>3, NowFields DEF KeepsReady
  <2>2. CASE ~(use_memo /\ MemoHit(pair))
    <3>1. r = found
      BY <2>2
    <3> HIDE DEF r
    <3> QED BY <1>3, <3>1, FoundLibrary
  <2> QED BY <2>1, <2>2
<1> HIDE DEF r
<1>5. LibraryIsGood(d) /\ KeepsReady(r.d, d)
  <2>1. CASE d = r.d
    BY <1>4, <2>1 DEF KeepsReady
  <2>2. CASE r.answer = "ready" /\ d \in WithVariant(r.d, pair, async)
    BY <1>3, <1>4, <2>2, VariantLibrary
  <2> QED BY <1>2, <2>1, <2>2
<1>6. Now' = d
  <2>1. d = [variants |-> d.variants, tracked |-> d.tracked,
             without |-> d.without, pairs |-> d.pairs]
    BY <1>5 DEF LibraryIsGood, Libraries
  <2> QED BY <1>2, <2>1 DEF Now
<1>7. MemoIsReady'
  <2>1. KeepsReady(Now, d)
    BY <1>4, <1>5 DEF KeepsReady
  <2>2. ASSUME NEW other \in Pairs, MemoHit(other)'
        PROVE  pairs'[other].built /\ pairs'[other].usable
    <3>1. CASE memo' = memo
      <4>1. pairs[other].built /\ pairs[other].usable
        BY <2>2, <3>1 DEF CompilesInv, MemoIsReady, MemoHit
      <4> QED BY <1>2, <2>1, <4>1, NowFields DEF KeepsReady
    <3>2. CASE r.answer = "ready" /\ memo' = pair
      <4>1. other = pair
        BY <2>2, <3>2, MemoIsOne DEF MemoHit
      <4> QED BY <1>2, <1>4, <1>5, <3>2, <4>1 DEF KeepsReady
    <3> QED BY <1>2, <3>1, <3>2
  <2> QED BY <2>2 DEF MemoIsReady
<1>8. files' \in [Shaders -> AnyBody]
  BY <1>2, <1>3
<1>9. LibraryIsGood(Now)'
  BY <1>5, <1>6
<1> QED BY <1>7, <1>8, <1>9 DEF CompilesInv

(***************************************************************************)
(* The jobs and the file system.                                           *)
(***************************************************************************)
(* A job goes on with its record: what no other form or pair relies on.     *)
LEMMA JobKeepsCompiles ==
  ASSUME CompilesInv, NEW form \in Forms, NEW record \in FormRecords,
         variants[form].state \in InFlightStates, record.state \in InFlightStates,
         variants' = [variants EXCEPT ![form] = record],
         UNCHANGED <<files, tracked, without, pairs, memo>>,
         record.expected = variants[form].expected,
         record.blob \in {NoBody, record.body},
         record.state \in {"reading", "compiling"} => record.blob = NoBody,
         ~form.alpha_test => record.blob \in {NoBody, record.expected}
  PROVE  CompilesInv'
<1>0. /\ LibraryIsGood(Now) /\ Now \in Libraries
      /\ variants \in [Forms -> FormRecords]
      /\ tracked \subseteq Forms /\ without \in Nat
      /\ pairs \in [Pairs -> PairRecords]
  BY NowFields DEF CompilesInv, LibraryIsGood, Libraries
<1>1. /\ variants' \in [Forms -> FormRecords] /\ variants'[form] = record
      /\ \A f \in Forms \ {form} : variants'[f] = variants[f]
  BY <1>0
<1>2. /\ Now'.variants = variants' /\ Now'.tracked = tracked
      /\ Now'.without = without /\ Now'.pairs = pairs /\ Now' \in Libraries
  BY <1>0, <1>1 DEF Now, Libraries
<1>3. \A f \in Forms : variants[f].state = "ready" => variants'[f] = variants[f]
  BY <1>1 DEF InFlightStates
<1>4. CountsAreRight(Now')
  <2>1. \A f \in Forms : variants'[f].state \in InFlightStates
                           <=> variants[f].state \in InFlightStates
    BY <1>1
  <2> QED BY <1>0, <1>2, <2>1, NowFields, ZenonT(60) DEF LibraryIsGood, CountsAreRight
<1>5. ASSUME NEW f \in Forms PROVE FormIsGood(Now', f)
  <2>1. FormIsGood(Now, f) /\ Generated(f.shader) \in Forms
    BY <1>0, LibraryFacts DEF LibraryIsGood
  <2>2. CASE f = form
    BY <1>1, <1>2, <1>3, <2>1, <2>2, NowFields DEF FormIsGood, InFlightStates
  <2>3. CASE f # form
    BY <1>1, <1>2, <1>3, <2>1, <2>3, NowFields DEF FormIsGood
  <2> QED BY <2>2, <2>3
<1>6. ASSUME NEW pair \in Pairs PROVE PairIsGood(Now', pair)
  <2>1. PairIsGood(Now, pair) /\ Generated(pair.ps) \in Forms
    BY <1>0, LibraryFacts DEF LibraryIsGood
  <2> QED BY <1>2, <1>3, <2>1, NowFields DEF PairIsGood
<1>7. LibraryIsGood(Now')
  BY <1>2, <1>4, <1>5, <1>6 DEF LibraryIsGood
<1>8. LibraryIsGood(Now)' /\ files' \in [Shaders -> AnyBody]
  BY <1>7 DEF CompilesInv
<1>9. MemoIsReady'
  BY DEF CompilesInv, MemoIsReady, MemoHit
<1> QED BY <1>8, <1>9 DEF CompilesInv

LEMMA JobFacts ==
  ASSUME CompilesInv, NEW form \in Forms
  PROVE  /\ variants \in [Forms -> FormRecords] /\ variants[form] \in FormRecords
         /\ files[form.shader] \in AnyBody /\ FormIsGood(Now, form)
         /\ NoBody \in AnyBody
<1>1. LibraryIsGood(Now) /\ Now \in Libraries
  BY DEF CompilesInv, LibraryIsGood
<1> QED BY <1>1, NowFields, LibraryFacts
        DEF CompilesInv, LibraryIsGood, Libraries, AnyBody

LEMMA ReadsKeepsCompiles ==
  ASSUME CompilesInv, NEW form \in Forms, JobReads(form)
  PROVE  CompilesInv'
<1> DEFINE record == [variants[form] EXCEPT !.state = "compiling",
                                            !.body = files[form.shader]]
<1>1. /\ variants[form].state = "reading"
      /\ UNCHANGED <<files, tracked, without, pairs, memo>>
  BY DEF JobReads
<1>2. variants' = [variants EXCEPT ![form] = record]
  BY JobFacts DEF JobReads
<1>3. /\ variants[form].blob = NoBody
  BY <1>1, JobFacts, NowFields DEF FormIsGood
<1>4. /\ record \in FormRecords /\ record.state = "compiling"
      /\ record.blob = NoBody /\ record.expected = variants[form].expected
  BY <1>3, JobFacts DEF FormRecords, InFlightStates
<1> HIDE DEF record
<1> QED BY <1>1, <1>2, <1>4, JobKeepsCompiles DEF InFlightStates

LEMMA ReturnsKeepsCompiles ==
  ASSUME CompilesInv, NEW form \in Forms, NEW compiles \in BOOLEAN,
         JobReturns(form, compiles)
  PROVE  CompilesInv'
<1> DEFINE blob == IF Accepts(form, variants[form]) /\ compiles
                   THEN variants[form].body ELSE NoBody
           record == [variants[form] EXCEPT !.state = "returned", !.blob = blob]
<1>1. /\ variants[form].state = "compiling"
      /\ UNCHANGED <<files, tracked, without, pairs, memo>>
  BY DEF JobReturns
<1>2. variants' = [variants EXCEPT ![form] = record]
  BY JobFacts DEF JobReturns
<1>3. /\ blob \in {NoBody, variants[form].body} /\ blob \in AnyBody
      /\ ~form.alpha_test => blob \in {NoBody, variants[form].expected}
  BY JobFacts DEF Accepts, FormRecords
<1> HIDE DEF blob
<1>4. /\ record \in FormRecords /\ record.state = "returned"
      /\ record.blob = blob /\ record.expected = variants[form].expected
      /\ record.body = variants[form].body
  BY <1>3, JobFacts DEF FormRecords, InFlightStates
<1> HIDE DEF record
<1> QED BY <1>1, <1>2, <1>3, <1>4, JobKeepsCompiles DEF InFlightStates

LEMMA RewriteKeepsCompiles ==
  ASSUME CompilesInv, NEW shader \in Shaders, NEW body \in Bodies \union {NoBody},
         Rewrite(shader, body)
  PROVE  CompilesInv'
<1>1. files' \in [Shaders -> AnyBody]
  BY DEF CompilesInv, Rewrite, AnyBody
<1>2. Now' = Now /\ MemoIsReady'
  BY DEF Rewrite, Now, CompilesInv, MemoIsReady, MemoHit
<1> QED BY <1>1, <1>2 DEF CompilesInv

LEMMA CompilesInit == AllInit => CompilesInv
<1> SUFFICES ASSUME Init PROVE CompilesInv
  BY DEF AllInit
<1>1. /\ variants \in [Forms -> FormRecords] /\ tracked = {} /\ without = 0
      /\ pairs \in [Pairs -> PairRecords] /\ files \in [Shaders -> AnyBody]
  BY NoVariantFacts, NoPairFacts DEF Init, AnyBody
<1>2. /\ \A f \in Forms : variants[f] = NoVariant
      /\ \A pair \in Pairs : pairs[pair] = NoPair
  BY DEF Init
<1>3. /\ Now \in Libraries /\ Now.variants = variants /\ Now.tracked = {}
      /\ Now.without = 0 /\ Now.pairs = pairs
  BY <1>1, NowFields DEF Now, Libraries
<1>4. CountsAreRight(Now)
  <2>1. IsFiniteSet({}) /\ Cardinality({}) = 0 /\ 0 <= Slots /\ 0 <= 1
    BY FS_EmptySet, LibraryFacts
  <2>2. BaseOf({}) = {} /\ TestlessOf({}) = {}
    BY DEF BaseOf, TestlessOf
  <2>3. {f \in Forms : variants[f].state \in InFlightStates} = {}
    BY <1>2, NoVariantFacts DEF InFlightStates
  <2> QED BY <1>3, <2>1, <2>2, <2>3 DEF CountsAreRight
<1>5. \A f \in Forms : FormIsGood(Now, f)
  BY <1>2, <1>3, NoVariantFacts DEF FormIsGood
<1>6. \A pair \in Pairs : PairIsGood(Now, pair)
  BY <1>2, <1>3, NoPairFacts DEF PairIsGood
<1>7. MemoIsReady
  <2>1. \A pair \in Pairs : ~MemoHit(pair)
    BY LibraryFacts DEF Init, MemoHit, NoMemo
  <2> QED BY <2>1 DEF MemoIsReady
<1> QED BY <1>1, <1>3, <1>4, <1>5, <1>6, <1>7 DEF CompilesInv, LibraryIsGood

LEMMA CompilesNext == CompilesInv /\ Next => CompilesInv'
BY DrawKeepsCompiles, ReadsKeepsCompiles, ReturnsKeepsCompiles,
   RewriteKeepsCompiles DEF Next, DrawSome

LEMMA CompilesStay == CompilesInv /\ UNCHANGED vars => CompilesInv'
<1> SUFFICES ASSUME CompilesInv, UNCHANGED vars PROVE CompilesInv'
  OBVIOUS
<1>1. Now' = Now /\ files' = files /\ MemoIsReady'
  BY DEF vars, Now, CompilesInv, MemoIsReady, MemoHit
<1> QED BY <1>1 DEF CompilesInv

(* What the library's properties ask follows.                               *)
LEMMA CompilesImply ==
  CompilesInv => /\ TypeOK /\ CompilesAreBounded /\ SameBody /\ MemoIsReady
                 /\ VariantCostsNoCompile
<1> SUFFICES ASSUME CompilesInv
             PROVE  /\ TypeOK /\ CompilesAreBounded /\ SameBody /\ MemoIsReady
                    /\ VariantCostsNoCompile
  OBVIOUS
<1>1. LibraryIsGood(Now) /\ files \in [Shaders -> AnyBody]
  BY DEF CompilesInv
<1>2. /\ variants \in [Forms -> FormRecords]
      /\ tracked = {f \in Forms : variants[f].state \in InFlightStates}
      /\ IsFiniteSet(tracked) /\ Cardinality(BaseOf(tracked)) <= Slots
      /\ without = Cardinality(TestlessOf(tracked)) /\ without <= 1
  BY <1>1, NowFields DEF LibraryIsGood, Libraries, CountsAreRight
<1>3. BaseOf(tracked) = InFlight(TRUE) /\ TestlessOf(tracked) = InFlight(FALSE)
  <2>1. \A f \in Forms : f.alpha_test \in BOOLEAN
    BY LibraryFacts
  <2> QED BY <1>2, <2>1 DEF InFlight, InFlightStates, BaseOf, TestlessOf
<1>4. TypeOK
  <2>1. tracked = BaseOf(tracked) \union TestlessOf(tracked)
    BY DEF BaseOf, TestlessOf
  <2>2. \A f \in Forms : variants[f].state \in
          {"none", "reading", "compiling", "returned", "ready", "failed"}
    BY <1>2 DEF FormRecords, InFlightStates
  <2> QED BY <1>2, <1>3, <2>1, <2>2 DEF TypeOK
<1>5. CompilesAreBounded
  BY <1>2, <1>3 DEF CompilesAreBounded
<1>6. SameBody
  BY <1>1, NowFields DEF LibraryIsGood, PairIsGood, SameBody
<1>7. VariantCostsNoCompile
  <2>1. ASSUME NEW pair \in Pairs, NEW r \in FoundPair(Now, pair, TRUE),
               ~r.d.pairs[pair].built,
               \E s \in {pair.vs, pair.ps} :
                 r.d.variants[Generated(s)].state = "none"
        PROVE  Cardinality({f \in r.d.tracked : f.alpha_test}) = Slots
    <3>1. Cardinality(BaseOf(r.d.tracked)) = Slots
      BY <1>1, <2>1, FoundLibrary
    <3> QED BY <3>1 DEF BaseOf
  <2> QED BY <2>1 DEF VariantCostsNoCompile
<1> QED BY <1>4, <1>5, <1>6, <1>7 DEF CompilesInv

(***************************************************************************)
(* The three components in one behaviour.                                  *)
(***************************************************************************)
IInv == CompilesInv /\ PipelinesInv /\ DiskInv

LEMMA IInvInit == AllInit => IInv
BY CompilesInit, PipelinesInit, DiskInit DEF IInv

LEMMA IInvNext == IInv /\ [AllNext]_allVars => IInv'
<1> SUFFICES ASSUME IInv, [AllNext]_allVars PROVE IInv'
  OBVIOUS
<1>1. CASE Next /\ UNCHANGED <<pipelinesVars, diskVars, component>>
  BY <1>1, CompilesNext, PipelinesStay, DiskStays DEF IInv
<1>2. CASE Pipelines!Next /\ UNCHANGED <<vars, diskVars, component>>
  BY <1>2, CompilesStay, PipelinesNext, DiskStays DEF IInv
<1>3. CASE DiskCache!Next /\ UNCHANGED <<vars, pipelinesVars, component>>
  BY <1>3, CompilesStay, PipelinesStay, DiskNext DEF IInv
<1>4. CASE UNCHANGED allVars
  BY <1>4, CompilesStay, PipelinesStay, DiskStays DEF IInv, allVars
<1> QED BY <1>1, <1>2, <1>3, <1>4 DEF AllNext

(* The libraries, pipelines and disk cache of every size stay good          *)
(* (EnsureCompiled, GetPipeline, NativeShaderCache::Store).                 *)
THEOREM Invariance == AllSpec => []IInv
BY IInvInit, IInvNext, PTL DEF AllSpec

LEMMA DiskImplies == DiskInv => DiskCache!TypeOK /\ DiskCache!ShaderIsWhole
BY DEF DiskInv, EntryIsGood, JobsOwn, Owns, JobsHold, Owning, DiskCache!TypeOK,
       DiskCache!ShaderIsWhole

(* A shader is compiled or loaded whole, compiles are bounded, both forms   *)
(* of a shader are of one body and a remembered pair is ready               *)
(* (NativeShaderLibrary::FindPair, RequestNoAlphaTest; the disk cache's     *)
(* Load and Store).                                                         *)
THEOREM LibraryInvAlways == AllSpec => []LibraryInv
<1>1. IInv => LibraryInv
  BY CompilesImply, PipelinesImply, DiskImplies DEF IInv, LibraryInv
<1> QED BY <1>1, Invariance, PTL

(* A draw whose alpha test can discard is never given a pipeline without    *)
(* AlphaTest, by the map or by the memo (NativeGeometryPass::Record).       *)
THEOREM DiscardIsKeptAlways == AllSpec => []DiscardIsKept
<1>1. IInv => DiscardIsKept
  BY PipelinesImply DEF IInv, DiscardIsKept
<1> QED BY <1>1, Invariance, PTL

(* The form without AlphaTest takes no slot from the generated forms, and   *)
(* the shared count of its creations is exact (NativeBaseSlotFree,          *)
(* g_no_alpha_test_pipelines_in_flight).                                    *)
THEOREM VariantCostsNothingAlways == AllSpec => []VariantCostsNothing
<1>1. IInv => VariantCostsNothing
  BY CompilesImply, PipelinesImply DEF IInv, VariantCostsNothing
<1> QED BY <1>1, Invariance, PTL

(* Only a fault from outside changes an entry that is there                 *)
(* (MoveFileExW without a replace flag).                                    *)
THEOREM EntryIsNeverReplacedAlways == AllSpec => EntryIsNeverReplaced
<1> DEFINE Step == entry' # entry /\ faults' = faults
                     => ~entry.exists /\ entry'.whole
<1>1. IInv /\ [AllNext]_allVars => [Step]_(DiskCache!vars)
  <2> SUFFICES ASSUME IInv, [AllNext]_allVars, entry' # entry, faults' = faults
               PROVE  ~entry.exists /\ entry'.whole
    OBVIOUS
  <2>1. DiskCache!Next
    BY DEF AllNext, allVars, diskVars
  <2> QED BY <2>1, EntryStep DEF IInv
<1>2. AllSpec => [][Step]_(DiskCache!vars)
  BY <1>1, Invariance, PTL DEF AllSpec
<1> QED BY <1>2 DEF EntryIsNeverReplaced, DiskCache!EntryIsNeverReplaced

(* Store claims success only when the entry holds its bytes                 *)
(* (NativeShaderCache::Store).                                              *)
THEOREM StoreIsTruthfulAlways == AllSpec => StoreIsTruthful
<1> DEFINE Step == \A w \in Writers : ~writer[w].stored /\ writer'[w].stored =>
                     entry'.whole /\ entry'.blob = writer[w].blob
<1>1. IInv /\ [AllNext]_allVars => [Step]_(DiskCache!vars)
  <2> SUFFICES ASSUME IInv, [AllNext]_allVars, NEW job \in Writers,
                      ~writer[job].stored, writer'[job].stored
               PROVE  entry'.whole /\ entry'.blob = writer[job].blob
    OBVIOUS
  <2>1. DiskCache!Next
    BY DEF AllNext, allVars, diskVars
  <2> QED BY <2>1, StoreStep DEF IInv
<1>2. AllSpec => [][Step]_(DiskCache!vars)
  BY <1>1, Invariance, PTL DEF AllSpec
<1> QED BY <1>2, PTL DEF StoreIsTruthful, DiskCache!StoreIsTruthful

===============================================================================
