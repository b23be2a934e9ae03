------------------------ MODULE D3D12Submission_proofs ------------------------
(***************************************************************************)
(* The order in which submissions, operations made on the queue itself and *)
(* fence values reach the queue, what AwaitAllQueueOperationsCompletion    *)
(* may conclude from it, where each command allocator is, and what of the  *)
(* frames counted complete is still to be executed: for every profile and  *)
(* every set of allocators.                                                *)
(***************************************************************************)
EXTENDS D3D12Submission, FiniteSetTheorems, SequenceTheorems, WellFoundedInduction, TLAPS

Commands == [submission : Nat, frame : Nat]
Entries ==
  [kind : {"execute", "signal", "direct", "direct_signal"}, commands : Seq(Commands),
   allocator : Allocators \union {NoAllocator}, value : Nat]
Jobs ==
  [operation : Operations, allocator : Allocators \union {NoAllocator}, fence_value : Nat,
   result : HResults]
CpPcs ==
  {"idle", "begin", "record", "export", "boundary", "copy", "direct_flush", "direct",
   "chunk_ready", "chunk", "chunk_result", "notify",
   "end", "end_submit", "end_swap", "end_replay", "end_books", "end_close",
   "fence", "fence_direct", "fence_direct_signal", "fence_direct_wait",
   "fence_check", "fence_flush", "fence_wait", "await", "proven", "unproven",
   "terminate", "exited", "destroy", "destroy_stop", "destroy_join", "torn_down"}
CpStates ==
  [pc : CpPcs, ret : {"idle", "begin", "await"}, end_ret : {"idle", "fence"},
   after : {"idle", "resources", "shutdown", "clear", "copy", "boundary"},
   next : {"idle", "chunk_result", "end_swap", "end_books", "destroy_join", "record", "copy"},
   await : Nat, before : Nat, swap : BOOLEAN, guest : BOOLEAN, copy : BOOLEAN]
SubStates ==
  [open : BOOLEAN, current : Nat \ {0}, completed : Nat, chunk : Allocators \union {NoAllocator},
   direct : BOOLEAN, direct_last : Nat]
EnvStates == [gpu : Nat, removed : BOOLEAN, draws : Nat, profile : DOMAIN Profiles]
FrameStates ==
  [open : BOOLEAN, current : Nat \ {0}, completed : Nat, closed : [0 .. QueueFrames - 1 -> Nat]]
PoolStates ==
  [writable : Seq(Allocators), submitted : Seq([allocator : Allocators, last : Nat])]

Types ==
  /\ state \in {"Idle", "Queued", "Running", "Complete"}
  /\ session_active \in BOOLEAN
  /\ wpc \in {"lock", "waiting", "exited"} \union ExecutePCs
  /\ job \in Jobs /\ result \in HResults /\ whr \in HResults
  /\ stream \in Seq(Commands) /\ source \in Seq(Commands)
  /\ list \in [allocator : Allocators \union {NoAllocator}, commands : Seq(Commands), open : BOOLEAN]
  /\ queue \in Seq(Entries)
  /\ cp \in CpStates /\ sub \in SubStates /\ env \in EnvStates
  /\ frames \in FrameStates /\ pools \in PoolStates
  /\ env.gpu <= Len(queue)

(* The slot is Running exactly while the worker executes, and nothing but  *)
(* the publication is left once the latch is set.                          *)
SlotOwned == state = "Running" <=> wpc \in ExecutePCs
LatchSettled == Failed(result) => state # "Queued" /\ wpc \notin ExecutePCs \ {"publish"}

(* A failure that is known to the worker or to all.                        *)
Broken == Failed(result) \/ (wpc = "store_result" /\ Failed(whr))

(* EndSubmission has handed the submission over, or replayed it, and not   *)
(* yet counted it.                                                         *)
HandedOver ==
  \/ cp.pc \in {"end_swap", "end_books"}
  \/ cp.pc = "notify" /\ cp.next \in {"end_swap", "end_books"}

(* Where the CP has flushed the worker and gives it nothing.               *)
Flushed == {"direct", "end_submit", "end_replay", "fence_direct_signal", "fence_direct_wait"}

(* From the proof that the GPU is idle to the end of the worker.           *)
Quiescing ==
  \/ cp.pc \in {"proven", "destroy", "destroy_stop", "destroy_join"}
  \/ cp.pc = "notify" /\ cp.next = "destroy_join"
  \/ cp.pc = "torn_down" /\ worker = "ready"

PcInv ==
  /\ cp.pc \in Flushed \/ Quiescing => state = "Idle" /\ wpc \notin ExecutePCs
  /\ cp.pc \in Flushed => ~Failed(result)
  /\ cp.pc = "notify" => cp.next \in {"chunk_result", "end_swap", "end_books", "destroy_join"}
  /\ cp.pc \in {"direct_flush", "direct"} => cp.next \in {"record", "copy"}
  /\ cp.pc \in {"chunk_ready", "chunk", "end_submit", "end_replay"} => sub.open
  /\ cp.pc = "end_replay" => sub.chunk = NoAllocator
  /\ cp.pc \in {"fence_direct_signal", "fence_direct_wait"} => sub.direct
  /\ Quiescing => ~sub.open /\ ~session_active /\ env.gpu = Len(queue)

(* A submission without a chunk session is recorded from the first of the  *)
(* writable allocators, which is there until EndSubmission counts it.      *)
PoolInv ==
  (HandedOver \/ cp.pc = "end_replay") /\ sub.chunk = NoAllocator => pools.writable # <<>>

(* The job in the slot and the submission it belongs to.                   *)
JobInv ==
  /\ state \in {"Queued", "Running"} => job.fence_value > 0
  /\ state # "Idle" => (session_active <=> job.operation # "Whole")
  /\ sub.chunk # NoAllocator =>
       /\ job.fence_value = sub.current /\ job.operation # "Whole"
       /\ job.operation = "Finish" => HandedOver \/ Failed(result)
       /\ HandedOver => job.operation = "Finish"
  /\ sub.chunk = NoAllocator =>
       /\ session_active => job.operation = "Finish"
       /\ state \in {"Queued", "Running"} => job.operation \in FinalOperations
  /\ session_active /\ state = "Idle" => job.operation \notin FinalOperations
  /\ state \in {"Queued", "Running"} /\ job.operation \in FinalOperations =>
       job.fence_value < sub.current \/ (job.fence_value = sub.current /\ HandedOver)
  /\ wpc \in {"close", "execute", "signal"} => job.operation \in FinalOperations

(* The commands of the source, the stream and the list are those of the    *)
(* submission that is open or was handed over.                             *)
AllOf(commands, submission) == \A c \in ToSet(commands) : c.submission = submission
ListIsStale ==
  job.operation = "Begin" /\ (state = "Queued" \/ wpc \in {"reset_allocator", "reset_list"})
CommandsInv ==
  /\ sub.open /\ ~HandedOver /\ cp.pc # "notify" /\ ~Failed(result) => AllOf(source, sub.current)
  /\ state = "Queued" \/ wpc \in {"reset_allocator", "reset_list", "replay"}
       => AllOf(stream, job.fence_value)
  /\ wpc \in {"replay", "close", "execute", "signal"} => AllOf(list.commands, job.fence_value)
  /\ session_active /\ ~Broken /\ ~ListIsStale => AllOf(list.commands, job.fence_value)

IsSignal(i) == queue[i].kind = "signal"
IsSpecial(i) == queue[i].kind \in {"direct", "direct_signal"}

(* Each submission is executed and signalled in order, whole.              *)
OrderInv ==
  /\ \A i \in 1 .. Len(queue) : IsSignal(i) =>
       /\ queue[i].value > 0 /\ i > 1 /\ queue[i - 1].kind = "execute"
       /\ AllOf(queue[i - 1].commands, queue[i].value)
       /\ \A j \in 1 .. i - 1 : IsSignal(j) => queue[j].value < queue[i].value
       /\ queue[i].value < sub.current \/ (queue[i].value = sub.current /\ HandedOver)
       /\ Broken => queue[i].value < sub.current
       /\ state = "Queued" \/ wpc \in ExecutePCs \ {"store_result", "publish"}
            => queue[i].value < job.fence_value
  /\ \A i \in 1 .. Len(queue) : queue[i].kind = "execute" =>
       \/ i < Len(queue) /\ IsSignal(i + 1)
       \/ i = Len(queue) /\ (wpc = "signal" \/ Broken)
  /\ wpc = "signal" =>
       /\ Len(queue) > 0 /\ queue[Len(queue)].kind = "execute"
       /\ AllOf(queue[Len(queue)].commands, job.fence_value)

(* The operations made on the queue itself.                                *)
DirectInv ==
  /\ \A i \in 1 .. Len(queue) : IsSpecial(i) =>
       /\ \A j \in 1 .. i - 1 : IsSignal(j) => queue[j].value < sub.current
       /\ ~sub.direct =>
            \/ i <= env.gpu
            \/ sub.current > 1
               /\ \A j \in 1 .. i - 1 : IsSignal(j) => queue[j].value < sub.current - 1
  /\ \A i \in 1 .. Len(queue) : queue[i].kind = "direct" =>
       /\ queue[i].value <= sub.current
       /\ state = "Queued" \/ wpc \in ExecutePCs \ {"store_result", "publish"}
            => queue[i].value <= job.fence_value
       /\ \A j \in 1 .. Len(queue) :
            IsSignal(j) => (j < i <=> queue[j].value < queue[i].value)
  /\ \A i \in 1 .. Len(queue) : queue[i].kind = "direct_signal" =>
       /\ queue[i].value <= sub.direct_last
       /\ cp.pc = "fence_direct_wait" => queue[i].value < sub.direct_last \/ i = Len(queue)
  /\ cp.pc = "fence_direct_wait" => sub.direct_last > 0

(* submission_completed_ is a value the GPU has signalled.                 *)
FenceInv ==
  sub.completed > 0 =>
    \E i \in 1 .. env.gpu : IsSignal(i) /\ queue[i].value = sub.completed

IInv ==
  /\ Types /\ SlotOwned /\ LatchSettled
  /\ PcInv /\ PoolInv /\ JobInv /\ CommandsInv
  /\ OrderInv /\ DirectInv /\ FenceInv

-----------------------------------------------------------------------------
(* Largest values and lists of commands. *)

LEMMA LeastOfNaturals ==
  ASSUME NEW S \in SUBSET Nat, S # {}
  PROVE  \E x \in S : \A y \in S : x <= y
<1> DEFINE Less == {ss \in Nat \X Nat : ss[1] < ss[2]}
<1>1. IsWellFoundedOn(Less, Nat)
  BY NatLessThanWellFounded, Zenon DEF OpToRel
<1>2. PICK x \in S : \A y \in S : ~(<<y, x>> \in Less)
  BY <1>1, WFMin
<1>3. ASSUME NEW y \in S PROVE x <= y
  <2>1. <<y, x>> \in Nat \X Nat /\ ~(<<y, x>> \in Less)
    BY <1>2
  <2>2. ~(y < x)
    BY <2>1
  <2> QED BY <2>2
<1> QED BY <1>3

LEMMA LargestOfBounded ==
  ASSUME NEW S \in SUBSET Nat, S # {}, NEW n \in Nat, \A y \in S : y <= n
  PROVE  Max(S) \in S /\ \A y \in S : y <= Max(S)
<1> DEFINE Bounds == {b \in Nat : \A y \in S : y <= b}
<1>1. PICK b \in Bounds : \A c \in Bounds : b <= c
  <2>1. n \in Bounds /\ Bounds \in SUBSET Nat
    OBVIOUS
  <2> QED BY <2>1, LeastOfNaturals
<1>2. b \in Nat /\ \A y \in S : y <= b
  BY <1>1
<1>3. b \in S
  <2>1. SUFFICES ASSUME b \notin S PROVE FALSE
    OBVIOUS
  <2>2. \A y \in S : y < b
    BY <1>2, <2>1
  <2>3. b > 0
    <3>1. PICK y \in S : TRUE
      OBVIOUS
    <3> QED BY <1>2, <2>2, <3>1
  <2>4. b - 1 \in Bounds
    BY <1>2, <2>2, <2>3
  <2> QED BY <1>1, <1>2, <2>4
<1>4. \E x \in S : \A y \in S : x >= y
  BY <1>2, <1>3
<1>5. Max(S) \in S /\ \A y \in S : Max(S) >= y
  BY <1>4 DEF Max
<1> QED BY <1>5

LEMMA InToSet ==
  ASSUME NEW S, NEW s \in Seq(S), NEW x
  PROVE  x \in ToSet(s) <=> \E i \in 1 .. Len(s) : s[i] = x
BY DEF ToSet

LEMMA AllOfElements ==
  ASSUME NEW s \in Seq(Commands), NEW n
  PROVE  AllOf(s, n) <=> \A i \in 1 .. Len(s) : s[i].submission = n
BY InToSet DEF AllOf

LEMMA AllOfEmpty == ASSUME NEW n PROVE AllOf(<<>>, n)
<1>1. <<>> \in Seq(Commands)
  OBVIOUS
<1>2. \A i \in 1 .. Len(<<>>) : FALSE
  OBVIOUS
<1> QED BY <1>1, <1>2, AllOfElements

LEMMA AllOfConcat ==
  ASSUME NEW s \in Seq(Commands), NEW t \in Seq(Commands), NEW n, AllOf(s, n), AllOf(t, n)
  PROVE  AllOf(s \o t, n)
<1>1. s \o t \in Seq(Commands) /\ Len(s \o t) = Len(s) + Len(t)
  BY ConcatProperties
<1>2. ASSUME NEW i \in 1 .. Len(s \o t) PROVE (s \o t)[i].submission = n
  <2>1. CASE i <= Len(s)
    BY <1>1, <2>1, ConcatProperties, AllOfElements
  <2>2. CASE i > Len(s)
    BY <1>1, <2>2, ConcatProperties, AllOfElements
  <2> QED BY <1>1, <2>1, <2>2
<1> QED BY <1>1, <1>2, AllOfElements

LEMMA AllOfAppend ==
  ASSUME NEW s \in Seq(Commands), NEW c \in Commands, AllOf(s, c.submission)
  PROVE  AllOf(Append(s, c), c.submission)
<1>1. Append(s, c) \in Seq(Commands) /\ Len(Append(s, c)) = Len(s) + 1
  OBVIOUS
<1>2. ASSUME NEW i \in 1 .. Len(Append(s, c)) PROVE Append(s, c)[i].submission = c.submission
  BY <1>1, AllOfElements
<1> QED BY <1>1, <1>2, AllOfElements

(* What the queue's entries are, and what an append leaves of them. *)
LEMMA QueueTypes ==
  ASSUME Types
  PROVE  /\ Len(queue) \in Nat /\ sub.current \in Nat \ {0} /\ job.fence_value \in Nat
         /\ env.gpu \in Nat /\ env.gpu <= Len(queue) /\ sub.direct_last \in Nat
         /\ sub.completed \in Nat
         /\ \A i \in 1 .. Len(queue) :
              /\ queue[i].value \in Nat /\ queue[i].commands \in Seq(Commands)
              /\ queue[i].kind \in {"execute", "signal", "direct", "direct_signal"}
<1>1. \A i \in 1 .. Len(queue) : queue[i] \in Entries
  BY DEF Types
<1>2. sub.current \in Nat \ {0} /\ sub.direct_last \in Nat /\ sub.completed \in Nat
  BY DEF Types, SubStates
<1>3. job.fence_value \in Nat /\ env.gpu \in Nat /\ env.gpu <= Len(queue) /\ Len(queue) \in Nat
  BY DEF Types, Jobs, EnvStates
<1> QED BY <1>1, <1>2, <1>3 DEF Entries

(* GetCompletedValue: a value the GPU has signalled, or none. *)
LEMMA FenceValueSignalled ==
  ASSUME Types, NEW kind, NEW n \in Nat,
         \A i \in 1 .. Len(queue) : queue[i].kind = kind => queue[i].value <= n
  PROVE  /\ FenceValue(kind) \in Nat
         /\ FenceValue(kind) > 0 =>
              \E i \in 1 .. env.gpu : queue[i].kind = kind /\ queue[i].value = FenceValue(kind)
<1> DEFINE values == {e.value : e \in {x \in Consumed : x.kind = kind}}
           S == {0} \union values
<1>1. ASSUME NEW v \in values
      PROVE  \E i \in 1 .. env.gpu : queue[i].kind = kind /\ queue[i].value = v /\ v \in Nat /\ v <= n
  <2>1. PICK e \in Consumed : e.kind = kind /\ e.value = v
    BY <1>1
  <2>2. PICK i \in 1 .. env.gpu : queue[i] = e
    BY <2>1 DEF Consumed
  <2>3. i \in 1 .. Len(queue)
    BY QueueTypes
  <2> QED BY <2>1, <2>2, <2>3, QueueTypes
<1>2. S \in SUBSET Nat /\ S # {} /\ \A y \in S : y <= n
  BY <1>1
<1>3. Max(S) \in S
  <2> HIDE DEF S
  <2> QED BY <1>2, LargestOfBounded
<1>4. FenceValue(kind) = Max(S)
  BY DEF FenceValue
<1>5. CASE Max(S) \in values
  BY <1>1, <1>4, <1>5
<1>6. CASE Max(S) = 0
  BY <1>4, <1>6
<1> QED BY <1>3, <1>5, <1>6

-----------------------------------------------------------------------------
(* Steps that leave the queue and the commands alone. *)

(* The ring of closed frames has at least one place. *)
LEMMA RingSize == ASSUME env \in EnvStates PROVE QueueFrames \in Nat \ {0}
BY SubmissionAssumption DEF EnvStates, QueueFrames, Profile

LEMMA RingIndex ==
  ASSUME Types
  PROVE  frames.current % QueueFrames \in 0 .. QueueFrames - 1
<1>1. QueueFrames \in Nat \ {0}
  BY RingSize DEF Types
<1>2. frames.current \in Nat
  BY DEF Types, FrameStates
<1>3. \A n \in Nat, m \in Nat \ {0} : n % m \in 0 .. m - 1
  OBVIOUS
<1> QED BY <1>1, <1>2, <1>3

LEMMA InitEstablishes == Init => IInv
<1> SUFFICES ASSUME Init PROVE IInv
  OBVIOUS
<1>1. /\ state = "Idle" /\ session_active = FALSE /\ result = "S_OK" /\ job = EmptyJob
      /\ stream = <<>> /\ source = <<>> /\ wpc = "lock" /\ whr = "S_OK" /\ queue = <<>>
      /\ list = [allocator |-> NoAllocator, commands |-> <<>>, open |-> FALSE]
      /\ cp = IdleCp
      /\ sub = [open |-> FALSE, current |-> 1, completed |-> 0, chunk |-> NoAllocator,
                direct |-> FALSE, direct_last |-> 0]
  BY DEF Init, WorkerInit
<1>2. <<>> \in Seq(Commands)
  OBVIOUS
<1>3. <<>> \in Seq(Entries)
  OBVIOUS
<1>4. Len(queue) = 0
  BY <1>1
<1>5. cp \in CpStates /\ cp.pc = "idle"
  BY <1>1 DEF IdleCp, CpStates, CpPcs
<1>6. sub \in SubStates
  BY <1>1 DEF SubStates
<1>7. env \in EnvStates /\ env.gpu = 0
  <2>1. PICK p \in DOMAIN Profiles :
              env = [gpu |-> 0, removed |-> FALSE, draws |-> 0, profile |-> p]
    BY DEF Init
  <2> QED BY <2>1 DEF EnvStates
<1>8. job \in Jobs
  BY <1>1 DEF Jobs, EmptyJob, Operations, HResults
<1>9. list \in [allocator : Allocators \union {NoAllocator}, commands : Seq(Commands), open : BOOLEAN]
  BY <1>1, <1>2
<1>10. Types
  <2>1. /\ state \in {"Idle", "Queued", "Running", "Complete"} /\ session_active \in BOOLEAN
        /\ wpc \in {"lock", "waiting", "exited"} \union ExecutePCs
    BY <1>1
  <2>3. result \in HResults /\ whr \in HResults
    BY <1>1 DEF HResults
  <2>4. env.gpu <= Len(queue)
    BY <1>4, <1>7
  <2>2. stream \in Seq(Commands) /\ source \in Seq(Commands) /\ queue \in Seq(Entries)
    BY <1>1, <1>2, <1>3
  <2>5. frames \in FrameStates
    BY RingSize, <1>7 DEF Init, FrameStates
  <2>6. <<>> \in Seq(Allocators)
    OBVIOUS
  <2>7. <<>> \in Seq([allocator : Allocators, last : Nat])
    OBVIOUS
  <2>8. pools \in PoolStates
    BY <2>6, <2>7 DEF Init, PoolStates
  <2> QED BY <2>1, <2>2, <2>3, <2>4, <2>5, <2>8, <1>5, <1>6, <1>7, <1>8, <1>9 DEF Types
<1>11. SlotOwned /\ LatchSettled
  BY <1>1 DEF SlotOwned, LatchSettled, ExecutePCs, Failed
<1>12. PcInv
  BY <1>5 DEF PcInv, Flushed, Quiescing
<1>18. PoolInv
  BY <1>5 DEF PoolInv, HandedOver
<1>13. JobInv
  BY <1>1 DEF JobInv
<1>14. CommandsInv
  BY <1>1 DEF CommandsInv
<1>15. OrderInv
  BY <1>1, <1>4 DEF OrderInv
<1>16. DirectInv
  BY <1>4, <1>5 DEF DirectInv
<1>17. FenceInv
  BY <1>1 DEF FenceInv
<1> QED BY <1>10, <1>11, <1>12, <1>13, <1>14, <1>15, <1>16, <1>17, <1>18 DEF IInv

(* sub keeps what the order of submissions depends on. *)
SameSubmission ==
  /\ sub' \in SubStates
  /\ sub'.open = sub.open /\ sub'.current = sub.current /\ sub'.chunk = sub.chunk
  /\ sub'.direct = sub.direct /\ sub'.direct_last \in {sub.direct_last, sub.direct_last + 1}

(* Where the CP goes: nothing is handed over, and what was is forgotten    *)
(* only after a failure.                                                   *)
Advances ==
  /\ cp' \in CpStates /\ cp.pc # "notify" /\ cp'.pc # "fence_direct_wait"
  /\ HandedOver' => HandedOver
  /\ HandedOver /\ ~HandedOver' => Failed(result) /\ state' = "Idle"

Reaps == ReapCompleted \/ UNCHANGED <<state, session_active, job>>

LEMMA ReapsState ==
  ASSUME Types, Reaps
  PROVE  /\ state' \in {state, "Idle"} /\ (state = "Complete" \/ state' = state)
         /\ session_active' \in BOOLEAN /\ (session_active' => session_active)
         /\ (state' = state => session_active' = session_active)
         /\ job' \in Jobs /\ job'.operation = job.operation /\ job'.fence_value = job.fence_value
         /\ state' = "Idle" /\ session_active' /\ state = "Complete" =>
              job.operation \notin FinalOperations
<1> USE DEF Types
<1>1. CASE UNCHANGED <<state, session_active, job>>
  BY <1>1
<1>2. CASE ReapCompleted
  <2>1. ReapedJob \in Jobs /\ ReapedJob.operation = job.operation
        /\ ReapedJob.fence_value = job.fence_value
    BY DEF ReapedJob, Jobs
  <2>2. /\ ReapedSession \in BOOLEAN /\ ReapedSession => session_active
        /\ ~Reaping => ReapedSession = session_active
    BY DEF ReapedSession, ReapingFinal
  <2>3. /\ state' = IF state = "Complete" THEN "Idle" ELSE state
        /\ session_active' = ReapedSession /\ job' = ReapedJob
    BY <1>2 DEF ReapCompleted, ReapedState, Reaping
  <2>4. state = "Complete" /\ ReapedSession => job.operation \notin FinalOperations
    BY DEF ReapedSession, ReapingFinal, Reaping
  <2>5. session_active' \in BOOLEAN /\ (session_active' => session_active)
        /\ (state # "Complete" => session_active' = session_active)
    BY <1>2 DEF ReapCompleted, ReapedSession, ReapingFinal, Reaping
  <2>6. job' \in Jobs /\ job'.operation = job.operation /\ job'.fence_value = job.fence_value
    BY <2>1, <2>3
  <2>7. state = "Complete" /\ session_active' => job.operation \notin FinalOperations
    BY <2>3, <2>4
  <2> QED BY <2>3, <2>5, <2>6, <2>7
<1> QED BY <1>1, <1>2 DEF Reaps

LEMMA MoveKeeps ==
  ASSUME IInv, Reaps, UNCHANGED <<wpc, whr, result, stream, source, list, queue>>,
         env' \in EnvStates, env'.gpu = env.gpu, env'.profile = env.profile, SameSubmission,
         Advances, PcInv', PoolInv', FenceInv', frames' \in FrameStates, pools' \in PoolStates
  PROVE  IInv'
<1> USE DEF IInv
<1>1. /\ state' \in {state, "Idle"} /\ (state = "Complete" \/ state' = state)
      /\ session_active' \in BOOLEAN /\ (session_active' => session_active)
      /\ (state' = state => session_active' = session_active)
      /\ job' \in Jobs /\ job'.operation = job.operation /\ job'.fence_value = job.fence_value
      /\ state' = "Idle" /\ session_active' /\ state = "Complete" =>
           job.operation \notin FinalOperations
  BY ReapsState
<1>2. /\ sub' \in SubStates
      /\ sub'.open = sub.open /\ sub'.current = sub.current /\ sub'.chunk = sub.chunk
      /\ sub'.direct = sub.direct /\ sub'.direct_last \in {sub.direct_last, sub.direct_last + 1}
  BY DEF SameSubmission
<1>3. /\ cp' \in CpStates /\ cp.pc # "notify" /\ cp'.pc # "fence_direct_wait"
      /\ HandedOver' => HandedOver
      /\ HandedOver /\ ~HandedOver' => Failed(result) /\ state' = "Idle"
  BY DEF Advances
<1>4. Types'
  <2>1. FrameStates' = FrameStates
    BY DEF FrameStates, QueueFrames, Profile
  <2> QED BY <1>1, <1>2, <1>3, <2>1 DEF Types
<1>5. SlotOwned' /\ LatchSettled'
  BY <1>1 DEF SlotOwned, LatchSettled
<1>6. Broken' <=> Broken
  BY DEF Broken
<1>7. JobInv'
  BY <1>1, <1>2, <1>3 DEF JobInv, Types
<1>8. CommandsInv'
  BY <1>1, <1>2, <1>3, <1>6 DEF CommandsInv, ListIsStale, AllOf, SlotOwned, Types, ExecutePCs
<1>9. OrderInv'
  BY <1>1, <1>2, <1>3, <1>6 DEF OrderInv, IsSignal, AllOf, Broken
<1>10. DirectInv'
  BY <1>1, <1>2, <1>3, <1>6, QueueTypes DEF DirectInv, IsSignal, IsSpecial
<1> QED BY <1>4, <1>5, <1>7, <1>8, <1>9, <1>10

(* The positions of the CP that promise nothing. *)
Calm ==
  CpPcs \ (Flushed \union
           {"notify", "direct_flush", "chunk_ready", "chunk", "end_swap", "end_books",
            "proven", "destroy", "destroy_stop", "destroy_join", "torn_down"})

(* What a step of the CP alone leaves unchanged, except its position. *)
Beside ==
  /\ Reaps /\ UNCHANGED <<wpc, whr, result, stream, source, list, queue>>
  /\ env' \in EnvStates /\ env'.gpu = env.gpu /\ env'.profile = env.profile
  /\ SameSubmission /\ FenceInv' /\ frames' \in FrameStates /\ pools' \in PoolStates

LEMMA CalmKeeps ==
  ASSUME IInv, Beside, cp.pc \notin {"notify", "end_swap", "end_books"},
         cp' \in CpStates, cp'.pc \in Calm
  PROVE  IInv'
<1>1. ~HandedOver'
  BY DEF HandedOver, Calm
<1>2. Advances
  BY <1>1 DEF Advances, HandedOver, Calm, Flushed
<1>3. PcInv'
  BY DEF PcInv, Quiescing, Calm, Flushed
<1>4. PoolInv'
  BY <1>1 DEF PoolInv, Calm, Flushed
<1> QED BY <1>2, <1>3, <1>4, MoveKeeps DEF Beside

LEMMA GotoState ==
  ASSUME Types, NEW pc \in CpPcs, Goto(pc)
  PROVE  /\ cp' \in CpStates /\ cp'.pc = pc
         /\ pc # "idle" => cp'.next = cp.next
<1>1. CASE pc = "idle"
  BY <1>1 DEF Goto, IdleCp, CpStates
<1>2. CASE pc # "idle"
  <2>1. cp \in CpStates /\ cp' = [cp EXCEPT !.pc = pc]
    BY <1>2 DEF Goto, Types
  <2> QED BY <2>1 DEF CpStates
<1> QED BY <1>1, <1>2

LEMMA GotoCalm ==
  ASSUME IInv, Beside, cp.pc \notin {"notify", "end_swap", "end_books"}, NEW pc \in Calm, Goto(pc)
  PROVE  IInv'
<1>1. pc \in CpPcs
  BY DEF Calm
<1> QED BY <1>1, GotoState, CalmKeeps DEF IInv

LEMMA AwaitState ==
  ASSUME Types, NEW after \in {"idle", "resources", "shutdown", "clear", "copy", "boundary"},
         Await(after)
  PROVE  cp' \in CpStates /\ cp'.pc = "fence"
<1>1. cp \in CpStates /\ sub.current \in Nat
  BY DEF Types, SubStates
<1> QED BY <1>1, ZenonT(60) DEF Await, CpStates, CpPcs

LEMMA AwaitKeeps ==
  ASSUME IInv, Beside, cp.pc \notin {"notify", "end_swap", "end_books"},
         NEW after \in {"idle", "resources", "shutdown", "clear", "copy", "boundary"}, Await(after)
  PROVE  IInv'
BY AwaitState, CalmKeeps DEF IInv, Calm, CpPcs, Flushed

LEMMA RetIsCalm == ASSUME Types PROVE cp.ret \in Calm /\ cp.ret \in {"idle", "begin", "await"}
BY DEF Types, CpStates, Calm, CpPcs, Flushed

LEMMA ReturnKeeps ==
  ASSUME IInv, Beside, cp.pc \notin {"notify", "end_swap", "end_books"}, NEW ok \in BOOLEAN,
         ReturnFromEnd(ok)
  PROVE  IInv'
<1> DEFINE to == IF cp.end_ret # "fence" THEN "idle" ELSE IF ok THEN "fence_direct" ELSE cp.ret
<1>1. to \in Calm
  BY RetIsCalm DEF IInv, Calm, CpPcs, Flushed
<1>2. Goto(to)
  BY DEF ReturnFromEnd
<1> QED BY <1>1, <1>2, GotoCalm

(* Nothing but the CP's position, its flags and its pools. *)
LEMMA UnchangedBeside ==
  ASSUME IInv, UNCHANGED <<workerVars, sub, env>>, frames' = frames,
         pools' = pools \/ pools' \in PoolStates
  PROVE  Beside
<1> USE DEF IInv, Types, workerVars
<1>1. Reaps
  BY DEF Reaps
<1>2. SameSubmission
  BY DEF SameSubmission
<1>3. FenceInv'
  BY DEF FenceInv, IsSignal
<1> QED BY <1>1, <1>2, <1>3 DEF Beside

(* FlushNativeReplay: the CP returns with an idle worker, or blocks. *)
LEMMA FlushReturns ==
  ASSUME IInv, WaitReturn, UNCHANGED <<sub, frames, pools, env>>
  PROVE  Beside /\ state' = "Idle" /\ wpc \notin ExecutePCs
<1> USE DEF IInv, Types
<1>1. Reaps /\ UNCHANGED <<wpc, whr, result, stream, source, list, queue>>
  BY DEF Reaps, WaitReturn
<1>2. state \in {"Idle", "Complete"} /\ state' = "Idle"
  BY DEF WaitReturn, WaitDone, ReapCompleted, ReapedState, Reaping
<1>3. SameSubmission
  BY DEF SameSubmission
<1>4. FenceInv'
  BY <1>1 DEF FenceInv, IsSignal
<1> QED BY <1>1, <1>2, <1>3, <1>4 DEF Beside, SlotOwned

LEMMA WaitBlocks ==
  ASSUME IInv, WaitBlock, UNCHANGED <<cp, sub, frames, pools, worker, env>>,
         cp.pc \notin {"notify", "fence_direct_wait"}
  PROVE  IInv'
<1> USE DEF IInv
<1>1. UNCHANGED <<state, session_active, job, wpc, whr, result, stream, source, list, queue>>
  BY DEF WaitBlock
<1>2. Beside
  BY <1>1 DEF Beside, Reaps, SameSubmission, FenceInv, IsSignal, Types
<1>3. HandedOver' <=> HandedOver
  BY DEF HandedOver
<1>4. Advances
  BY <1>3 DEF Advances, Types
<1>5. PcInv'
  BY <1>1 DEF PcInv, Quiescing
<1>6. PoolInv'
  BY <1>3 DEF PoolInv
<1> QED BY <1>2, <1>4, <1>5, <1>6, MoveKeeps DEF Beside

(* The same, for a position that promises something. *)
LEMMA PromiseKeeps ==
  ASSUME IInv, Beside, cp.pc \notin {"notify", "end_swap", "end_books"}, cp' \in CpStates,
         cp'.pc \notin {"notify", "end_swap", "end_books", "end_replay", "fence_direct_wait"}, PcInv'
  PROVE  IInv'
<1>1. Advances /\ PoolInv'
  BY DEF Advances, PoolInv, HandedOver
<1> QED BY <1>1, MoveKeeps DEF Beside

-----------------------------------------------------------------------------
(* The CP's calls. *)

LEMMA CpCallKeeps ==
  ASSUME IInv, CpCall
  PROVE  IInv'
<1>1. Types /\ cp \in CpStates /\ sub \in SubStates /\ "idle" \in Calm
  BY DEF IInv, Types, Calm, CpPcs, Flushed
<1>2. ASSUME NEW guest \in BOOLEAN, NEW copy \in BOOLEAN, CallBeginSubmission(guest, copy)
      PROVE  IInv'
  <2>1. Beside /\ cp.pc = "idle"
    BY <1>2, UnchangedBeside DEF CallBeginSubmission, At
  <2> DEFINE await == IF guest /\ ~frames.open THEN frames.closed[frames.current % QueueFrames]
                      ELSE 0
  <2>3. await \in Nat
    BY <1>1, RingIndex DEF Types, FrameStates
  <2> HIDE DEF await
  <2>2. cp' \in CpStates /\ cp'.pc \in {"idle", "record", "fence"}
    <3>1. CASE UNCHANGED cp
      BY <1>1, <2>1, <3>1
    <3> DEFINE To(pc, n) == cp' = [cp EXCEPT !.pc = pc, !.guest = guest, !.copy = copy,
                                  !.ret = "begin", !.await = n]
    <3>2. CASE To("record", 0)
      BY <1>1, <3>2, ZenonT(60) DEF CpStates, CpPcs
    <3>3. CASE To("fence", await)
      BY <1>1, <2>3, <3>3, ZenonT(60) DEF CpStates, CpPcs
    <3> QED BY <1>2, <3>1, <3>2, <3>3 DEF CallBeginSubmission, await
  <2> QED BY <2>1, <2>2, CalmKeeps DEF Calm, CpPcs, Flushed
<1>3. ASSUME NEW swap \in BOOLEAN, CallEndSubmission(swap)
      PROVE  IInv'
  <2>1. Beside /\ cp.pc = "idle"
    BY <1>3, UnchangedBeside DEF CallEndSubmission, At
  <2>2. cp' \in CpStates /\ cp'.pc = "end"
    BY <1>1, <1>3 DEF CallEndSubmission, CpStates, CpPcs
  <2> QED BY <2>1, <2>2, CalmKeeps DEF Calm, CpPcs, Flushed
<1>4. ASSUME NEW after \in {"idle", "resources"}, CallAwait(after)
      PROVE  IInv'
  <2>1. Beside /\ cp.pc = "idle" /\ Await(after)
    BY <1>4, UnchangedBeside DEF CallAwait, At
  <2> QED BY <2>1, AwaitKeeps
<1>5. CASE RequestCacheClear \/ EnableReadback
  <2>1. Beside /\ cp.pc = "idle" /\ cp' = cp
    BY <1>5, UnchangedBeside DEF RequestCacheClear, EnableReadback, At
  <2> QED BY <1>1, <2>1, CalmKeeps
<1> QED BY <1>2, <1>3, <1>4, <1>5 DEF CpCall

-----------------------------------------------------------------------------
(* The steps of the CP that neither flush nor hand anything over. *)

LEMMA CalmSteps ==
  ASSUME IInv, BeginReadback \/ ChunkResult \/ FenceEnter \/ FenceNoDirect
  PROVE  IInv'
<1>1. Types /\ cp \in CpStates /\ sub \in SubStates
  BY DEF IInv, Types
<1>2. CASE BeginReadback
  <2>1. Beside /\ cp.pc = "record" /\ (Await("copy") \/ Goto("copy"))
    BY <1>2, UnchangedBeside DEF BeginReadback, At
  <2>2. "copy" \in Calm
    BY DEF Calm, CpPcs, Flushed
  <2> QED BY <2>1, <2>2, AwaitKeeps, GotoCalm
<1>3. CASE ChunkResult
  <2>1. Beside /\ cp.pc = "chunk_result" /\ Goto("idle")
    BY <1>3, UnchangedBeside DEF ChunkResult, At
  <2>2. "idle" \in Calm
    BY DEF Calm, CpPcs, Flushed
  <2> QED BY <2>1, <2>2, GotoCalm
<1>4. CASE FenceEnter
  <2>1. Beside /\ cp.pc = "fence"
    BY <1>4, UnchangedBeside DEF FenceEnter, At
  <2>2. cp' \in CpStates /\ cp'.pc \in {cp.ret, "fence_check", "end", "fence_direct"}
    <3>1. cp' \in {[cp EXCEPT !.pc = cp.ret], [cp EXCEPT !.pc = "fence_check"],
                   [cp EXCEPT !.pc = "end", !.end_ret = "fence", !.swap = FALSE],
                   [cp EXCEPT !.pc = "fence_direct"]}
      BY <1>4 DEF FenceEnter
    <3>2. ASSUME NEW pc \in CpPcs, cp' = [cp EXCEPT !.pc = pc]
          PROVE  cp' \in CpStates /\ cp'.pc = pc
      BY <1>1, <3>2 DEF CpStates
    <3>3. ASSUME cp' = [cp EXCEPT !.pc = "end", !.end_ret = "fence", !.swap = FALSE]
          PROVE  cp' \in CpStates /\ cp'.pc = "end"
      BY <1>1, <3>3 DEF CpStates, CpPcs
    <3>4. {cp.ret, "fence_check", "fence_direct"} \subseteq CpPcs
      BY <1>1, RetIsCalm DEF CpPcs
    <3> QED BY <3>1, <3>2, <3>3, <3>4
  <2> QED BY <1>1, <2>1, <2>2, RetIsCalm, CalmKeeps DEF Calm, CpPcs, Flushed
<1>5. CASE FenceNoDirect
  <2>1. Beside /\ cp.pc = "fence_direct"
    BY <1>5, UnchangedBeside DEF FenceNoDirect, At
  <2>2. cp' \in CpStates /\ cp'.pc = "fence_check"
    <3>1. sub.current - 1 \in Nat
      BY <1>1 DEF SubStates
    <3> QED BY <1>1, <1>5, <3>1 DEF FenceNoDirect, AwaitLastSubmission, CpStates, CpPcs
  <2> QED BY <2>1, <2>2, CalmKeeps DEF Calm, CpPcs, Flushed
<1> QED BY <1>2, <1>3, <1>4, <1>5

LEMMA EndCloseKeeps == ASSUME IInv, EndClose PROVE IInv'
<1>1. Types /\ UNCHANGED <<workerVars, sub, pools, env>> /\ cp.pc = "end_close"
  BY DEF IInv, EndClose, At
<1>2. frames' \in FrameStates
  <2>1. CASE frames' = frames
    BY <1>1, <2>1 DEF Types
  <2>2. CASE frames' # frames
    <3> DEFINE place == frames.current % QueueFrames
               last == sub.current - 1
               next == frames.current + 1
    <3>1. /\ place \in 0 .. QueueFrames - 1 /\ last \in Nat /\ next \in Nat \ {0}
          /\ frames \in FrameStates
      BY <1>1, RingIndex, SMTT(30) DEF Types, SubStates, FrameStates
    <3>2. frames' = [frames EXCEPT !.open = FALSE, !.current = next, !.closed[place] = last]
      BY <2>2, <3>1 DEF EndClose
    <3> HIDE DEF place, last, next
    <3> QED BY <3>1, <3>2 DEF FrameStates
  <2> QED BY <2>1, <2>2
<1>3. Beside
  <2>1. UNCHANGED <<state, session_active, job, wpc, whr, result, stream, source, list, queue,
                    sub, env>>
    BY <1>1 DEF workerVars
  <2> QED BY <1>1, <1>2, <2>1 DEF Beside, Reaps, SameSubmission, FenceInv, IsSignal, IInv, Types
<1>4. Await("clear") \/ ReturnFromEnd(TRUE)
  BY DEF EndClose
<1> QED BY <1>1, <1>3, <1>4, AwaitKeeps, ReturnKeeps

LEMMA BoundaryKeeps == ASSUME IInv, ReplayNativeDrawBoundary PROVE IInv'
<1>1. Types /\ Beside /\ cp.pc = "boundary" /\ sub' = sub
  BY UnchangedBeside DEF ReplayNativeDrawBoundary, At, IInv
<1>2. CASE Goto("idle")
  BY <1>1, <1>2, GotoCalm DEF Calm, CpPcs, Flushed
<1>3. CASE Goto("chunk_ready") /\ sub.open
  <2>1. cp' \in CpStates /\ cp'.pc = "chunk_ready"
    BY <1>1, <1>3, GotoState DEF CpPcs
  <2>2. PcInv'
    BY <1>1, <1>3, <2>1 DEF PcInv, Flushed, Quiescing
  <2> QED BY <1>1, <2>1, <2>2, PromiseKeeps
<1> QED BY <1>2, <1>3 DEF ReplayNativeDrawBoundary

LEMMA CallDirectKeeps == ASSUME IInv, CallDirect PROVE IInv'
<1>1. Types /\ Beside /\ cp.pc \in {"record", "copy"} /\ cp \in CpStates
  BY UnchangedBeside DEF CallDirect, At, IInv, Types
<1>2. cp' = [cp EXCEPT !.pc = "direct_flush", !.next = cp.pc]
  BY DEF CallDirect
<1>3. cp' \in CpStates /\ cp'.pc = "direct_flush" /\ cp'.next = cp.pc
  BY <1>1, <1>2 DEF CpStates, CpPcs
<1>4. PcInv'
  BY <1>1, <1>3 DEF PcInv, Flushed, Quiescing
<1> QED BY <1>1, <1>3, <1>4, PromiseKeeps

LEMMA AfterNoProofKeeps == ASSUME IInv, AfterNoProof PROVE IInv'
<1>1. Types /\ Beside /\ cp.pc = "unproven" /\ worker' = worker
  BY UnchangedBeside DEF AfterNoProof, At, IInv
<1>2. CASE Await("shutdown")
  BY <1>1, <1>2, AwaitKeeps
<1>3. ASSUME NEW pc \in {"terminate", "boundary", "idle"}, Goto(pc) PROVE IInv'
  BY <1>1, <1>3, GotoCalm DEF Calm, CpPcs, Flushed
<1>4. CASE Goto("torn_down") /\ worker # "ready"
  <2>1. cp' \in CpStates /\ cp'.pc = "torn_down"
    BY <1>1, <1>4, GotoState DEF CpPcs
  <2>2. PcInv'
    BY <1>1, <1>4, <2>1 DEF PcInv, Flushed, Quiescing
  <2> QED BY <1>1, <2>1, <2>2, PromiseKeeps
<1> QED BY <1>2, <1>3, <1>4 DEF AfterNoProof

LEMMA AfterProofKeeps == ASSUME IInv, AfterProof PROVE IInv'
<1>7. <<>> \in Seq(Allocators)
  OBVIOUS
<1>8. <<>> \in Seq([allocator : Allocators, last : Nat])
  OBVIOUS
<1>9. pools' = pools \/ pools' \in PoolStates
  <2>1. [writable |-> <<>>, submitted |-> <<>>] \in PoolStates
    BY <1>7, <1>8 DEF PoolStates
  <2> QED BY <2>1 DEF AfterProof
<1>1. /\ Types /\ Beside /\ cp.pc = "proven" /\ worker' = worker /\ cp \in CpStates
      /\ UNCHANGED <<state, wpc, result, session_active, queue, sub, env>>
  BY <1>9, UnchangedBeside DEF AfterProof, At, IInv, Types, workerVars
<1>2. CASE Await("shutdown")
  BY <1>1, <1>2, AwaitKeeps
<1>3. ASSUME NEW pc \in {"idle", "copy", "boundary"}, Goto(pc) PROVE IInv'
  BY <1>1, <1>3, GotoCalm DEF Calm, CpPcs, Flushed
<1>4. CASE Goto("torn_down") /\ worker # "ready"
  <2>1. cp' \in CpStates /\ cp'.pc = "torn_down"
    BY <1>1, <1>4, GotoState DEF CpPcs
  <2>2. PcInv'
    BY <1>1, <1>4, <2>1 DEF PcInv, Flushed, Quiescing
  <2> QED BY <1>1, <2>1, <2>2, PromiseKeeps
<1>5. CASE Goto("destroy")
  <2>1. cp' \in CpStates /\ cp'.pc = "destroy"
    BY <1>1, <1>5, GotoState DEF CpPcs
  <2>2. PcInv'
    BY <1>1, <2>1 DEF IInv, PcInv, Flushed, Quiescing
  <2> QED BY <1>1, <2>1, <2>2, PromiseKeeps
<1>6. cp.after \in {"idle", "resources", "shutdown", "clear", "copy", "boundary"}
  BY <1>1 DEF CpStates
<1> QED BY <1>2, <1>3, <1>4, <1>5, <1>6 DEF AfterProof

LEMMA DestroyJoinKeeps == ASSUME IInv, DestroyJoin PROVE IInv'
<1>1. /\ Types /\ Beside /\ cp.pc = "destroy_join" /\ worker' = worker
      /\ UNCHANGED <<state, wpc, result, session_active, queue, sub, env>>
  BY UnchangedBeside DEF DestroyJoin, At, IInv, workerVars
<1>2. cp' \in CpStates /\ cp'.pc = "torn_down"
  BY <1>1, GotoState DEF CpPcs, DestroyJoin
<1>3. PcInv'
  BY <1>1, <1>2 DEF IInv, PcInv, Flushed, Quiescing
<1> QED BY <1>1, <1>2, <1>3, PromiseKeeps

-----------------------------------------------------------------------------
(* CheckSubmissionFence reads the fence. *)

LEMMA SubmissionFenceState ==
  ASSUME IInv
  PROVE  /\ SubmissionFence \in Nat
         /\ SubmissionFence > 0 =>
              \E i \in 1 .. env.gpu : IsSignal(i) /\ queue[i].value = SubmissionFence
<1>1. \A i \in 1 .. Len(queue) : queue[i].kind = "signal" => queue[i].value <= sub.current
  BY QueueTypes DEF IInv, OrderInv, IsSignal
<1> QED BY <1>1, QueueTypes, FenceValueSignalled DEF IInv, SubmissionFence, IsSignal

LEMMA FenceReadBeside ==
  ASSUME IInv, UNCHANGED <<workerVars, frames, env>>, pools' \in PoolStates,
         sub' \in {sub, [sub EXCEPT !.completed = SubmissionFence]}
  PROVE  Beside
<1>1. sub \in SubStates /\ SubmissionFence \in Nat
  BY SubmissionFenceState DEF IInv, Types
<1>2. SameSubmission /\ sub'.completed \in {sub.completed, SubmissionFence}
  BY <1>1 DEF SameSubmission, SubStates
<1>3. UNCHANGED <<state, session_active, job, wpc, whr, result, stream, source, list, queue>>
  BY DEF workerVars
<1>4. FenceInv'
  BY <1>2, <1>3, SubmissionFenceState DEF FenceInv, IsSignal, IInv
<1> QED BY <1>2, <1>3, <1>4 DEF Beside, Reaps, IInv, Types

(* The allocators taken back are the first of those submitted. *)
LEMMA RetiredState ==
  ASSUME Types, NEW completed \in Nat
  PROVE  Retired(completed) \in 0 .. Len(pools.submitted)
<1> DEFINE S == {n \in 0 .. Len(pools.submitted) :
                   \A i \in 1 .. n : pools.submitted[i].last <= completed}
<1>1. Len(pools.submitted) \in Nat
  BY DEF Types, PoolStates
<1>2. 0 \in S /\ S \in SUBSET Nat /\ \A y \in S : y <= Len(pools.submitted)
  BY <1>1
<1>3. Max(S) \in S
  <2> HIDE DEF S
  <2> QED BY <1>1, <1>2, LargestOfBounded
<1>4. Retired(completed) = Max(S)
  BY DEF Retired
<1> QED BY <1>3, <1>4

LEMMA ReclaimState ==
  ASSUME Types, NEW completed \in Nat, NEW before, Reclaim(completed, before)
  PROVE  pools' \in PoolStates
<1> DEFINE n == IF completed <= before THEN 0 ELSE Retired(completed)
           back == [i \in 1 .. n |-> pools.submitted[i].allocator]
           left == SubSeq(pools.submitted, n + 1, Len(pools.submitted))
<1>1. /\ pools.writable \in Seq(Allocators)
      /\ pools.submitted \in Seq([allocator : Allocators, last : Nat])
      /\ Len(pools.submitted) \in Nat
  BY DEF Types, PoolStates
<1>2. n \in 0 .. Len(pools.submitted) /\ n \in Nat
  <2>1. Retired(completed) \in 0 .. Len(pools.submitted)
    BY RetiredState
  <2>2. n \in {0, Retired(completed)}
    OBVIOUS
  <2> HIDE DEF n
  <2> QED BY <1>1, <2>1, <2>2
<1> HIDE DEF n
<1>3. back \in Seq(Allocators)
  <2>1. \A i \in 1 .. n : i \in 1 .. Len(pools.submitted)
    BY <1>1, <1>2
  <2>2. ASSUME NEW i \in 1 .. n PROVE pools.submitted[i].allocator \in Allocators
    <3>1. pools.submitted[i] \in [allocator : Allocators, last : Nat]
      BY <1>1, <2>1, ElementOfSeq
    <3> QED BY <3>1
  <2>3. back \in [1 .. n -> Allocators]
    BY <2>2
  <2> HIDE DEF back
  <2> QED BY <1>2, <2>3
<1>4. left \in Seq([allocator : Allocators, last : Nat])
  <2> DEFINE given == pools.submitted
             entries == [allocator : Allocators, last : Nat]
             len == Len(given)
  <2>1. given \in Seq(entries) /\ n \in 0 .. len /\ len \in Nat
    BY <1>1, <1>2
  <2> HIDE DEF entries, given
  <2>2. \A i \in n + 1 .. len : given[i] \in entries
    BY <2>1
  <2> HIDE DEF len
  <2>3. n + 1 \in Int /\ len \in Int
    BY <2>1
  <2>4. SubSeq(given, n + 1, len) \in Seq(entries)
    BY <2>2, <2>3, SubSeqProperties
  <2> QED BY <2>4 DEF entries, given, len
<1>5. pools' = [writable |-> pools.writable \o back, submitted |-> left]
  BY DEF Reclaim, n
<1> HIDE DEF back, left
<1>6. pools.writable \o back \in Seq(Allocators)
  BY <1>1, <1>3, ConcatProperties
<1> QED BY <1>4, <1>5, <1>6 DEF PoolStates

LEMMA FenceReadKeeps ==
  ASSUME IInv, FenceCheck \/ FenceWait \/ FenceWaitFails
  PROVE  IInv'
<1>1. Types /\ cp.pc \in {"fence_check", "fence_wait"} /\ cp \in CpStates /\ sub \in SubStates
  BY DEF IInv, Types, FenceCheck, FenceWait, FenceWaitFails, At
<1>5. sub' \in {sub, [sub EXCEPT !.completed = SubmissionFence]} /\ sub'.completed \in Nat
  BY <1>1, SubmissionFenceState DEF FenceCheck, FenceWait, FenceWaitFails, FenceLost, SubStates
<1>6. pools' \in PoolStates
  <2>1. CASE pools' = pools
    BY <1>1, <2>1 DEF Types
  <2>2. ASSUME NEW before, Reclaim(sub'.completed, before) PROVE pools' \in PoolStates
    BY <1>1, <1>5, <2>2, ReclaimState
  <2> QED BY <2>1, <2>2 DEF FenceCheck, FenceWait, FenceWaitFails, FenceLost
<1>2. Beside
  BY <1>5, <1>6, FenceReadBeside DEF FenceCheck, FenceWait, FenceWaitFails, FenceLost
<1>3. CASE Goto(cp.ret)
  BY <1>1, <1>2, <1>3, RetIsCalm, GotoCalm
<1>4. CASE cp' = [cp EXCEPT !.pc = "fence_flush", !.before = sub.completed]
  <2>1. cp' \in CpStates /\ cp'.pc = "fence_flush"
    BY <1>1, <1>4 DEF CpStates, CpPcs, SubStates
  <2> QED BY <1>1, <1>2, <2>1, CalmKeeps DEF Calm, CpPcs, Flushed
<1> QED BY <1>3, <1>4 DEF FenceCheck, FenceWait, FenceWaitFails, FenceLost

-----------------------------------------------------------------------------
(* The steps that flush. *)

(* FlushNativeReplay at pc, but for where the CP goes when it returns. *)
Flushes(pc) ==
  /\ cp.pc = pc /\ UNCHANGED <<sub, frames, pools, worker, env>>
  /\ WaitReturn \/ (WaitBlock /\ cp' = cp)

LEMMA FlushFacts ==
  ASSUME IInv, NEW pc, Flushes(pc), pc \notin {"notify", "fence_direct_wait"}, ~IInv'
  PROVE  /\ Types /\ Beside /\ cp.pc = pc /\ state' = "Idle" /\ wpc' \notin ExecutePCs
         /\ UNCHANGED <<sub, worker, env, wpc, result, queue>> /\ WaitReturn
<1>1. WaitReturn
  BY WaitBlocks DEF Flushes
<1> QED BY <1>1, FlushReturns DEF Flushes, Beside, IInv

LEMMA CalmFlushes ==
  ASSUME IInv, MemexportReadback \/ FenceFlush \/ Terminate
  PROVE  IInv'
<1> SUFFICES ASSUME ~IInv' PROVE FALSE
  OBVIOUS
<1>1. CASE MemexportReadback
  <2>1. Flushes("export") /\ (WaitReturn => Await("boundary") \/ Goto("boundary"))
    BY <1>1, Zenon DEF MemexportReadback, FlushNativeReplay, Flushes, At, WaitReturn, WaitBlock
  <2> QED BY <2>1, FlushFacts, AwaitKeeps, GotoCalm DEF Calm, CpPcs, Flushed
<1>2. CASE FenceFlush
  <2>1. Flushes("fence_flush") /\ (WaitReturn => Goto("fence_wait") \/ Goto(cp.ret))
    BY <1>2, Zenon DEF FenceFlush, FlushNativeReplay, Flushes, At, WaitReturn, WaitBlock
  <2> QED BY <2>1, FlushFacts, RetIsCalm, GotoCalm DEF Calm, CpPcs, Flushed
<1>3. CASE Terminate
  <2>1. Flushes("terminate") /\ (WaitReturn => Goto("exited"))
    BY <1>3, Zenon DEF Terminate, FlushNativeReplay, Flushes, At, WaitReturn, WaitBlock
  <2> QED BY <2>1, FlushFacts, GotoCalm DEF Calm, CpPcs, Flushed
<1> QED BY <1>1, <1>2, <1>3

LEMMA DirectFlushKeeps == ASSUME IInv, DirectFlush PROVE IInv'
<1> SUFFICES ASSUME ~IInv' PROVE FALSE
  OBVIOUS
<1>1. /\ Flushes("direct_flush")
      /\ WaitReturn => IF Failed(result) THEN Goto("idle") ELSE Goto("direct")
  BY DEF DirectFlush, FlushNativeReplay, Flushes, At, WaitReturn, WaitBlock, WaitDone
<1>2. /\ Types /\ Beside /\ cp.pc = "direct_flush" /\ state' = "Idle" /\ wpc' \notin ExecutePCs
      /\ UNCHANGED <<sub, result>> /\ WaitReturn
  BY <1>1, FlushFacts
<1>3. CASE Goto("idle")
  BY <1>2, <1>3, GotoCalm DEF Calm, CpPcs, Flushed
<1>4. CASE Goto("direct") /\ ~Failed(result)
  <2>1. cp' \in CpStates /\ cp'.pc = "direct" /\ cp'.next = cp.next
    BY <1>2, <1>4, GotoState DEF CpPcs
  <2>2. PcInv'
    BY <1>2, <1>4, <2>1 DEF IInv, PcInv, Flushed, Quiescing
  <2> QED BY <1>2, <2>1, <2>2, PromiseKeeps
<1> QED BY <1>1, <1>2, <1>3, <1>4

LEMMA EndFlushKeeps == ASSUME IInv, EndFlush PROVE IInv'
<1> SUFFICES ASSUME ~IInv' PROVE FALSE
  OBVIOUS
<1>1. /\ Flushes("end")
      /\ WaitReturn => \/ ReturnFromEnd(FALSE)
                       \/ ~Failed(result) /\ sub.open /\ Goto("end_submit")
                       \/ Goto("end_close")
  BY DEF EndFlush, FlushNativeReplay, Flushes, At, WaitReturn, WaitBlock, WaitDone
<1>2. /\ Types /\ Beside /\ cp.pc = "end" /\ state' = "Idle" /\ wpc' \notin ExecutePCs
      /\ UNCHANGED <<sub, result>> /\ WaitReturn
  BY <1>1, FlushFacts
<1>3. CASE ReturnFromEnd(FALSE)
  BY <1>2, <1>3, ReturnKeeps
<1>4. CASE Goto("end_close")
  BY <1>2, <1>4, GotoCalm DEF Calm, CpPcs, Flushed
<1>5. CASE ~Failed(result) /\ sub.open /\ Goto("end_submit")
  <2>1. cp' \in CpStates /\ cp'.pc = "end_submit"
    BY <1>2, <1>5, GotoState DEF CpPcs
  <2>2. PcInv'
    BY <1>2, <1>5, <2>1 DEF PcInv, Flushed, Quiescing
  <2> QED BY <1>2, <2>1, <2>2, PromiseKeeps
<1> QED BY <1>1, <1>2, <1>3, <1>4, <1>5

LEMMA FenceDirectFlushKeeps == ASSUME IInv, FenceDirectFlush PROVE IInv'
<1> SUFFICES ASSUME ~IInv' PROVE FALSE
  OBVIOUS
<1>1. /\ Flushes("fence_direct") /\ sub.direct
      /\ WaitReturn => IF Failed(result) THEN Goto(cp.ret) ELSE Goto("fence_direct_signal")
  BY DEF FenceDirectFlush, FlushNativeReplay, Flushes, At, WaitReturn, WaitBlock, WaitDone
<1>2. /\ Types /\ Beside /\ cp.pc = "fence_direct" /\ state' = "Idle" /\ wpc' \notin ExecutePCs
      /\ UNCHANGED <<sub, result>> /\ WaitReturn
  BY <1>1, FlushFacts
<1>3. CASE Goto(cp.ret)
  BY <1>2, <1>3, RetIsCalm, GotoCalm
<1>4. CASE Goto("fence_direct_signal") /\ ~Failed(result)
  <2>1. cp' \in CpStates /\ cp'.pc = "fence_direct_signal"
    BY <1>2, <1>4, GotoState DEF CpPcs
  <2>2. PcInv'
    BY <1>1, <1>2, <1>4, <2>1 DEF PcInv, Flushed, Quiescing
  <2> QED BY <1>2, <2>1, <2>2, PromiseKeeps
<1> QED BY <1>1, <1>2, <1>3, <1>4

LEMMA DestroyWaitKeeps == ASSUME IInv, DestroyWait PROVE IInv'
<1> SUFFICES ASSUME ~IInv' PROVE FALSE
  OBVIOUS
<1>1. Flushes("destroy") /\ (WaitReturn => Goto("destroy_stop"))
  BY Zenon DEF DestroyWait, FlushNativeReplay, Flushes, At, WaitReturn, WaitBlock
<1>2. /\ Types /\ Beside /\ cp.pc = "destroy" /\ state' = "Idle" /\ wpc' \notin ExecutePCs
      /\ UNCHANGED <<sub, env, worker, queue>> /\ WaitReturn
  BY <1>1, FlushFacts
<1>3. cp' \in CpStates /\ cp'.pc = "destroy_stop"
  BY <1>1, <1>2, GotoState DEF CpPcs
<1>4. session_active' \in BOOLEAN /\ (session_active' => session_active)
  BY <1>2, ReapsState DEF Beside
<1>5. PcInv'
  BY <1>2, <1>3, <1>4 DEF IInv, PcInv, Flushed, Quiescing
<1> QED BY <1>2, <1>3, <1>5, PromiseKeeps

LEMMA EndSwapFlushKeeps == ASSUME IInv, EndSwapFlush PROVE IInv'
<1> SUFFICES ASSUME ~IInv' PROVE FALSE
  OBVIOUS
<1>1. /\ Flushes("end_swap")
      /\ WaitReturn => IF Failed(result) THEN ReturnFromEnd(FALSE) ELSE Goto("end_books")
  BY DEF EndSwapFlush, FlushNativeReplay, Flushes, At, WaitReturn, WaitBlock, WaitDone
<1>2. /\ Types /\ Beside /\ cp.pc = "end_swap" /\ state' = "Idle" /\ wpc' \notin ExecutePCs
      /\ WaitReturn /\ HandedOver /\ pools' = pools /\ sub' = sub
  BY <1>1, FlushFacts DEF HandedOver, Flushes
<1>3. CASE Goto("end_books")
  <2>1. cp' \in CpStates /\ cp'.pc = "end_books"
    BY <1>2, <1>3, GotoState DEF CpPcs
  <2>2. PcInv' /\ HandedOver' /\ PoolInv'
    BY <1>2, <2>1 DEF PcInv, Flushed, Quiescing, HandedOver, PoolInv, IInv
  <2>3. Advances
    BY <1>2, <2>1, <2>2 DEF Advances
  <2> QED BY <1>2, <2>2, <2>3, MoveKeeps DEF Beside
<1>4. CASE ReturnFromEnd(FALSE) /\ Failed(result)
  <2>1. PICK pc \in {"idle", "fence_direct", "begin", "await"} : Goto(pc)
    BY <1>2, <1>4, RetIsCalm DEF ReturnFromEnd
  <2>2. cp' \in CpStates /\ cp'.pc = pc
    BY <1>2, <2>1, GotoState DEF CpPcs
  <2>3. PcInv' /\ ~HandedOver' /\ PoolInv'
    BY <2>2 DEF PcInv, Flushed, Quiescing, HandedOver, PoolInv
  <2>4. Advances
    BY <1>2, <1>4, <2>2, <2>3 DEF Advances
  <2> QED BY <1>2, <2>3, <2>4, MoveKeeps DEF Beside
<1> QED BY <1>1, <1>2, <1>3, <1>4

(* AwaitAllQueueOperationsCompletion: the last value the CP handed over is *)
(* signalled, so the GPU is behind nothing.                                *)
LEMMA ProvenIsIdle ==
  ASSUME IInv, Proven, ~HandedOver, ~Failed(result), wpc \notin ExecutePCs
  PROVE  env.gpu = Len(queue)
<1> DEFINE n == Len(queue)
<1>1. /\ n \in Nat /\ sub.current \in Nat \ {0} /\ sub.completed \in Nat /\ env.gpu \in Nat
      /\ env.gpu <= n
      /\ \A i \in 1 .. n : queue[i].value \in Nat
           /\ queue[i].kind \in {"execute", "signal", "direct", "direct_signal"}
  BY QueueTypes DEF IInv
<1>2. sub.completed >= sub.current - 1 /\ ~sub.direct
  BY <1>1 DEF Proven
<1>3. ASSUME sub.current > 1
      PROVE  \E k \in 1 .. env.gpu : IsSignal(k) /\ queue[k].value >= sub.current - 1
  BY <1>1, <1>2, <1>3 DEF IInv, FenceInv
<1>4. ASSUME NEW i \in env.gpu + 1 .. n, IsSignal(i) PROVE FALSE
  <2>1. i \in 1 .. n
    BY <1>1
  <2>2. queue[i].value > 0 /\ queue[i].value < sub.current
        /\ \A j \in 1 .. i - 1 : IsSignal(j) => queue[j].value < queue[i].value
    BY <1>4, <2>1 DEF IInv, OrderInv
  <2>3. PICK k \in 1 .. env.gpu : IsSignal(k) /\ queue[k].value >= sub.current - 1
    BY <1>1, <1>3, <2>1, <2>2
  <2>4. k \in 1 .. i - 1 /\ k \in 1 .. n
    BY <1>1, <2>3
  <2> QED BY <1>1, <2>1, <2>2, <2>3, <2>4
<1>5. ASSUME NEW i \in env.gpu + 1 .. n, IsSpecial(i) PROVE FALSE
  <2>1. i \in 1 .. n /\ ~(i <= env.gpu)
    BY <1>1
  <2>2. sub.current > 1 /\ \A j \in 1 .. i - 1 : IsSignal(j) => queue[j].value < sub.current - 1
    BY <1>2, <1>5, <2>1 DEF IInv, DirectInv
  <2>3. PICK k \in 1 .. env.gpu : IsSignal(k) /\ queue[k].value >= sub.current - 1
    BY <1>3, <2>2
  <2>4. k \in 1 .. i - 1 /\ k \in 1 .. n
    BY <1>1, <2>3
  <2> QED BY <1>1, <2>1, <2>2, <2>3, <2>4
<1>6. ASSUME NEW i \in env.gpu + 1 .. n, queue[i].kind = "execute" PROVE FALSE
  <2>1. i \in 1 .. n /\ ~Broken /\ wpc # "signal"
    BY <1>1 DEF Broken, ExecutePCs
  <2>2. i < n /\ IsSignal(i + 1)
    BY <1>6, <2>1 DEF IInv, OrderInv
  <2>3. i + 1 \in env.gpu + 1 .. n
    BY <1>1, <2>1, <2>2
  <2> QED BY <1>4, <2>2, <2>3
<1>7. ~(env.gpu < n)
  <2> SUFFICES ASSUME env.gpu < n PROVE FALSE
    OBVIOUS
  <2>1. n \in env.gpu + 1 .. n /\ n \in 1 .. n
    BY <1>1
  <2> QED BY <1>1, <1>4, <1>5, <1>6, <2>1 DEF IsSignal, IsSpecial
<1> QED BY <1>1, <1>7

LEMMA AwaitFlushKeeps == ASSUME IInv, AwaitFlush PROVE IInv'
<1> SUFFICES ASSUME ~IInv' PROVE FALSE
  OBVIOUS
<1>1. /\ Flushes("await")
      /\ WaitReturn => \/ Goto("unproven")
                       \/ ~Failed(result) /\ Proven /\ Goto("proven")
  BY DEF AwaitFlush, FlushNativeReplay, Flushes, At, WaitReturn, WaitBlock, WaitDone
<1>2. /\ Types /\ Beside /\ cp.pc = "await" /\ state' = "Idle" /\ wpc' \notin ExecutePCs
      /\ UNCHANGED <<sub, env, worker, wpc, result, queue>> /\ WaitReturn
  BY <1>1, FlushFacts
<1>3. CASE Goto("unproven")
  BY <1>2, <1>3, GotoCalm DEF Calm, CpPcs, Flushed
<1>4. CASE ~Failed(result) /\ Proven /\ Goto("proven")
  <2>1. cp' \in CpStates /\ cp'.pc = "proven"
    BY <1>2, <1>4, GotoState DEF CpPcs
  <2>2. env.gpu = Len(queue)
    BY <1>2, <1>4, ProvenIsIdle DEF HandedOver
  <2>3. ~session_active'
    <3>1. ~session_active \/ job.operation = "Finish"
      BY <1>4 DEF Proven, IInv, JobInv
    <3>2. state \in {"Idle", "Complete"}
      BY <1>2 DEF WaitReturn, WaitDone
    <3>3. state = "Idle" => ~session_active
      BY <3>1 DEF IInv, JobInv, FinalOperations
    <3>4. state = "Complete" /\ session_active' => job.operation \notin FinalOperations
      BY <1>2, ReapsState DEF Beside
    <3>5. session_active' => session_active
      BY <1>2, ReapsState DEF Beside
    <3> QED BY <3>1, <3>2, <3>3, <3>4, <3>5 DEF FinalOperations
  <2>4. ~sub.open
    BY <1>4 DEF Proven
  <2>5. PcInv'
    BY <1>2, <2>1, <2>2, <2>3, <2>4 DEF PcInv, Flushed, Quiescing
  <2> QED BY <1>2, <2>1, <2>5, PromiseKeeps
<1> QED BY <1>1, <1>2, <1>3, <1>4

-----------------------------------------------------------------------------
(* The steps that record, open a submission or return from a hand-over.    *)

(* Only source, sub.open and the position change. *)
Recording ==
  /\ UNCHANGED <<state, session_active, job, wpc, whr, result, stream, list, queue>>
  /\ source' \in Seq(Commands)
  /\ env' \in EnvStates /\ env'.gpu = env.gpu /\ env'.profile = env.profile
  /\ frames' \in FrameStates /\ pools' = pools
  /\ sub' \in SubStates
  /\ sub'.current = sub.current /\ sub'.chunk = sub.chunk /\ sub'.completed = sub.completed
  /\ sub'.direct = sub.direct /\ sub'.direct_last = sub.direct_last

LEMMA RecordingKeeps ==
  ASSUME IInv, Recording, cp' \in CpStates, cp'.pc # "fence_direct_wait", HandedOver' <=> HandedOver,
         sub'.open /\ ~HandedOver /\ cp'.pc # "notify" /\ ~Failed(result)
           => AllOf(source', sub.current),
         PcInv', PoolInv'
  PROVE  IInv'
<1> USE DEF IInv, Recording
<1>1. Types'
  <2>1. FrameStates' = FrameStates
    BY DEF FrameStates, QueueFrames, Profile
  <2> QED BY <2>1 DEF Types
<1>2. SlotOwned' /\ LatchSettled'
  BY DEF SlotOwned, LatchSettled
<1>3. Broken' <=> Broken
  BY DEF Broken
<1>4. JobInv'
  BY DEF JobInv
<1>5. CommandsInv'
  BY <1>3 DEF CommandsInv, ListIsStale, AllOf
<1>6. OrderInv'
  BY <1>3 DEF OrderInv, IsSignal, AllOf
<1>7. DirectInv'
  BY DEF DirectInv, IsSignal, IsSpecial
<1>8. FenceInv'
  BY DEF FenceInv, IsSignal
<1> QED BY <1>1, <1>2, <1>4, <1>5, <1>6, <1>7, <1>8

LEMMA GotoCalmState ==
  ASSUME Types, NEW pc \in Calm, Goto(pc)
  PROVE  cp' \in CpStates /\ cp'.pc = pc /\ ~HandedOver' /\ PcInv' /\ PoolInv'
         /\ pc # "fence_direct_wait"
<1>1. cp' \in CpStates /\ cp'.pc = pc
  BY GotoState DEF Calm
<1> QED BY <1>1 DEF HandedOver, PcInv, PoolInv, Quiescing, Calm, Flushed

LEMMA RecordCommandState ==
  ASSUME IInv, RecordCommand, sub' = sub, frames' = frames, pools' = pools, ~HandedOver, cp.pc # "notify",
         UNCHANGED <<state, session_active, job, wpc, whr, result, stream, list, queue>>
  PROVE  Recording /\ (sub'.open /\ ~Failed(result) => AllOf(source', sub.current))
<1> DEFINE c == [submission |-> sub.current, frame |-> frames.current]
<1>1. /\ Types /\ sub \in SubStates /\ frames \in FrameStates /\ env \in EnvStates
      /\ source \in Seq(Commands)
  BY DEF IInv, Types
<1>2. c \in Commands /\ c.submission = sub.current
  BY <1>1 DEF SubStates, FrameStates, Commands
<1>3. source' = Append(source, c)
  BY DEF RecordCommand
<1> HIDE DEF c
<1>4. source' \in Seq(Commands)
  BY <1>1, <1>2, <1>3
<1>5. env' = [env EXCEPT !.draws = env.draws + 1]
  BY DEF RecordCommand
<1>6. env' \in EnvStates /\ env'.gpu = env.gpu /\ env'.profile = env.profile
  BY <1>1, <1>5 DEF EnvStates
<1>7. sub'.open /\ ~Failed(result) => AllOf(source, c.submission)
  BY <1>2 DEF IInv, CommandsInv
<1>8. sub'.open /\ ~Failed(result) => AllOf(source', sub.current)
  BY <1>1, <1>2, <1>3, <1>7, AllOfAppend
<1> QED BY <1>1, <1>4, <1>6, <1>8 DEF Recording

LEMMA RecordKeeps ==
  ASSUME IInv, Record \/ RecordReadback
  PROVE  IInv'
<1>1. /\ Types /\ cp.pc \in {"record", "copy"} /\ UNCHANGED <<sub, frames, pools>>
      /\ UNCHANGED <<state, session_active, job, wpc, whr, result, stream, list, queue>>
      /\ UNCHANGED <<stop, stats, waiters, replay_state>>
  BY DEF IInv, Record, RecordReadback, At, slotVars
<1>2. CASE UNCHANGED <<source, env>> /\ Goto("idle")
  <2>1. Beside
    BY <1>1, <1>2, UnchangedBeside DEF workerVars
  <2> QED BY <1>1, <1>2, <2>1, GotoCalm DEF Calm, CpPcs, Flushed
<1>3. CASE RecordCommand
  <2>1. Recording /\ (sub'.open /\ ~Failed(result) => AllOf(source', sub.current)) /\ ~HandedOver
    BY <1>1, <1>3, RecordCommandState DEF HandedOver
  <2>2. /\ cp' \in CpStates /\ ~HandedOver' /\ PcInv' /\ PoolInv'
        /\ cp'.pc # "fence_direct_wait"
    <3>1. CASE Await("idle")
      <4>1. cp' \in CpStates /\ cp'.pc = "fence"
        BY <1>1, <3>1, AwaitState
      <4> QED BY <4>1 DEF HandedOver, PcInv, PoolInv, Quiescing, Flushed
    <3>2. CASE Goto("idle") \/ Goto("boundary") \/ Goto("export")
      BY <1>1, <3>2, GotoCalmState DEF Calm, CpPcs, Flushed
    <3>3. Await("idle") \/ Goto("idle") \/ Goto("boundary") \/ Goto("export")
      <4>1. CASE Record
        BY <1>3, <4>1 DEF Record, RecordCommand
      <4>2. CASE RecordReadback
        BY <1>3, <4>2 DEF RecordReadback, RecordCommand
      <4> QED BY <4>1, <4>2
    <3> QED BY <3>1, <3>2, <3>3
  <2> QED BY <2>1, <2>2, RecordingKeeps
<1> QED BY <1>2, <1>3 DEF Record, RecordReadback

LEMMA MaxOfPair ==
  ASSUME NEW a \in Nat, NEW b \in Nat
  PROVE  Max({a, b}) \in {a, b} /\ Max({a, b}) >= a /\ Max({a, b}) >= b
<1>1. \E n \in Nat : a <= n /\ b <= n
  <2>1. a + b \in Nat /\ a <= a + b /\ b <= a + b
    OBVIOUS
  <2> QED BY <2>1
<1>2. PICK n \in Nat : a <= n /\ b <= n
  BY <1>1
<1>3. {a, b} \in SUBSET Nat /\ {a, b} # {} /\ \A y \in {a, b} : y <= n
  BY <1>2
<1>4. Max({a, b}) \in {a, b} /\ \A y \in {a, b} : y <= Max({a, b})
  BY <1>3, LargestOfBounded
<1> QED BY <1>4

LEMMA CompletedFrameState ==
  ASSUME Types
  PROVE  /\ CompletedFrame \in Nat /\ CompletedFrame <= frames.current - 1
         /\ LET base == Max({frames.current, QueueFrames}) - QueueFrames
                done(f) == frames.closed[f % QueueFrames] <= sub.completed
            IN /\ base \in Nat /\ base <= CompletedFrame
               /\ \A g \in base + 1 .. CompletedFrame : done(g)
<1> DEFINE base == Max({frames.current, QueueFrames}) - QueueFrames
           top == Max({base, frames.current - 1})
           done(f) == frames.closed[f % QueueFrames] <= sub.completed
           S == {f \in base .. top : \A g \in base + 1 .. f : done(g)}
<1>1. frames.current \in Nat \ {0} /\ QueueFrames \in Nat \ {0}
  BY RingSize DEF Types, FrameStates
<1>2. base \in Nat /\ base <= frames.current - 1 /\ frames.current - 1 \in Nat
  BY <1>1, MaxOfPair
<1> HIDE DEF base
<1>3. top = frames.current - 1
  BY <1>2, MaxOfPair
<1> HIDE DEF top, done
<1>4. base \in S
  BY <1>2, <1>3
<1>5. S \in SUBSET Nat /\ S # {} /\ \A y \in S : y <= top
  BY <1>2, <1>3, <1>4
<1>6. Max(S) \in S
  <2> HIDE DEF S
  <2> QED BY <1>2, <1>3, <1>5, LargestOfBounded
<1>7. CompletedFrame = Max(S)
  BY DEF CompletedFrame, S, base, top, done
<1>8. /\ CompletedFrame \in Nat /\ CompletedFrame <= frames.current - 1 /\ base <= CompletedFrame
      /\ \A g \in base + 1 .. CompletedFrame : done(g)
  BY <1>2, <1>3, <1>6, <1>7
<1> QED BY <1>2, <1>8 DEF base, done

LEMMA BeginOpenKeeps == ASSUME IInv, BeginOpen PROVE IInv'
<1>1. /\ Types /\ cp.pc = "begin" /\ ~HandedOver /\ sub \in SubStates /\ frames \in FrameStates
      /\ UNCHANGED <<state, session_active, job, wpc, whr, result, stream, list, queue, env>>
      /\ UNCHANGED <<stop, stats, waiters, replay_state, pools>>
  BY DEF IInv, Types, BeginOpen, At, HandedOver, slotVars
<1>2. CASE UNCHANGED <<source, sub, frames>> /\ Goto("idle")
  <2>1. Beside
    BY <1>1, <1>2, UnchangedBeside DEF workerVars
  <2> QED BY <1>1, <1>2, <2>1, GotoCalm DEF Calm, CpPcs, Flushed
<1>3. CASE /\ sub' = [sub EXCEPT !.open = TRUE]
           /\ source' = IF sub.open THEN source ELSE <<>>
           /\ frames' = IF Opening
                        THEN [frames EXCEPT !.completed = CompletedFrame, !.open = TRUE]
                        ELSE frames
           /\ Goto("record")
  <2>1. /\ sub' \in SubStates /\ sub'.current = sub.current /\ sub'.chunk = sub.chunk
        /\ sub'.completed = sub.completed /\ sub'.direct = sub.direct
        /\ sub'.direct_last = sub.direct_last
    BY <1>1, <1>3 DEF SubStates
  <2>2. CompletedFrame \in Nat
    BY <1>1, CompletedFrameState
  <2>3. frames' \in FrameStates
    BY <1>1, <1>3, <2>2 DEF FrameStates
  <2>4. source' \in Seq(Commands) /\ (~Failed(result) => AllOf(source', sub.current))
    <3>1. CASE sub.open
      BY <1>1, <1>3, <3>1 DEF IInv, CommandsInv, Types
    <3>2. CASE ~sub.open
      <4>1. <<>> \in Seq(Commands)
        OBVIOUS
      <4> QED BY <1>3, <3>2, <4>1, AllOfEmpty
    <3> QED BY <3>1, <3>2
  <2>5. cp' \in CpStates /\ ~HandedOver' /\ PcInv' /\ PoolInv' /\ cp'.pc # "fence_direct_wait"
    BY <1>1, <1>3, GotoCalmState DEF Calm, CpPcs, Flushed
  <2>6. Recording
    BY <1>1, <2>1, <2>3, <2>4 DEF Recording, Types
  <2> QED BY <1>1, <2>4, <2>5, <2>6, RecordingKeeps
<1> QED BY <1>2, <1>3 DEF BeginOpen

LEMMA NotifyKeeps == ASSUME IInv, Notify PROVE IInv'
<1>1. /\ Types /\ cp.pc = "notify" /\ UNCHANGED <<sub, frames, env, worker, pools>>
      /\ UNCHANGED <<state, session_active, job, wpc, whr, result, stream, list, queue>>
      /\ cp.next \in {"chunk_result", "end_swap", "end_books", "destroy_join"}
  BY DEF IInv, PcInv, Notify, At
<1>2. cp' \in CpStates /\ cp'.pc = cp.next
  BY <1>1, GotoState DEF Notify, CpPcs
<1>3. HandedOver' <=> HandedOver
  BY <1>1, <1>2 DEF HandedOver
<1>4. <<>> \in Seq(Commands)
  OBVIOUS
<1>5. source' \in Seq(Commands) /\ (cp.next = "chunk_result" => source' = <<>>)
  BY <1>1, <1>4 DEF Notify, Types
<1>6. Recording
  BY <1>1, <1>5 DEF Recording, Types
<1>7. PcInv' /\ PoolInv'
  BY <1>1, <1>2, <1>3 DEF IInv, PcInv, PoolInv, Flushed, Quiescing
<1>8. sub'.open /\ ~HandedOver => AllOf(source', sub.current)
  <2>1. CASE cp.next = "chunk_result"
    BY <1>5, <2>1, AllOfEmpty
  <2>2. CASE cp.next = "destroy_join"
    BY <1>1, <2>2 DEF IInv, PcInv, Quiescing
  <2> QED BY <1>1, <2>1, <2>2 DEF HandedOver
<1> QED BY <1>1, <1>2, <1>3, <1>6, <1>7, <1>8, RecordingKeeps

-----------------------------------------------------------------------------
(* The steps that give the worker a job.                                   *)

Hands ==
  /\ state \in {"Idle", "Complete"} /\ ~Failed(result) /\ sub.open
  /\ UNCHANGED <<result, wpc, whr, list, queue, env, frames>>
  /\ stream' = source /\ source' = stream /\ state' = "Queued"
  /\ job' \in Jobs /\ job'.fence_value = sub.current
  /\ cp.pc \in {"chunk", "end_submit"} /\ cp' \in CpStates /\ cp'.pc = "notify"
  /\ cp'.next \in {"chunk_result", "end_swap", "end_books"}
  /\ sub' \in SubStates
  /\ sub'.open = sub.open /\ sub'.current = sub.current /\ sub'.completed = sub.completed
  /\ sub'.direct = sub.direct /\ sub'.direct_last = sub.direct_last
  /\ session_active' \in BOOLEAN /\ (session_active' <=> job'.operation # "Whole")
  /\ sub'.chunk # NoAllocator <=> job'.operation # "Whole"
  /\ cp'.next # "chunk_result" <=> job'.operation \in FinalOperations
  /\ pools' \in PoolStates /\ (sub'.chunk = NoAllocator => pools'.writable # <<>>)
  /\ job'.operation \in {"Append", "Finish"} => AllOf(list.commands, sub.current)

LEMMA HandsKeeps == ASSUME IInv, Hands PROVE IInv'
<1> USE DEF IInv, Hands
<1>1. /\ wpc \notin ExecutePCs /\ ~HandedOver /\ AllOf(source, sub.current)
      /\ (HandedOver' <=> job'.operation \in FinalOperations)
      /\ ~Broken /\ (Broken' <=> Broken)
  <2>1. wpc \notin ExecutePCs
    BY DEF SlotOwned
  <2>2. wpc # "store_result" /\ ~Broken /\ (Broken' <=> Broken)
    BY <2>1 DEF ExecutePCs, Broken
  <2>3. ~HandedOver /\ (HandedOver' <=> job'.operation \in FinalOperations)
    BY DEF HandedOver
  <2>4. AllOf(source, sub.current)
    BY <2>3 DEF CommandsInv
  <2> QED BY <2>1, <2>2, <2>3, <2>4
<1>2. Types'
  <2>1. FrameStates' = FrameStates
    BY DEF FrameStates, QueueFrames, Profile
  <2> QED BY <2>1 DEF Types
<1>3. SlotOwned' /\ LatchSettled'
  BY <1>1 DEF SlotOwned, LatchSettled
<1>4. PcInv' /\ PoolInv'
  BY DEF PcInv, PoolInv, Flushed, Quiescing
<1>5. JobInv'
  BY <1>1, QueueTypes DEF JobInv, FinalOperations, ExecutePCs
<1>6. CommandsInv'
  <2>1. AllOf(stream', job'.fence_value)
    BY <1>1
  <2>2. wpc' \notin ExecutePCs
    BY <1>1
  <2>3. session_active' /\ ~ListIsStale' => AllOf(list'.commands, job'.fence_value)
    BY DEF ListIsStale, Jobs, Operations
  <2> QED BY <2>1, <2>2, <2>3 DEF CommandsInv, ExecutePCs
<1>7. \A i \in 1 .. Len(queue) : IsSignal(i) => queue[i].value < sub.current
  BY <1>1 DEF OrderInv
<1>8. OrderInv'
  BY <1>1, <1>7 DEF OrderInv, IsSignal, ExecutePCs
<1>9. DirectInv'
  BY <1>1 DEF DirectInv, IsSignal, IsSpecial
<1>10. FenceInv'
  BY DEF FenceInv, IsSignal
<1> QED BY <1>2, <1>3, <1>4, <1>5, <1>6, <1>8, <1>9, <1>10

LEMMA NotifyThenState ==
  ASSUME Types, NEW next \in {"chunk_result", "end_swap", "end_books", "destroy_join"},
         NotifyThen(next)
  PROVE  cp' \in CpStates /\ cp'.pc = "notify" /\ cp'.next = next
BY DEF NotifyThen, Types, CpStates, CpPcs

(* The list of an open chunk session holds the commands of this submission. *)
LEMMA SessionList ==
  ASSUME IInv, session_active, state \in {"Idle", "Complete"}, ~Failed(result),
         sub.chunk # NoAllocator
  PROVE  AllOf(list.commands, sub.current) /\ job.fence_value = sub.current
<1>1. wpc \notin ExecutePCs
  BY DEF IInv, SlotOwned
<1>2. ~Broken /\ ~ListIsStale
  BY <1>1 DEF Broken, ListIsStale, ExecutePCs
<1> QED BY <1>2 DEF IInv, CommandsInv, JobInv

LEMMA StartState ==
  ASSUME Types, NEW allocator \in Allocators, NEW chunks \in BOOLEAN,
         Start(allocator, sub.current, chunks)
  PROVE  /\ state = "Idle" /\ ~Failed(result)
         /\ UNCHANGED <<result, wpc, whr, list, queue>>
         /\ stream' = source /\ source' = stream /\ state' = "Queued"
         /\ job' \in Jobs /\ job'.fence_value = sub.current
         /\ job'.operation = (IF chunks THEN "Begin" ELSE "Whole")
         /\ session_active' = chunks
<1>1. sub.current \in Nat
  BY DEF Types, SubStates
<1>2. job' = [operation |-> IF chunks THEN "Begin" ELSE "Whole", allocator |-> allocator,
              fence_value |-> sub.current, result |-> "S_OK"]
  BY DEF Start
<1>3. /\ job' \in Jobs /\ job'.fence_value = sub.current
      /\ job'.operation = (IF chunks THEN "Begin" ELSE "Whole")
  BY <1>1, <1>2 DEF Jobs, Operations, HResults
<1> QED BY <1>3 DEF Start, CanStart, SlotOpen, SwapStorage

LEMMA WritableAllocator ==
  ASSUME Types, NEW writable \in Writable, writable # <<>>
  PROVE  Head(writable) \in Allocators /\ writable \in Seq(Allocators)
<1>1. CASE pools.writable # <<>>
  <2>1. writable = pools.writable /\ pools.writable \in Seq(Allocators)
    BY <1>1 DEF Writable, Types, PoolStates
  <2> QED BY <1>1, <2>1
<1>2. CASE pools.writable = <<>>
  <2>1. PICK a \in Allocators : writable = <<a>>
    BY <1>2 DEF Writable
  <2> QED BY <2>1
<1> QED BY <1>1, <1>2

LEMMA CheckChunkSlotKeeps == ASSUME IInv, CheckChunkSlot PROVE IInv'
<1>1. /\ Types /\ cp.pc = "chunk_ready" /\ sub.open /\ UNCHANGED <<sub, frames, pools, env, worker>>
      /\ UNCHANGED <<wpc, whr, result, stream, source, list, queue>> /\ Reaps
  BY DEF IInv, PcInv, CheckChunkSlot, At, Reaps
<1>2. Beside
  BY <1>1 DEF Beside, SameSubmission, FenceInv, IsSignal, IInv, Types
<1>3. CASE Goto("idle") \/ Goto("chunk_result")
  BY <1>1, <1>2, <1>3, GotoCalm DEF Calm, CpPcs, Flushed
<1>4. CASE Goto("chunk")
  <2>1. cp' \in CpStates /\ cp'.pc = "chunk"
    BY <1>1, <1>4, GotoState DEF CpPcs
  <2>2. PcInv'
    BY <1>1, <2>1 DEF PcInv, Flushed, Quiescing
  <2> QED BY <1>1, <1>2, <2>1, <2>2, PromiseKeeps
<1> QED BY <1>3, <1>4 DEF CheckChunkSlot

LEMMA AppendChunkKeeps == ASSUME IInv, AppendChunk PROVE IInv'
<1>1. /\ Types /\ cp.pc = "chunk" /\ sub.open /\ sub.chunk # NoAllocator
      /\ UNCHANGED <<sub, frames, pools, env, worker>>
      /\ UNCHANGED <<wpc, whr, result, list, queue>>
  BY DEF IInv, PcInv, AppendChunk, TryAppendChunk, At
<1>2. CASE ~CanAppend
  <2>1. Reaps /\ UNCHANGED <<stream, source>> /\ Goto("chunk_result")
    BY <1>2 DEF AppendChunk, TryAppendChunk, Reaps
  <2>2. Beside
    BY <1>1, <2>1 DEF Beside, SameSubmission, FenceInv, IsSignal, IInv, Types
  <2> QED BY <1>1, <2>1, <2>2, GotoCalm DEF Calm, CpPcs, Flushed
<1>3. CASE CanAppend
  <2>1. state \in {"Idle", "Complete"} /\ ~Failed(result) /\ ReapedSession
    BY <1>1, <1>3 DEF CanAppend, SlotOpen, ReapedState, Reaping, Types
  <2>2. session_active
    BY <2>1 DEF ReapedSession
  <2>3. AllOf(list.commands, sub.current) /\ job.fence_value = sub.current
    BY <1>1, <2>1, <2>2, SessionList
  <2>4. /\ job' = [ReapedJob EXCEPT !.operation = "Append"] /\ stream' = source /\ source' = stream
        /\ state' = "Queued" /\ session_active' = ReapedSession
    BY <1>3 DEF AppendChunk, TryAppendChunk, SwapStorage
  <2>5. ReapedJob \in Jobs /\ ReapedJob.fence_value = job.fence_value
    BY <1>1 DEF ReapedJob, Jobs, Types
  <2>6. job' \in Jobs /\ job'.fence_value = sub.current /\ job'.operation = "Append"
    BY <2>3, <2>4, <2>5 DEF Jobs, Operations
  <2>7. session_active' = TRUE
    BY <2>1, <2>2, <2>4 DEF ReapedSession
  <2>8. NotifyThen("chunk_result")
    BY <1>3 DEF AppendChunk
  <2>9. cp' \in CpStates /\ cp'.pc = "notify" /\ cp'.next = "chunk_result"
    BY <1>1, <2>8, NotifyThenState
  <2>10. Hands
    BY <1>1, <2>1, <2>3, <2>4, <2>6, <2>7, <2>9 DEF Hands, FinalOperations, Types
  <2> QED BY <2>10, HandsKeeps
<1> QED BY <1>2, <1>3

LEMMA BeginChunksKeeps == ASSUME IInv, BeginChunks PROVE IInv'
<1>1. /\ Types /\ cp.pc = "chunk" /\ sub.open /\ sub.chunk = NoAllocator /\ sub \in SubStates
      /\ UNCHANGED <<frames, env, worker>> /\ pools \in PoolStates
  BY DEF IInv, PcInv, BeginChunks, At, Types
<1>2. PICK writable \in Writable :
        \/ writable = <<>> /\ Goto("idle") /\ UNCHANGED <<workerVars, sub, pools>>
        \/ /\ writable # <<>> /\ Start(Head(writable), sub.current, TRUE)
           /\ sub' = [sub EXCEPT !.chunk = Head(writable)]
           /\ pools' = [pools EXCEPT !.writable = Tail(writable)]
           /\ NotifyThen("chunk_result")
        \/ /\ writable # <<>> /\ pools' = [pools EXCEPT !.writable = writable]
           /\ Goto("chunk_result") /\ UNCHANGED <<workerVars, sub>>
  BY DEF BeginChunks
<1>3. CASE writable = <<>> /\ Goto("idle") /\ UNCHANGED <<workerVars, sub, pools>>
  <2>1. Beside
    BY <1>1, <1>3, UnchangedBeside
  <2> QED BY <1>1, <1>3, <2>1, GotoCalm DEF Calm, CpPcs, Flushed
<1>4. CASE /\ writable # <<>> /\ pools' = [pools EXCEPT !.writable = writable]
           /\ Goto("chunk_result") /\ UNCHANGED <<workerVars, sub>>
  <2>1. writable \in Seq(Allocators)
    BY <1>1, <1>4, WritableAllocator
  <2>2. pools' \in PoolStates
    BY <1>1, <1>4, <2>1 DEF PoolStates
  <2>3. Beside
    BY <1>1, <1>4, <2>2, UnchangedBeside
  <2> QED BY <1>1, <1>4, <2>3, GotoCalm DEF Calm, CpPcs, Flushed
<1>5. CASE /\ writable # <<>> /\ Start(Head(writable), sub.current, TRUE)
           /\ sub' = [sub EXCEPT !.chunk = Head(writable)]
           /\ pools' = [pools EXCEPT !.writable = Tail(writable)]
           /\ NotifyThen("chunk_result")
  <2>1. Head(writable) \in Allocators /\ writable \in Seq(Allocators)
    BY <1>1, <1>5, WritableAllocator
  <2>2. Tail(writable) \in Seq(Allocators)
    BY <1>5, <2>1
  <2>3. pools' \in PoolStates
    BY <1>1, <1>5, <2>2 DEF PoolStates
  <2>4. /\ sub' \in SubStates /\ sub'.chunk # NoAllocator /\ sub'.open = sub.open
        /\ sub'.current = sub.current /\ sub'.completed = sub.completed
        /\ sub'.direct = sub.direct /\ sub'.direct_last = sub.direct_last
    BY <1>1, <1>5, <2>1, AllocatorsAssumption DEF SubStates
  <2>5. cp' \in CpStates /\ cp'.pc = "notify" /\ cp'.next = "chunk_result"
    BY <1>1, <1>5, NotifyThenState
  <2>6. /\ state = "Idle" /\ ~Failed(result)
        /\ UNCHANGED <<result, wpc, whr, list, queue>>
        /\ stream' = source /\ source' = stream /\ state' = "Queued"
        /\ job' \in Jobs /\ job'.fence_value = sub.current
        /\ job'.operation = "Begin"
        /\ session_active' = TRUE
    BY <1>1, <1>5, <2>1, StartState
  <2>7. Hands
    BY <1>1, <2>3, <2>4, <2>5, <2>6 DEF Hands, FinalOperations
  <2> QED BY <2>7, HandsKeeps
<1> QED BY <1>2, <1>3, <1>4, <1>5

LEMMA EndFinishChunksKeeps == ASSUME IInv, EndFinishChunks PROVE IInv'
<1>1. /\ Types /\ cp.pc = "end_submit" /\ sub.open /\ sub.chunk # NoAllocator
      /\ UNCHANGED <<sub, frames, pools, env, worker>>
  BY DEF IInv, PcInv, EndFinishChunks, At
<1>2. CASE ReturnFromEnd(FALSE) /\ UNCHANGED workerVars
  <2>1. Beside
    BY <1>1, <1>2, UnchangedBeside
  <2> QED BY <1>1, <1>2, <2>1, ReturnKeeps
<1>3. CASE FinishChunks /\ NotifyThen(IF cp.swap THEN "end_swap" ELSE "end_books")
  <2>1. state = "Idle" /\ ~Failed(result) /\ session_active
    BY <1>3 DEF FinishChunks, CanFinish, SlotOpen
  <2>2. AllOf(list.commands, sub.current) /\ job.fence_value = sub.current
    BY <1>1, <2>1, SessionList
  <2>3. /\ job' = [job EXCEPT !.operation = "Finish"] /\ stream' = source /\ source' = stream
        /\ state' = "Queued" /\ UNCHANGED <<session_active, result, wpc, whr, list, queue>>
    BY <1>3 DEF FinishChunks, SwapStorage
  <2>4. job' \in Jobs /\ job'.fence_value = sub.current /\ job'.operation = "Finish"
    BY <1>1, <2>2, <2>3 DEF Jobs, Operations, Types
  <2>5. cp' \in CpStates /\ cp'.pc = "notify" /\ cp'.next \in {"end_swap", "end_books"}
    BY <1>1, <1>3, NotifyThenState
  <2>6. Hands
    BY <1>1, <2>1, <2>2, <2>3, <2>4, <2>5 DEF Hands, FinalOperations, Types
  <2> QED BY <2>6, HandsKeeps
<1> QED BY <1>2, <1>3 DEF EndFinishChunks

LEMMA EndSubmitKeeps == ASSUME IInv, EndSubmit PROVE IInv'
<1>1. /\ Types /\ cp.pc = "end_submit" /\ sub.open /\ sub.chunk = NoAllocator /\ sub \in SubStates
      /\ UNCHANGED <<sub, frames, env>> /\ pools \in PoolStates
      /\ state = "Idle" /\ wpc \notin ExecutePCs /\ ~Failed(result)
  BY DEF IInv, PcInv, EndSubmit, At, Types, Flushed
<1>2. PICK writable \in Writable :
        /\ pools' = [pools EXCEPT !.writable = writable]
        /\ \/ writable = <<>> /\ ReturnFromEnd(FALSE) /\ UNCHANGED workerVars
           \/ /\ writable # <<>> /\ Start(Head(writable), sub.current, FALSE)
              /\ NotifyThen("end_books")
           \/ writable # <<>> /\ Goto("end_replay") /\ UNCHANGED workerVars
  BY DEF EndSubmit
<1>3. writable \in Seq(Allocators)
  <2>1. <<>> \in Seq(Allocators)
    OBVIOUS
  <2> QED BY <1>1, <2>1, WritableAllocator
<1>4. pools' \in PoolStates /\ pools'.writable = writable
  BY <1>1, <1>2, <1>3 DEF PoolStates
<1>5. CASE ReturnFromEnd(FALSE) /\ UNCHANGED workerVars
  <2>1. Beside
    BY <1>1, <1>4, <1>5, UnchangedBeside
  <2> QED BY <1>1, <1>5, <2>1, ReturnKeeps
<1>6. CASE writable # <<>> /\ Goto("end_replay") /\ UNCHANGED workerVars
  <2>1. Beside /\ UNCHANGED <<state, wpc, result>>
    BY <1>1, <1>4, <1>6, UnchangedBeside DEF workerVars
  <2>2. cp' \in CpStates /\ cp'.pc = "end_replay"
    BY <1>1, <1>6, GotoState DEF CpPcs
  <2>3. PcInv' /\ PoolInv'
    BY <1>1, <1>4, <1>6, <2>1, <2>2 DEF PcInv, PoolInv, Flushed, Quiescing
  <2>4. Advances
    BY <1>1, <2>2 DEF Advances, HandedOver
  <2> QED BY <2>1, <2>3, <2>4, MoveKeeps DEF Beside
<1>7. CASE writable # <<>> /\ Start(Head(writable), sub.current, FALSE) /\ NotifyThen("end_books")
  <2>1. Head(writable) \in Allocators
    BY <1>1, <1>7, WritableAllocator
  <2>2. cp' \in CpStates /\ cp'.pc = "notify" /\ cp'.next = "end_books"
    BY <1>1, <1>7, NotifyThenState
  <2>3. /\ UNCHANGED <<result, wpc, whr, list, queue>>
        /\ stream' = source /\ source' = stream /\ state' = "Queued"
        /\ job' \in Jobs /\ job'.fence_value = sub.current
        /\ job'.operation = "Whole"
        /\ session_active' = FALSE
    BY <1>1, <1>7, <2>1, StartState
  <2>4. Hands
    BY <1>1, <1>4, <1>7, <2>2, <2>3 DEF Hands, FinalOperations
  <2> QED BY <2>4, HandsKeeps
<1> QED BY <1>2, <1>5, <1>6, <1>7

LEMMA DestroyStopKeeps == ASSUME IInv, DestroyStop PROVE IInv'
<1>1. /\ Types /\ cp.pc = "destroy_stop" /\ UNCHANGED <<sub, frames, pools, env, worker>>
      /\ UNCHANGED <<state, session_active, job, wpc, whr, result, stream, source, list, queue>>
  BY DEF IInv, DestroyStop, RequestStop, At
<1>2. cp' \in CpStates /\ cp'.pc = "notify" /\ cp'.next = "destroy_join"
  BY <1>1, NotifyThenState DEF DestroyStop
<1>3. Beside
  BY <1>1 DEF Beside, Reaps, SameSubmission, FenceInv, IsSignal, IInv, Types
<1>4. PcInv' /\ PoolInv'
  BY <1>1, <1>2 DEF IInv, PcInv, PoolInv, HandedOver, Flushed, Quiescing
<1>5. Advances
  BY <1>1, <1>2 DEF Advances, HandedOver
<1> QED BY <1>3, <1>4, <1>5, MoveKeeps DEF Beside

-----------------------------------------------------------------------------
(* The CP's own use of the queue.                                          *)

LEMMA QueueGrows ==
  ASSUME Types, NEW e \in Entries, queue' = Append(queue, e)
  PROVE  /\ Len(queue) \in Nat /\ Len(queue') = Len(queue) + 1 /\ queue' \in Seq(Entries)
         /\ \A i \in 1 .. Len(queue) : queue'[i] = queue[i]
         /\ queue'[Len(queue) + 1] = e
BY DEF Types

(* Where the CP has flushed, nothing is on its way to the queue. *)
LEMMA NothingUnderway ==
  ASSUME IInv, cp.pc \in Flushed
  PROVE  /\ state = "Idle" /\ wpc \notin ExecutePCs /\ ~Failed(result) /\ ~Broken
         /\ \A i \in 1 .. Len(queue) : IsSignal(i) => queue[i].value < sub.current
         /\ \A i \in 1 .. Len(queue) : queue[i].kind = "execute" => i < Len(queue) /\ IsSignal(i + 1)
<1>1. state = "Idle" /\ wpc \notin ExecutePCs /\ ~Failed(result)
  BY DEF IInv, PcInv
<1>2. ~Broken /\ wpc # "signal"
  BY <1>1 DEF Broken, ExecutePCs
<1>3. ~HandedOver
  BY DEF HandedOver, Flushed
<1> QED BY <1>1, <1>2, <1>3 DEF IInv, OrderInv

(* An operation or a value the CP puts on the queue itself. *)
Adds(e) ==
  /\ cp.pc \in Flushed /\ cp' \in CpStates
  /\ cp'.pc \notin {"notify", "end_swap", "end_books", "end_replay"}
  /\ e \in Entries /\ queue' = Append(queue, e)
  /\ UNCHANGED <<state, session_active, job, wpc, whr, result, stream, source, list>>
  /\ UNCHANGED <<frames, pools, env>>
  /\ sub' \in SubStates
  /\ sub'.open = sub.open /\ sub'.current = sub.current /\ sub'.chunk = sub.chunk
  /\ sub'.completed = sub.completed /\ sub'.direct = TRUE
  /\ \/ /\ e.kind = "direct" /\ e.value = sub.current /\ cp'.pc # "fence_direct_wait"
        /\ sub'.direct_last = sub.direct_last
     \/ /\ e.kind = "direct_signal" /\ e.value = sub.direct_last + 1
        /\ sub'.direct_last = sub.direct_last + 1

LEMMA AddsKeep == ASSUME IInv, NEW e, Adds(e), PcInv' PROVE IInv'
<1> USE DEF Adds
<1> DEFINE n == Len(queue)
<1>1. /\ n \in Nat /\ Len(queue') = n + 1 /\ queue' \in Seq(Entries)
      /\ \A i \in 1 .. n : queue'[i] = queue[i]
      /\ queue'[n + 1] = e
  BY QueueGrows DEF IInv
<1>2. /\ state = "Idle" /\ wpc \notin ExecutePCs /\ ~Failed(result) /\ ~Broken
      /\ \A i \in 1 .. n : IsSignal(i) => queue[i].value < sub.current
      /\ \A i \in 1 .. n : queue[i].kind = "execute" => i < n /\ IsSignal(i + 1)
  BY NothingUnderway
<1>3. ~HandedOver /\ ~HandedOver' /\ ~Broken' /\ cp.pc # "notify"
  BY <1>2 DEF HandedOver, Flushed, Broken
<1>4. /\ sub.current \in Nat \ {0} /\ env.gpu \in Nat /\ env.gpu <= n /\ sub.direct_last \in Nat
      /\ \A i \in 1 .. n : queue[i].value \in Nat
  BY QueueTypes DEF IInv
<1>5. Types'
  <2>1. FrameStates' = FrameStates
    BY DEF FrameStates, QueueFrames, Profile
  <2>2. env'.gpu <= Len(queue')
    BY <1>1, <1>4
  <2> QED BY <1>1, <2>1, <2>2 DEF IInv, Types
<1>6. SlotOwned' /\ LatchSettled' /\ PoolInv' /\ JobInv'
  BY <1>2, <1>3 DEF IInv, SlotOwned, LatchSettled, PoolInv, JobInv
<1>7. CommandsInv'
  BY <1>2, <1>3 DEF IInv, CommandsInv, ListIsStale, AllOf, ExecutePCs
<1> HIDE DEF n
<1>8. \A i \in 1 .. n : i \in 1 .. n + 1 /\ \A j \in 1 .. i - 1 : j \in 1 .. n
  BY <1>1
<1>9. OrderInv'
  <2>1. ASSUME NEW i \in 1 .. n + 1, queue'[i].kind = "signal"
        PROVE  /\ queue'[i].value > 0 /\ i > 1 /\ queue'[i - 1].kind = "execute"
               /\ AllOf(queue'[i - 1].commands, queue'[i].value)
               /\ \A j \in 1 .. i - 1 : queue'[j].kind = "signal" => queue'[j].value < queue'[i].value
               /\ queue'[i].value < sub.current
    <3>1. i \in 1 .. n
      BY <1>1, <2>1
    <3>2. i > 1 => i - 1 \in 1 .. n
      BY <1>1, <3>1
    <3> QED BY <1>1, <1>2, <1>8, <2>1, <3>1, <3>2 DEF IInv, OrderInv, IsSignal, n
  <2>2. ASSUME NEW i \in 1 .. n + 1, queue'[i].kind = "execute"
        PROVE  i < n + 1 /\ queue'[i + 1].kind = "signal"
    <3>1. i \in 1 .. n
      BY <1>1, <2>2
    <3>2. i < n /\ queue[i + 1].kind = "signal" /\ i + 1 \in 1 .. n
      BY <1>1, <1>2, <2>2, <3>1 DEF IsSignal
    <3> QED BY <1>1, <3>1, <3>2
  <2>3. wpc' # "signal" /\ ~(state' = "Queued" \/ wpc' \in ExecutePCs \ {"store_result", "publish"})
    BY <1>2 DEF ExecutePCs
  <2> QED BY <1>1, <1>3, <2>1, <2>2, <2>3 DEF OrderInv, IsSignal, AllOf
<1>10. DirectInv'
  <2>1. ASSUME NEW j \in 1 .. n + 1, queue'[j].kind = "signal"
        PROVE  j \in 1 .. n /\ queue[j].kind = "signal" /\ queue[j].value < sub.current
    BY <1>1, <1>2, <2>1 DEF IsSignal
  <2>2. ASSUME NEW i \in 1 .. n + 1, queue'[i].kind = "direct"
        PROVE  /\ queue'[i].value <= sub.current
               /\ \A j \in 1 .. n + 1 : queue'[j].kind = "signal" =>
                    (j < i <=> queue'[j].value < queue'[i].value)
    <3>1. CASE i \in 1 .. n
      BY <1>1, <2>1, <2>2, <3>1 DEF IInv, DirectInv, IsSignal, n
    <3>2. CASE i = n + 1
      BY <1>1, <1>4, <2>1, <2>2, <3>2
    <3>3. i \in 1 .. n \/ i = n + 1
      BY <1>1
    <3> QED BY <3>1, <3>2, <3>3
  <2>3. ASSUME NEW i \in 1 .. n + 1, queue'[i].kind = "direct_signal"
        PROVE  /\ queue'[i].value <= sub'.direct_last
               /\ cp'.pc = "fence_direct_wait" => queue'[i].value < sub'.direct_last \/ i = n + 1
    <3>1. CASE i \in 1 .. n
      BY <1>1, <1>4, <2>3, <3>1 DEF IInv, DirectInv, IsSignal, n
    <3>2. CASE i = n + 1
      BY <1>1, <1>4, <2>3, <3>2
    <3> QED BY <1>1, <3>1, <3>2
  <2>4. ~(state' = "Queued" \/ wpc' \in ExecutePCs \ {"store_result", "publish"})
    BY <1>2 DEF ExecutePCs
  <2>5. cp'.pc = "fence_direct_wait" => sub'.direct_last > 0
    BY <1>4
  <2>6. ASSUME NEW i \in 1 .. n + 1, NEW j \in 1 .. i - 1, queue'[j].kind = "signal"
        PROVE  queue'[j].value < sub.current
    <3>1. j \in 1 .. n + 1
      BY <1>1
    <3> QED BY <1>1, <2>1, <2>6, <3>1
  <2> QED BY <1>1, <2>2, <2>3, <2>4, <2>5, <2>6 DEF DirectInv, IsSignal, IsSpecial
<1>11. FenceInv'
  <2>1. \A i \in 1 .. env.gpu : i \in 1 .. n
    BY <1>1, <1>4
  <2> QED BY <1>1, <2>1 DEF IInv, FenceInv, IsSignal
<1> QED BY <1>5, <1>6, <1>7, <1>9, <1>10, <1>11 DEF IInv

LEMMA UpdateTileMappingsKeeps == ASSUME IInv, UpdateTileMappings PROVE IInv'
<1>1. /\ Types /\ cp.pc = "direct" /\ cp.next \in {"record", "copy"} /\ sub \in SubStates
      /\ UNCHANGED <<state, session_active, job, wpc, whr, result, stream, source, list>>
      /\ UNCHANGED <<frames, pools, env>> /\ queue' = Append(queue, DirectEntry)
  BY DEF IInv, Types, PcInv, UpdateTileMappings, At, slotVars
<1>2. cp' \in CpStates /\ cp'.pc \in {"record", "copy"}
  BY <1>1, GotoState DEF UpdateTileMappings, CpPcs
<1>3. /\ sub' \in SubStates /\ sub'.open = sub.open /\ sub'.current = sub.current
      /\ sub'.chunk = sub.chunk /\ sub'.completed = sub.completed /\ sub'.direct = TRUE
      /\ sub'.direct_last = sub.direct_last
  BY <1>1 DEF UpdateTileMappings, SubStates
<1>4. <<>> \in Seq(Commands)
  OBVIOUS
<1>5. DirectEntry \in Entries /\ DirectEntry.kind = "direct" /\ DirectEntry.value = sub.current
  BY <1>1, <1>4 DEF DirectEntry, Entries, SubStates
<1>6. PcInv'
  BY <1>2 DEF PcInv, Flushed, Quiescing
<1>7. Adds(DirectEntry)
  BY <1>1, <1>2, <1>3, <1>5 DEF Adds, Flushed
<1> QED BY <1>6, <1>7, AddsKeep

LEMMA AwaitLastState ==
  ASSUME Types, AwaitLastSubmission
  PROVE  cp' \in CpStates /\ cp'.pc = "fence_check"
<1>1. cp \in CpStates /\ sub.current - 1 \in Nat
  BY DEF Types, SubStates
<1> QED BY <1>1 DEF AwaitLastSubmission, CpStates, CpPcs

LEMMA FenceDirectSignalKeeps == ASSUME IInv, FenceDirectSignal PROVE IInv'
<1>1. /\ Types /\ cp.pc = "fence_direct_signal" /\ sub.direct = TRUE /\ sub \in SubStates
      /\ state = "Idle" /\ wpc \notin ExecutePCs /\ ~Failed(result)
      /\ UNCHANGED <<state, session_active, job, wpc, whr, result, stream, source, list>>
      /\ UNCHANGED <<frames, pools, env>>
  <2>1. sub \in SubStates /\ sub.direct
    BY DEF IInv, Types, PcInv, FenceDirectSignal, At
  <2> QED BY <2>1 DEF IInv, PcInv, FenceDirectSignal, At, slotVars, Flushed, SubStates
<1>2. /\ sub' \in SubStates /\ sub'.open = sub.open /\ sub'.current = sub.current
      /\ sub'.chunk = sub.chunk /\ sub'.completed = sub.completed /\ sub'.direct = TRUE
      /\ sub'.direct_last = sub.direct_last + 1
  BY <1>1 DEF FenceDirectSignal, SubStates
<1> DEFINE e == DirectSignalEntry(sub.direct_last + 1)
<1>3. e \in Entries /\ e.kind = "direct_signal" /\ e.value = sub.direct_last + 1
  <2>1. <<>> \in Seq(Commands)
    OBVIOUS
  <2> QED BY <1>1, <2>1 DEF DirectSignalEntry, Entries, SubStates
<1>4. /\ queue' = queue \/ queue' = Append(queue, e)
      /\ \/ Goto("fence_direct_wait") /\ queue' = Append(queue, e)
         \/ AwaitLastSubmission
  BY <1>2 DEF FenceDirectSignal
<1> HIDE DEF e
<1>5. cp' \in CpStates /\ cp'.pc \in {"fence_direct_wait", "fence_check"}
  BY <1>1, <1>4, AwaitLastState, GotoState DEF CpPcs
<1>6. PcInv'
  BY <1>1, <1>2, <1>5 DEF PcInv, Flushed, Quiescing
<1>7. CASE queue' = Append(queue, e)
  <2>1. Adds(e)
    BY <1>1, <1>2, <1>3, <1>5, <1>7 DEF Adds, Flushed
  <2> QED BY <1>6, <2>1, AddsKeep
<1>8. CASE queue' = queue /\ AwaitLastSubmission
  <2>1. SameSubmission
    BY <1>1, <1>2 DEF SameSubmission
  <2>2. FenceInv'
    BY <1>1, <1>2, <1>8 DEF FenceInv, IsSignal, IInv
  <2>3. Beside
    BY <1>1, <1>8, <2>1, <2>2 DEF Beside, Reaps, Types
  <2>4. cp' \in CpStates /\ cp'.pc = "fence_check"
    BY <1>1, <1>8, AwaitLastState
  <2> QED BY <1>1, <2>3, <2>4, CalmKeeps DEF Calm, CpPcs, Flushed
<1> QED BY <1>4, <1>7, <1>8

(* The GPU has passed everything that was behind the value awaited. *)
LEMMA FenceDirectWaitKeeps == ASSUME IInv, FenceDirectWait PROVE IInv'
<1> DEFINE n == Len(queue)
<1>1. /\ Types /\ cp.pc = "fence_direct_wait" /\ sub.direct = TRUE /\ sub \in SubStates
      /\ UNCHANGED <<state, session_active, job, wpc, whr, result, stream, source, list, queue>>
      /\ UNCHANGED <<frames, pools, env>> /\ env \in EnvStates
  <2>1. sub \in SubStates /\ sub.direct
    BY DEF IInv, Types, PcInv, FenceDirectWait, At
  <2> QED BY <2>1 DEF IInv, Types, FenceDirectWait, At, workerVars, SubStates
<1>2. /\ sub' \in SubStates /\ sub'.open = sub.open /\ sub'.current = sub.current
      /\ sub'.chunk = sub.chunk /\ sub'.completed = sub.completed /\ sub'.direct = env.removed
      /\ sub'.direct_last = sub.direct_last
  BY <1>1 DEF FenceDirectWait, SubStates, EnvStates
<1>3. cp' \in CpStates /\ cp'.pc = "fence_check" /\ ~HandedOver' /\ ~HandedOver
  BY <1>1, AwaitLastState DEF FenceDirectWait, HandedOver
<1>4. /\ n \in Nat /\ sub.current \in Nat \ {0} /\ env.gpu \in Nat /\ env.gpu <= n
      /\ sub.direct_last \in Nat /\ \A i \in 1 .. n : queue[i].value \in Nat
  BY <1>1, QueueTypes
<1>5. ~sub'.direct => env.gpu = n
  <2> SUFFICES ASSUME ~sub'.direct PROVE env.gpu = n
    OBVIOUS
  <2>1. DirectFence >= sub.direct_last /\ sub.direct_last > 0
    BY <1>1, <1>2 DEF FenceDirectWait, IInv, DirectInv
  <2>2. \A i \in 1 .. n : queue[i].kind = "direct_signal" =>
          queue[i].value <= sub.direct_last /\ (queue[i].value < sub.direct_last \/ i = n)
    BY <1>1 DEF IInv, DirectInv
  <2>3. /\ DirectFence \in Nat
        /\ DirectFence > 0 => \E i \in 1 .. env.gpu : queue[i].kind = "direct_signal"
                                                      /\ queue[i].value = DirectFence
    BY <1>1, <1>4, <2>2, FenceValueSignalled DEF DirectFence
  <2>4. PICK i \in 1 .. env.gpu : queue[i].kind = "direct_signal" /\ queue[i].value >= sub.direct_last
    BY <1>4, <2>1, <2>3
  <2>5. i \in 1 .. n
    BY <1>4
  <2>6. i = n
    BY <1>4, <2>2, <2>4, <2>5
  <2> QED BY <1>4, <2>4, <2>6
<1>6. Types'
  <2>1. FrameStates' = FrameStates
    BY <1>1 DEF FrameStates, QueueFrames, Profile
  <2> QED BY <1>1, <1>2, <1>3, <2>1 DEF Types
<1>7. (Broken' <=> Broken) /\ ~Failed(result)
  BY <1>1 DEF Broken, IInv, PcInv, Flushed
<1>8. SlotOwned' /\ LatchSettled' /\ PoolInv' /\ JobInv' /\ PcInv'
  BY <1>1, <1>2, <1>3 DEF IInv, SlotOwned, LatchSettled, PoolInv, JobInv, PcInv, Flushed, Quiescing
<1>9. CommandsInv'
  BY <1>1, <1>2, <1>3, <1>7 DEF IInv, CommandsInv, ListIsStale, AllOf
<1>10. OrderInv'
  BY <1>1, <1>2, <1>3, <1>7 DEF IInv, OrderInv, IsSignal, AllOf
<1>11. FenceInv'
  BY <1>1, <1>2 DEF IInv, FenceInv, IsSignal
<1>12. DirectInv'
  <2>1. \A i \in 1 .. n : ~sub'.direct => i <= env.gpu
    BY <1>4, <1>5
  <2> HIDE DEF n
  <2> QED BY <1>1, <1>2, <1>3, <2>1 DEF IInv, DirectInv, IsSignal, IsSpecial, n
<1> QED BY <1>6, <1>8, <1>9, <1>10, <1>11, <1>12 DEF IInv

LEMMA EndBooksKeeps == ASSUME IInv, EndBooks PROVE IInv'
<1> DEFINE n == Len(queue)
<1>1. /\ Types /\ cp.pc = "end_books" /\ sub \in SubStates /\ pools \in PoolStates
      /\ UNCHANGED <<state, session_active, job, wpc, whr, result, stream, source, list, queue>>
      /\ UNCHANGED <<frames, env>>
  BY DEF IInv, Types, EndBooks, At, workerVars
<1>2. /\ sub' \in SubStates /\ sub'.open = FALSE /\ sub'.current = sub.current + 1
      /\ sub'.chunk = NoAllocator /\ sub'.completed = sub.completed /\ sub'.direct = FALSE
      /\ sub'.direct_last = sub.direct_last
  <2>1. sub.current + 1 \in Nat \ {0}
    BY <1>1 DEF SubStates
  <2>2. sub' = [sub EXCEPT !.open = FALSE, !.current = sub.current + 1, !.chunk = NoAllocator,
                           !.direct = FALSE]
    BY DEF EndBooks
  <2> QED BY <1>1, <2>1, <2>2 DEF SubStates
<1>3. cp' \in CpStates /\ cp'.pc = "end_close" /\ ~HandedOver' /\ HandedOver
  BY <1>1, GotoState DEF EndBooks, CpPcs, HandedOver
<1>4. /\ n \in Nat /\ sub.current \in Nat \ {0} /\ env.gpu \in Nat /\ env.gpu <= n
      /\ \A i \in 1 .. n : queue[i].value \in Nat /\ job.fence_value \in Nat
  BY <1>1, QueueTypes
<1>5. pools' \in PoolStates
  <2>1. sub.chunk = NoAllocator => pools.writable # <<>>
    BY <1>3 DEF IInv, PoolInv
  <2>2. UsedAllocator \in Allocators
    BY <1>1, <2>1 DEF UsedAllocator, SubStates, PoolStates
  <2>3. LeftWritable \in Seq(Allocators)
    BY <1>1, <2>1 DEF LeftWritable, PoolStates
  <2> DEFINE entry == [allocator |-> UsedAllocator, last |-> sub.current]
             entries == [allocator : Allocators, last : Nat]
  <2>4. entry \in entries
    BY <1>1, <2>2 DEF SubStates
  <2>5. pools' = [writable |-> LeftWritable, submitted |-> Append(pools.submitted, entry)]
    BY DEF EndBooks
  <2>6. pools.submitted \in Seq(entries)
    BY <1>1 DEF PoolStates
  <2> HIDE DEF entry, entries
  <2>7. Append(pools.submitted, entry) \in Seq(entries)
    BY <2>4, <2>6
  <2> QED BY <2>3, <2>5, <2>7 DEF PoolStates, entries
<1>6. Types'
  <2>1. FrameStates' = FrameStates
    BY <1>1 DEF FrameStates, QueueFrames, Profile
  <2> QED BY <1>1, <1>2, <1>3, <1>5, <2>1 DEF Types
<1>7. Broken' <=> Broken
  BY <1>1 DEF Broken
<1>8. SlotOwned' /\ LatchSettled' /\ PoolInv' /\ PcInv'
  BY <1>1, <1>2, <1>3 DEF IInv, SlotOwned, LatchSettled, PoolInv, PcInv, Flushed, Quiescing
<1>9. JobInv'
  <2>1. job.fence_value \in Nat
    BY <1>1, QueueTypes
  <2>2. (sub.chunk # NoAllocator => job.fence_value = sub.current /\ job.operation = "Finish")
    BY <1>3 DEF IInv, JobInv
  <2> QED BY <1>1, <1>2, <1>3, <1>4, <2>1, <2>2 DEF IInv, JobInv, FinalOperations
<1>10. CommandsInv'
  BY <1>1, <1>2, <1>7 DEF IInv, CommandsInv, ListIsStale, AllOf
<1>11. ASSUME NEW i \in 1 .. n, IsSignal(i) PROVE queue[i].value < sub.current + 1
  <2>1. queue[i].value < sub.current \/ queue[i].value = sub.current
    BY <1>11 DEF IInv, OrderInv
  <2> QED BY <1>4, <2>1
<1>12. OrderInv'
  <2> HIDE DEF n
  <2> QED BY <1>1, <1>2, <1>3, <1>7, <1>11 DEF IInv, OrderInv, IsSignal, AllOf, n
<1>13. FenceInv'
  BY <1>1, <1>2 DEF IInv, FenceInv, IsSignal
<1>14. DirectInv'
  <2>1. ASSUME NEW i \in 1 .. n, IsSpecial(i)
        PROVE  /\ \A j \in 1 .. i - 1 : IsSignal(j) => queue[j].value < sub'.current
               /\ sub'.current > 1
               /\ \A j \in 1 .. i - 1 : IsSignal(j) => queue[j].value < sub'.current - 1
    <3>1. \A j \in 1 .. i - 1 : j \in 1 .. n
      BY <1>4
    <3>2. \A j \in 1 .. i - 1 : IsSignal(j) => queue[j].value < sub.current
      BY <2>1 DEF IInv, DirectInv
    <3>3. sub'.current - 1 = sub.current /\ sub'.current > 1
      BY <1>2, <1>4
    <3>4. ASSUME NEW j \in 1 .. i - 1, IsSignal(j)
          PROVE  queue[j].value < sub.current /\ queue[j].value < sub'.current
      BY <1>2, <1>4, <3>1, <3>2, <3>4
    <3> QED BY <3>3, <3>4
  <2>2. ASSUME NEW i \in 1 .. n, queue[i].kind = "direct" PROVE queue[i].value <= sub'.current
    BY <1>2, <1>4, <2>2 DEF IInv, DirectInv
  <2> HIDE DEF n
  <2> QED BY <1>1, <1>2, <1>3, <2>1, <2>2 DEF IInv, DirectInv, IsSignal, IsSpecial, n
<1> QED BY <1>6, <1>8, <1>9, <1>10, <1>12, <1>13, <1>14 DEF IInv

(* The CP replays the submission itself: its list and its value together.  *)
LEMMA EndReplayKeeps == ASSUME IInv, EndReplay PROVE IInv'
<1> DEFINE n == Len(queue)
           x == ExecuteEntry(source, Head(pools.writable))
           e == SignalEntry(sub.current)
<1>1. /\ Types /\ cp.pc = "end_replay" /\ sub \in SubStates /\ pools \in PoolStates
      /\ UNCHANGED <<state, session_active, job, wpc, whr, result, stream, source, list>>
      /\ UNCHANGED <<frames, pools, sub>> /\ env \in EnvStates /\ source \in Seq(Commands)
      /\ sub.open /\ sub.chunk = NoAllocator /\ cp.pc \in Flushed
  BY DEF IInv, Types, PcInv, EndReplay, At, slotVars, Flushed
<1>2. cp' \in CpStates /\ cp'.pc = "end_books" /\ HandedOver' /\ ~HandedOver
  BY <1>1, GotoState DEF EndReplay, HandedOver, CpPcs
<1>3. /\ state = "Idle" /\ wpc \notin ExecutePCs /\ ~Failed(result) /\ ~Broken
      /\ \A i \in 1 .. n : IsSignal(i) => queue[i].value < sub.current
      /\ \A i \in 1 .. n : queue[i].kind = "execute" => i < n /\ IsSignal(i + 1)
  BY <1>1, NothingUnderway
<1>4. /\ n \in Nat /\ sub.current \in Nat \ {0} /\ env.gpu \in Nat /\ env.gpu <= n
      /\ sub.direct_last \in Nat
      /\ \A i \in 1 .. n : queue[i].value \in Nat
  BY <1>1, QueueTypes
<1>5. PcInv' /\ PoolInv' /\ SlotOwned' /\ LatchSettled' /\ (Broken' <=> Broken)
  BY <1>1, <1>2, <1>3 DEF IInv, PcInv, PoolInv, SlotOwned, LatchSettled, Broken, Flushed, Quiescing
<1>6. JobInv'
  BY <1>1, <1>2, <1>3 DEF IInv, JobInv, ExecutePCs
<1>7. CommandsInv'
  BY <1>1, <1>2, <1>3 DEF IInv, CommandsInv, ListIsStale, AllOf, ExecutePCs, Broken
<1>8. AllOf(source, sub.current)
  BY <1>1, <1>2, <1>3 DEF IInv, CommandsInv
<1>9. CASE UNCHANGED queue /\ env' = [env EXCEPT !.removed = TRUE]
  <2>1. env' \in EnvStates /\ env'.gpu = env.gpu /\ env'.profile = env.profile
    BY <1>1, <1>9 DEF EnvStates
  <2>2. Types'
    <3>1. FrameStates' = FrameStates
      BY <2>1 DEF FrameStates, QueueFrames, Profile
    <3> QED BY <1>1, <1>2, <1>9, <2>1, <3>1 DEF Types
  <2>3. OrderInv'
    BY <1>1, <1>2, <1>3, <1>5, <1>9 DEF IInv, OrderInv, IsSignal, AllOf
  <2>4. DirectInv'
    BY <1>1, <1>2, <1>9, <2>1 DEF IInv, DirectInv, IsSignal, IsSpecial
  <2>5. FenceInv'
    BY <1>1, <1>9, <2>1 DEF IInv, FenceInv, IsSignal
  <2> QED BY <1>5, <1>6, <1>7, <2>2, <2>3, <2>4, <2>5 DEF IInv
<1>10. CASE queue' = queue \o <<x, e>> /\ UNCHANGED env
  <2>1. Head(pools.writable) \in Allocators
    BY <1>1 DEF IInv, PoolInv, PoolStates
  <2>2. x \in Entries /\ x.kind = "execute" /\ x.commands = source
    BY <1>1, <2>1 DEF ExecuteEntry, Entries
  <2>3. e \in Entries /\ e.kind = "signal" /\ e.value = sub.current
    <3>1. <<>> \in Seq(Commands)
      OBVIOUS
    <3> QED BY <1>1, <3>1 DEF SignalEntry, Entries, SubStates
  <2> HIDE DEF x, e
  <2>4. /\ Len(queue') = n + 2 /\ queue' \in Seq(Entries)
        /\ \A i \in 1 .. n : queue'[i] = queue[i]
        /\ queue'[n + 1] = x /\ queue'[n + 2] = e
    <3>1. <<x, e>> \in Seq(Entries) /\ Len(<<x, e>>) = 2 /\ <<x, e>>[1] = x /\ <<x, e>>[2] = e
      BY <2>2, <2>3
    <3>2. queue \in Seq(Entries)
      BY <1>1 DEF Types
    <3> QED BY <1>4, <1>10, <3>1, <3>2, ConcatProperties
  <2> HIDE DEF n
  <2>5. Types'
    <3>1. FrameStates' = FrameStates
      BY <1>10 DEF FrameStates, QueueFrames, Profile
    <3>2. env'.gpu <= Len(queue')
      BY <1>4, <1>10, <2>4
    <3> QED BY <1>1, <1>2, <1>10, <2>4, <3>1, <3>2 DEF Types
  <2>6. ASSUME NEW i \in 1 .. n + 2
        PROVE  i \in 1 .. n \/ i = n + 1 \/ i = n + 2
    BY <1>4
  <2>7. ASSUME NEW i \in 1 .. n, queue[i].kind = "signal"
        PROVE  /\ queue[i].value > 0 /\ i > 1 /\ queue[i - 1].kind = "execute" /\ i - 1 \in 1 .. n
               /\ AllOf(queue[i - 1].commands, queue[i].value)
               /\ \A j \in 1 .. i - 1 : j \in 1 .. n
                    /\ (queue[j].kind = "signal" => queue[j].value < queue[i].value)
    <3>1. /\ queue[i].value > 0 /\ i > 1 /\ queue[i - 1].kind = "execute"
          /\ AllOf(queue[i - 1].commands, queue[i].value)
          /\ \A j \in 1 .. i - 1 : (queue[j].kind = "signal" => queue[j].value < queue[i].value)
      BY <2>7 DEF IInv, OrderInv, IsSignal, n
    <3> QED BY <1>4, <3>1
  <2>8. ASSUME NEW i \in 1 .. n + 2, queue'[i].kind = "signal"
        PROVE  /\ queue'[i].value > 0 /\ i > 1 /\ queue'[i - 1].kind = "execute"
               /\ AllOf(queue'[i - 1].commands, queue'[i].value)
               /\ \A j \in 1 .. i - 1 : queue'[j].kind = "signal" => queue'[j].value < queue'[i].value
               /\ queue'[i].value < sub.current \/ queue'[i].value = sub.current
    <3>1. CASE i \in 1 .. n
      BY <1>3, <2>4, <2>7, <2>8, <3>1 DEF IsSignal
    <3>2. CASE i = n + 2
      <4>1. ASSUME NEW j \in 1 .. i - 1, queue'[j].kind = "signal"
            PROVE  queue'[j].value < sub.current
        <5>1. j \in 1 .. n \/ j = n + 1
          BY <1>4, <3>2
        <5> QED BY <1>3, <2>2, <2>4, <4>1, <5>1 DEF IsSignal
      <4>2. i - 1 = n + 1 /\ i > 1
        BY <1>4, <3>2
      <4> QED BY <1>4, <1>8, <2>2, <2>3, <2>4, <3>2, <4>1, <4>2
    <3> QED BY <2>2, <2>4, <2>6, <2>8, <3>1, <3>2
  <2>9. ASSUME NEW i \in 1 .. n + 2, queue'[i].kind = "execute"
        PROVE  i < n + 2 /\ queue'[i + 1].kind = "signal"
    <3>1. CASE i \in 1 .. n
      <4>1. i < n /\ queue[i + 1].kind = "signal" /\ i + 1 \in 1 .. n
        BY <1>3, <1>4, <2>4, <2>9, <3>1 DEF IsSignal
      <4> QED BY <1>4, <2>4, <4>1
    <3>2. CASE i = n + 1
      BY <1>4, <2>3, <2>4, <3>2
    <3> QED BY <2>3, <2>4, <2>6, <2>9, <3>1, <3>2
  <2>10. wpc' # "signal" /\ ~(state' = "Queued" \/ wpc' \in ExecutePCs \ {"store_result", "publish"})
    BY <1>1, <1>3 DEF ExecutePCs
  <2>11. OrderInv'
    BY <1>1, <1>2, <1>3, <1>5, <2>4, <2>8, <2>9, <2>10 DEF OrderInv, IsSignal, AllOf
  <2>12. ASSUME NEW i \in 1 .. n + 2, queue'[i].kind \in {"direct", "direct_signal"}
         PROVE  /\ i \in 1 .. n /\ queue'[i] = queue[i]
                /\ \A j \in 1 .. i - 1 : j \in 1 .. n /\ queue'[j] = queue[j]
    <3>1. i \in 1 .. n
      BY <2>2, <2>3, <2>4, <2>6, <2>12
    <3> QED BY <1>4, <2>4, <3>1
  <2>13. ASSUME NEW i \in 1 .. n + 2, queue'[i].kind = "direct", NEW j \in 1 .. n + 2,
                queue'[j].kind = "signal"
         PROVE  j < i <=> queue'[j].value < queue'[i].value
    <3>1. i \in 1 .. n /\ queue'[i] = queue[i]
      BY <2>12, <2>13
    <3>2. queue[i].value <= sub.current
      BY <2>13, <3>1 DEF IInv, DirectInv, n
    <3>3. CASE j \in 1 .. n
      BY <2>4, <2>13, <3>1, <3>3 DEF IInv, DirectInv, IsSignal, n
    <3>4. CASE j = n + 2
      BY <1>4, <2>3, <2>4, <3>1, <3>2, <3>4
    <3> QED BY <2>2, <2>4, <2>6, <2>13, <3>3, <3>4
  <2>14. DirectInv'
    BY <1>1, <1>2, <1>10, <2>4, <2>10, <2>12, <2>13, SMTT(30)
       DEF IInv, DirectInv, IsSignal, IsSpecial, n
  <2>15. FenceInv'
    <3>1. \A i \in 1 .. env.gpu : i \in 1 .. n
      BY <1>4
    <3> QED BY <1>1, <1>10, <2>4, <3>1 DEF IInv, FenceInv, IsSignal
  <2> QED BY <1>5, <1>6, <1>7, <2>5, <2>11, <2>14, <2>15 DEF IInv
<1> QED BY <1>9, <1>10 DEF EndReplay

-----------------------------------------------------------------------------
(* The worker.                                                             *)

OwnerStill == UNCHANGED <<cp, sub, frames, pools, worker, env, source>>

(* While the worker executes a job, that job is the last submission and    *)
(* nothing of it has been signalled.                                       *)
LEMMA ExecutingFacts ==
  ASSUME IInv, wpc \in ExecutePCs \ {"store_result", "publish"}
  PROVE  /\ state = "Running" /\ ~Failed(result) /\ ~Broken
         /\ cp.pc \notin Flushed /\ ~Quiescing
         /\ job.fence_value \in Nat /\ job.fence_value > 0 /\ sub.current \in Nat
         /\ job.fence_value <= sub.current
         /\ \A i \in 1 .. Len(queue) : IsSignal(i) => queue[i].value < job.fence_value
         /\ \A i \in 1 .. Len(queue) : queue[i].kind = "direct" => queue[i].value <= job.fence_value
         /\ wpc # "signal" => \A i \in 1 .. Len(queue) :
              queue[i].kind = "execute" => i < Len(queue) /\ IsSignal(i + 1)
<1>1. state = "Running" /\ ~Failed(result)
  BY DEF IInv, SlotOwned, LatchSettled
<1>2. ~Broken
  BY <1>1 DEF Broken, ExecutePCs
<1>3. cp.pc \notin Flushed /\ ~Quiescing
  BY DEF IInv, PcInv
<1>4. job.fence_value \in Nat /\ sub.current \in Nat \ {0} /\ job.fence_value > 0
  BY <1>1, QueueTypes DEF IInv, JobInv
<1>5. job.fence_value <= sub.current
  BY <1>1, <1>4 DEF IInv, JobInv
<1> QED BY <1>1, <1>2, <1>3, <1>4, <1>5 DEF IInv, OrderInv, DirectInv

(* A step that executes a part of the job and does not reach the queue. *)
Executes ==
  /\ wpc \in ExecutePCs \ {"execute", "store_result", "publish"} /\ OwnerStill
  /\ UNCHANGED <<state, session_active, result, job, stream, queue>>
  /\ list' \in [allocator : Allocators \union {NoAllocator}, commands : Seq(Commands), open : BOOLEAN]
  /\ whr' \in HResults
  /\ wpc' \in {"reset_list", "replay", "close", "execute", "store_result"}
  /\ wpc' = "store_result" /\ ~Failed(whr') => wpc # "signal"
  /\ wpc = "signal" => wpc' = "store_result"
  /\ wpc' \in {"close", "execute"} => job.operation \in FinalOperations
  /\ wpc' = "reset_list" => wpc = "reset_allocator" /\ list' = list
  /\ wpc' = "replay" => wpc = "reset_list"
  /\ wpc' \in {"replay", "close", "execute"} \/ (wpc' = "store_result" /\ ~Failed(whr'))
       => AllOf(list'.commands, job.fence_value)

LEMMA ExecutesKeeps == ASSUME IInv, Executes PROVE IInv'
<1> USE DEF Executes, OwnerStill
<1>1. wpc \in ExecutePCs \ {"store_result", "publish"}
  OBVIOUS
<1>2. /\ state = "Running" /\ ~Failed(result) /\ ~Broken
      /\ cp.pc \notin Flushed /\ ~Quiescing
      /\ job.fence_value \in Nat /\ job.fence_value > 0 /\ sub.current \in Nat
      /\ job.fence_value <= sub.current
      /\ \A i \in 1 .. Len(queue) : IsSignal(i) => queue[i].value < job.fence_value
      /\ \A i \in 1 .. Len(queue) : queue[i].kind = "direct" => queue[i].value <= job.fence_value
      /\ wpc # "signal" => \A i \in 1 .. Len(queue) :
           queue[i].kind = "execute" => i < Len(queue) /\ IsSignal(i + 1)
  BY <1>1, ExecutingFacts
<1>3. wpc' \in ExecutePCs /\ wpc' # "signal" /\ wpc' # "publish"
  BY DEF ExecutePCs
<1>4. HandedOver' <=> HandedOver
  BY DEF HandedOver
<1>5. Types'
  <2>1. FrameStates' = FrameStates
    BY DEF FrameStates, QueueFrames, Profile
  <2> QED BY <1>3, <2>1 DEF IInv, Types
<1>6. SlotOwned' /\ LatchSettled'
  BY <1>2, <1>3 DEF SlotOwned, LatchSettled
<1>7. PcInv' /\ PoolInv'
  BY <1>2, <1>4 DEF IInv, PcInv, PoolInv, Quiescing
<1>8. JobInv'
  BY <1>2, <1>4 DEF IInv, JobInv
<1>9. Broken' <=> wpc' = "store_result" /\ Failed(whr')
  BY <1>2 DEF Broken
<1>10. CommandsInv'
  <2>1. sub'.open /\ ~HandedOver' /\ cp'.pc # "notify" /\ ~Failed(result') =>
          AllOf(source', sub'.current)
    BY <1>4 DEF IInv, CommandsInv
  <2>2. state' = "Queued" \/ wpc' \in {"reset_allocator", "reset_list", "replay"} =>
          AllOf(stream', job'.fence_value)
    BY <1>2 DEF IInv, CommandsInv
  <2>3. wpc' \in {"replay", "close", "execute", "signal"} => AllOf(list'.commands, job'.fence_value)
    OBVIOUS
  <2>4. session_active' /\ ~Broken' /\ ~ListIsStale' => AllOf(list'.commands, job'.fence_value)
    <3>1. CASE wpc' = "reset_list"
      BY <1>2, <3>1 DEF IInv, CommandsInv, ListIsStale
    <3>2. CASE wpc' # "reset_list"
      BY <1>9, <3>2
    <3> QED BY <3>1, <3>2
  <2> QED BY <2>1, <2>2, <2>3, <2>4 DEF CommandsInv, AllOf
<1>11. \A i \in 1 .. Len(queue) : IsSignal(i) => queue[i].value < sub.current
  BY <1>2, QueueTypes DEF IInv
<1>12. OrderInv'
  BY <1>2, <1>3, <1>4, <1>9, <1>11 DEF IInv, OrderInv, IsSignal, AllOf
<1>13. DirectInv'
  BY <1>2, <1>3, <1>4 DEF IInv, DirectInv, IsSignal, IsSpecial
<1>14. FenceInv'
  BY DEF IInv, FenceInv, IsSignal
<1> QED BY <1>5, <1>6, <1>7, <1>8, <1>10, <1>12, <1>13, <1>14 DEF IInv

LEMMA ExecuteJobKeeps ==
  ASSUME IInv, OwnerStill, ResetAllocator \/ ResetList \/ Replay \/ Close
  PROVE  IInv'
<1>1. /\ Types /\ job \in Jobs /\ stream \in Seq(Commands)
      /\ list \in [allocator : Allocators \union {NoAllocator}, commands : Seq(Commands), open : BOOLEAN]
      /\ {"S_OK", "E_FAIL"} = HResults /\ whr \in HResults
      /\ list.commands \in Seq(Commands)
  BY DEF IInv, Types, HResults
<1>2. UNCHANGED <<state, session_active, result, job, stream, queue>>
  BY DEF ResetAllocator, ResetList, Replay, Close, slotVars
<1>3. CASE ResetAllocator
  BY <1>1, <1>2, <1>3, ExecutesKeeps DEF ResetAllocator, Finishes, Executes, ExecutePCs, Failed
<1>4. CASE ResetList
  <2>1. <<>> \in Seq(Commands)
    OBVIOUS
  <2>2. wpc = "reset_list"
    BY <1>4 DEF ResetList
  <2>3. CASE list' = list /\ wpc' = "store_result" /\ whr' = "E_FAIL"
    BY <1>1, <1>2, <2>2, <2>3, ExecutesKeeps DEF Executes, ExecutePCs, Failed
  <2>4. CASE /\ list' = [allocator |-> job.allocator, commands |-> <<>>, open |-> TRUE]
             /\ wpc' = "replay" /\ whr' = whr
    <3>1. list' \in [allocator : Allocators \union {NoAllocator}, commands : Seq(Commands),
                     open : BOOLEAN]
      BY <1>1, <2>1, <2>4 DEF Jobs
    <3>2. AllOf(list'.commands, job.fence_value)
      BY <2>4, AllOfEmpty
    <3> QED BY <1>1, <1>2, <2>2, <2>4, <3>1, <3>2, ExecutesKeeps DEF Executes, ExecutePCs
  <2> QED BY <1>1, <1>4, <2>3, <2>4 DEF ResetList, Finishes, Failed
<1>5. CASE Replay
  <2>1. wpc = "replay" /\ AllOf(stream, job.fence_value) /\ AllOf(list.commands, job.fence_value)
    BY <1>5 DEF Replay, IInv, CommandsInv
  <2>2. CASE /\ list' = [list EXCEPT !.commands = list.commands \o stream]
             /\ IF job.operation \in {"Begin", "Append"}
                THEN wpc' = "store_result" /\ whr' = "S_OK" ELSE wpc' = "close" /\ whr' = whr
    <3>1. list.commands \o stream \in Seq(Commands)
      BY <1>1, ConcatProperties
    <3>2. AllOf(list.commands \o stream, job.fence_value)
      BY <1>1, <2>1, AllOfConcat
    <3> DEFINE longer == list.commands \o stream
    <3> HIDE DEF longer
    <3>3. /\ list' \in [allocator : Allocators \union {NoAllocator}, commands : Seq(Commands),
                        open : BOOLEAN]
          /\ list'.commands = longer
      BY <1>1, <2>2, <3>1 DEF longer
    <3>4. AllOf(list'.commands, job.fence_value)
      BY <3>2, <3>3 DEF longer
    <3>5. job.operation \notin {"Begin", "Append"} => job.operation \in FinalOperations
      BY <1>1 DEF Jobs, Operations, FinalOperations
    <3> QED BY <1>1, <1>2, <2>1, <2>2, <3>3, <3>4, <3>5, ExecutesKeeps DEF Executes, ExecutePCs
  <2>3. ASSUME NEW n \in 0 .. Len(stream),
               list' = [list EXCEPT !.commands = list.commands \o SubSeq(stream, 1, n)],
               wpc' = "store_result", whr' = "E_FAIL"
        PROVE  IInv'
    <3> DEFINE longer == list.commands \o SubSeq(stream, 1, n)
    <3>1. longer \in Seq(Commands)
      <4>1. \A i \in 1 .. n : stream[i] \in Commands
        BY <1>1
      <4>2. SubSeq(stream, 1, n) \in Seq(Commands)
        BY <4>1, SubSeqProperties
      <4> QED BY <1>1, <4>2, ConcatProperties
    <3>2. list' = [list EXCEPT !.commands = longer]
      BY <2>3
    <3> HIDE DEF longer
    <3>3. list' \in [allocator : Allocators \union {NoAllocator}, commands : Seq(Commands),
                     open : BOOLEAN]
      BY <1>1, <3>1, <3>2
    <3> QED BY <1>1, <1>2, <2>1, <2>3, <3>3, ExecutesKeeps DEF Executes, ExecutePCs, Failed
  <2> QED BY <1>5, <2>2, <2>3 DEF Replay, Finishes
<1>6. CASE Close
  <2>1. wpc = "close" /\ AllOf(list.commands, job.fence_value) /\ job.operation \in FinalOperations
    BY <1>6 DEF Close, IInv, CommandsInv, JobInv
  <2>2. CASE list' = list /\ wpc' = "store_result" /\ whr' = "E_FAIL"
    BY <1>1, <1>2, <2>1, <2>2, ExecutesKeeps DEF Executes, ExecutePCs, Failed
  <2>3. CASE list' = [list EXCEPT !.open = FALSE] /\ wpc' = "execute" /\ whr' = whr
    <3>1. /\ list' \in [allocator : Allocators \union {NoAllocator}, commands : Seq(Commands),
                        open : BOOLEAN]
          /\ list'.commands = list.commands
      BY <1>1, <2>3
    <3> QED BY <1>1, <1>2, <2>1, <2>3, <3>1, ExecutesKeeps DEF Executes, ExecutePCs
  <2> QED BY <1>1, <1>6, <2>2, <2>3 DEF Close, Finishes, Failed
<1> QED BY <1>3, <1>4, <1>5, <1>6

(* Run takes the job, sleeps or leaves; a notified worker tests again.      *)
LEMMA RunKeeps == ASSUME IInv, OwnerStill, RunAcquire \/ RunWoken PROVE IInv'
<1> USE DEF OwnerStill
<1>1. /\ Types /\ UNCHANGED <<session_active, result, job, stream, list, whr, queue>>
      /\ wpc \in {"lock", "waiting"} /\ wpc \notin ExecutePCs
  BY DEF IInv, Types, RunAcquire, RunWoken, slotVars, ExecutePCs
<1>2. HandedOver' <=> HandedOver
  BY DEF HandedOver
<1>3. FrameStates' = FrameStates
  BY DEF FrameStates, QueueFrames, Profile
<1>4. CASE state' = state /\ wpc' \in {"exited", "waiting", "lock"}
  <2>1. wpc' \notin ExecutePCs /\ wpc' # "store_result" /\ wpc' # "signal"
    BY <1>4 DEF ExecutePCs
  <2>2. Types'
    BY <1>1, <1>3, <1>4 DEF Types
  <2>3. SlotOwned' /\ LatchSettled' /\ PcInv' /\ PoolInv' /\ JobInv' /\ (Broken' <=> Broken)
    BY <1>1, <1>2, <1>4, <2>1
    DEF IInv, SlotOwned, LatchSettled, PcInv, PoolInv, JobInv, Broken, Quiescing, ExecutePCs
  <2>4. CommandsInv'
    BY <1>1, <1>2, <1>4, <2>1, <2>3 DEF IInv, CommandsInv, ListIsStale, AllOf, ExecutePCs
  <2>5. OrderInv'
    BY <1>1, <1>2, <1>4, <2>1, <2>3 DEF IInv, OrderInv, IsSignal, AllOf, ExecutePCs
  <2>6. DirectInv' /\ FenceInv'
    BY <1>1, <1>2, <1>4, <2>1 DEF IInv, DirectInv, FenceInv, IsSignal, IsSpecial, ExecutePCs
  <2> QED BY <2>2, <2>3, <2>4, <2>5, <2>6 DEF IInv
<1>5. CASE /\ state = "Queued" /\ state' = "Running"
           /\ wpc' = IF job.operation \in {"Whole", "Begin"} THEN "reset_allocator" ELSE "replay"
  <2>1. wpc' \in ExecutePCs \ {"store_result", "publish", "close", "execute", "signal"}
    BY <1>5 DEF ExecutePCs
  <2>2. ~Failed(result) /\ ~Broken /\ ~Broken' /\ cp.pc \notin Flushed /\ ~Quiescing
    BY <1>1, <1>5, <2>1 DEF IInv, LatchSettled, PcInv, Broken, ExecutePCs
  <2>3. Types'
    BY <1>1, <1>3, <1>5, <2>1 DEF Types
  <2>4. SlotOwned' /\ LatchSettled' /\ PcInv' /\ PoolInv' /\ JobInv'
    BY <1>1, <1>2, <1>5, <2>1, <2>2
    DEF IInv, SlotOwned, LatchSettled, PcInv, PoolInv, JobInv, Quiescing
  <2>5. ListIsStale' <=> ListIsStale
    BY <1>1, <1>5, <2>1 DEF ListIsStale, ExecutePCs
  <2>6. job.operation \notin {"Whole", "Begin"} => AllOf(list.commands, job.fence_value)
    BY <1>1, <1>5, <2>2 DEF IInv, JobInv, CommandsInv, ListIsStale
  <2>7. CommandsInv'
    BY <1>1, <1>2, <1>5, <2>1, <2>2, <2>5, <2>6 DEF IInv, CommandsInv, AllOf
  <2>8. OrderInv'
    BY <1>1, <1>2, <1>5, <2>1, <2>2 DEF IInv, OrderInv, IsSignal, AllOf, ExecutePCs
  <2>9. DirectInv' /\ FenceInv'
    BY <1>1, <1>2, <1>5, <2>1 DEF IInv, DirectInv, FenceInv, IsSignal, IsSpecial, ExecutePCs
  <2> QED BY <2>3, <2>4, <2>7, <2>8, <2>9 DEF IInv
<1> QED BY <1>4, <1>5 DEF RunAcquire, RunWoken, slotVars

(* The release store of the result, then its publication. *)
LEMMA ResultKeeps == ASSUME IInv, OwnerStill, StoreResult \/ Publish PROVE IInv'
<1> USE DEF OwnerStill
<1>1. /\ Types /\ UNCHANGED <<session_active, stream, list, queue>>
      /\ job \in Jobs /\ whr \in HResults /\ result \in HResults
      /\ wpc \in ExecutePCs /\ wpc \in {"store_result", "publish"} /\ state = "Running"
  BY DEF IInv, Types, SlotOwned, StoreResult, Publish, ExecutePCs
<1>2. HandedOver' <=> HandedOver
  BY DEF HandedOver
<1>3. FrameStates' = FrameStates
  BY DEF FrameStates, QueueFrames, Profile
<1>4. job' \in Jobs /\ job'.operation = job.operation /\ job'.fence_value = job.fence_value
  BY <1>1 DEF Jobs, StoreResult, Publish
<1>5. Types'
  BY <1>1, <1>3, <1>4 DEF Types, StoreResult, Publish, ExecutePCs, HResults
<1>6. SlotOwned' /\ LatchSettled'
  BY <1>1 DEF IInv, SlotOwned, LatchSettled, StoreResult, Publish, ExecutePCs
<1>7. cp.pc \notin Flushed /\ ~Quiescing
  BY <1>1 DEF IInv, PcInv
<1>8. (Broken' <=> Broken) /\ (Failed(result) => Failed(result'))
  BY <1>1 DEF IInv, LatchSettled, Broken, StoreResult, Publish, Failed, ExecutePCs
<1>9. state' # "Queued" /\ state' # "Idle" /\ wpc' \notin ExecutePCs \ {"publish"}
  BY <1>1 DEF StoreResult, Publish, ExecutePCs
<1>10. PcInv' /\ PoolInv'
  BY <1>1, <1>2, <1>7 DEF IInv, PcInv, PoolInv, Quiescing
<1>11. JobInv'
  <2>1. state' \in {"Queued", "Running"} => state' = state
    BY <1>1, <1>9
  <2> QED BY <1>1, <1>2, <1>4, <1>8, <1>9, <2>1 DEF IInv, JobInv, ExecutePCs
<1>12. CommandsInv'
  BY <1>1, <1>2, <1>4, <1>8, <1>9 DEF IInv, CommandsInv, ListIsStale, AllOf, ExecutePCs
<1>13. wpc # "signal" /\ wpc' # "signal"
  BY <1>1, <1>9 DEF ExecutePCs
<1>14. OrderInv'
  BY <1>1, <1>2, <1>4, <1>8, <1>9, <1>13 DEF IInv, OrderInv, IsSignal, AllOf
<1>15. DirectInv' /\ FenceInv'
  BY <1>1, <1>2, <1>4, <1>9 DEF IInv, DirectInv, FenceInv, IsSignal, IsSpecial
<1> QED BY <1>5, <1>6, <1>10, <1>11, <1>12, <1>14, <1>15 DEF IInv

(* ExecuteCommandLists: the list of the last submission is the last entry.  *)
LEMMA ExecuteKeeps == ASSUME IInv, OwnerStill, Execute PROVE IInv'
<1> USE DEF OwnerStill
<1> DEFINE n == Len(queue)
           e == ExecuteEntry(list.commands, list.allocator)
<1>1. /\ Types /\ wpc = "execute" /\ wpc' = "signal" /\ wpc \in ExecutePCs /\ wpc' \in ExecutePCs
      /\ UNCHANGED <<state, session_active, result, job, stream, list, whr>>
      /\ list.commands \in Seq(Commands) /\ list.allocator \in Allocators \union {NoAllocator}
  BY DEF IInv, Types, Execute, slotVars, ExecutePCs
<1>2. /\ state = "Running" /\ ~Failed(result) /\ ~Broken /\ ~Broken'
      /\ cp.pc \notin Flushed /\ ~Quiescing
      /\ job.fence_value \in Nat /\ job.fence_value > 0 /\ sub.current \in Nat
      /\ job.fence_value <= sub.current
      /\ \A i \in 1 .. Len(queue) : IsSignal(i) => queue[i].value < job.fence_value
      /\ \A i \in 1 .. Len(queue) : queue[i].kind = "direct" => queue[i].value <= job.fence_value
      /\ \A i \in 1 .. Len(queue) : queue[i].kind = "execute" => i < Len(queue) /\ IsSignal(i + 1)
  <2>1. wpc \in ExecutePCs \ {"store_result", "publish"} /\ wpc # "signal"
    BY <1>1 DEF ExecutePCs
  <2>2. ~Failed(result)
    BY <2>1, ExecutingFacts
  <2>3. ~Broken'
    BY <1>1, <2>2 DEF Broken
  <2> QED BY <2>1, <2>3, ExecutingFacts
<1>3. AllOf(list.commands, job.fence_value) /\ job.operation \in FinalOperations
  BY <1>1 DEF IInv, CommandsInv, JobInv
<1>4. e \in Entries /\ e.kind = "execute" /\ e.commands = list.commands
  BY <1>1 DEF ExecuteEntry, Entries
<1>5. queue' = Append(queue, e)
  BY DEF Execute
<1> HIDE DEF e
<1>6. /\ n \in Nat /\ Len(queue') = n + 1 /\ queue' \in Seq(Entries)
      /\ \A i \in 1 .. n : queue'[i] = queue[i]
      /\ queue'[n + 1] = e
  BY <1>1, <1>4, <1>5, QueueGrows
<1>7. /\ env.gpu \in Nat /\ env.gpu <= n /\ \A i \in 1 .. n : queue[i].value \in Nat
  BY <1>1, QueueTypes
<1>8. HandedOver' <=> HandedOver
  BY DEF HandedOver
<1>9. Types'
  <2>1. FrameStates' = FrameStates
    BY DEF FrameStates, QueueFrames, Profile
  <2>2. env'.gpu <= Len(queue')
    BY <1>6, <1>7
  <2> QED BY <1>1, <1>6, <2>1, <2>2 DEF Types
<1>10. SlotOwned' /\ LatchSettled' /\ PcInv' /\ PoolInv' /\ JobInv'
  BY <1>1, <1>2, <1>3, <1>8 DEF IInv, SlotOwned, LatchSettled, PcInv, PoolInv, JobInv, Quiescing
<1>11. CommandsInv'
  BY <1>1, <1>2, <1>3, <1>8 DEF IInv, CommandsInv, AllOf
<1> HIDE DEF n
<1>12. ASSUME NEW i \in 1 .. n + 1 PROVE i \in 1 .. n \/ i = n + 1
  BY <1>6
<1>13. ASSUME NEW i \in 1 .. n + 1, queue'[i].kind # "execute"
       PROVE  /\ i \in 1 .. n /\ queue'[i] = queue[i]
              /\ \A j \in 1 .. i - 1 : j \in 1 .. n /\ queue'[j] = queue[j]
              /\ i > 1 => i - 1 \in 1 .. i - 1
  <2>1. i \in 1 .. n
    BY <1>4, <1>6, <1>12, <1>13
  <2> QED BY <1>6, <2>1
<1>14. OrderInv'
  <2>1. ASSUME NEW i \in 1 .. n + 1, queue'[i].kind = "signal"
        PROVE  /\ queue'[i].value > 0 /\ i > 1 /\ queue'[i - 1].kind = "execute"
               /\ AllOf(queue'[i - 1].commands, queue'[i].value)
               /\ \A j \in 1 .. i - 1 : queue'[j].kind = "signal" => queue'[j].value < queue'[i].value
               /\ queue'[i].value < sub.current \/ (queue'[i].value = sub.current /\ HandedOver)
               /\ queue'[i].value < job.fence_value
    BY <1>2, <1>13, <2>1, ZenonT(60) DEF IInv, OrderInv, IsSignal, n
  <2>2. ASSUME NEW i \in 1 .. n + 1, queue'[i].kind = "execute", i # n + 1
        PROVE  i < n + 1 /\ queue'[i + 1].kind = "signal"
    <3>1. i \in 1 .. n
      BY <1>12, <2>2
    <3>2. i < n /\ queue[i + 1].kind = "signal" /\ i + 1 \in 1 .. n
      BY <1>2, <1>6, <2>2, <3>1 DEF IsSignal, n
    <3> QED BY <1>6, <3>1, <3>2
  <2>3. Len(queue') > 0
    BY <1>6
  <2> QED BY <1>1, <1>2, <1>3, <1>4, <1>6, <1>8, <2>1, <2>2, <2>3 DEF OrderInv, IsSignal, AllOf
<1>15. DirectInv'
  <2>1. ASSUME NEW i \in 1 .. n + 1, queue'[i].kind = "direct", NEW j \in 1 .. n + 1,
               queue'[j].kind = "signal"
        PROVE  j < i <=> queue'[j].value < queue'[i].value
    <3>1. i \in 1 .. n /\ queue'[i] = queue[i] /\ j \in 1 .. n /\ queue'[j] = queue[j]
      BY <1>13, <2>1
    <3> QED BY <2>1, <3>1 DEF IInv, DirectInv, IsSignal, n
  <2>2. cp.pc # "fence_direct_wait"
    BY <1>2 DEF Flushed
  <2>3. ASSUME NEW i \in 1 .. n + 1, queue'[i].kind = "direct"
        PROVE  queue'[i].value <= sub.current /\ queue'[i].value <= job.fence_value
    <3>1. i \in 1 .. n /\ queue'[i] = queue[i]
      BY <1>13, <2>3
    <3> QED BY <1>2, <2>3, <3>1 DEF IInv, DirectInv, n
  <2>4. ASSUME NEW i \in 1 .. n + 1, queue'[i].kind = "direct_signal"
        PROVE  queue'[i].value <= sub.direct_last
    <3>1. i \in 1 .. n /\ queue'[i] = queue[i]
      BY <1>13, <2>4
    <3> QED BY <2>4, <3>1 DEF IInv, DirectInv, n
  <2>5. ASSUME NEW i \in 1 .. n + 1, queue'[i].kind \in {"direct", "direct_signal"}
        PROVE  /\ \A j \in 1 .. i - 1 : queue'[j].kind = "signal" => queue'[j].value < sub.current
               /\ ~sub.direct =>
                    \/ i <= env.gpu
                    \/ sub.current > 1
                       /\ \A j \in 1 .. i - 1 :
                            queue'[j].kind = "signal" => queue'[j].value < sub.current - 1
    <3>1. queue'[i].kind # "execute"
      BY <2>5
    <3>2. /\ i \in 1 .. n /\ queue'[i] = queue[i]
          /\ \A j \in 1 .. i - 1 : j \in 1 .. n /\ queue'[j] = queue[j]
      BY <1>13, <3>1
    <3> QED BY <2>5, <3>2 DEF IInv, DirectInv, IsSignal, IsSpecial, n
  <2> QED BY <1>1, <1>6, <2>1, <2>2, <2>3, <2>4, <2>5 DEF DirectInv, IsSignal, IsSpecial
<1>16. FenceInv'
  <2>1. \A i \in 1 .. env.gpu : i \in 1 .. n
    BY <1>6, <1>7
  <2> QED BY <1>6, <2>1 DEF IInv, FenceInv, IsSignal
<1> QED BY <1>9, <1>10, <1>11, <1>14, <1>15, <1>16 DEF IInv

(* Signal after the list it belongs to, or the failure of the call. *)
LEMMA SignalKeeps == ASSUME IInv, OwnerStill, Signal PROVE IInv'
<1> USE DEF OwnerStill
<1> DEFINE n == Len(queue)
           e == SignalEntry(job.fence_value)
<1>1. /\ Types /\ wpc = "signal" /\ wpc' = "store_result" /\ whr' \in HResults
      /\ wpc \in ExecutePCs \ {"store_result", "publish"} /\ wpc' \in ExecutePCs
      /\ UNCHANGED <<state, session_active, result, job, stream, list>>
  BY DEF IInv, Types, Signal, Finishes, slotVars, ExecutePCs
<1>2. CASE Failed(whr') /\ queue' = queue
  <2>1. list \in [allocator : Allocators \union {NoAllocator}, commands : Seq(Commands), open : BOOLEAN]
    BY <1>1 DEF Types
  <2>2. Executes
    BY <1>1, <1>2, <2>1 DEF Executes, ExecutePCs
  <2> QED BY <2>2, ExecutesKeeps
<1>3. CASE ~Failed(whr') /\ queue' = Append(queue, e)
  <2>1. /\ state = "Running" /\ ~Failed(result) /\ ~Broken
        /\ cp.pc \notin Flushed /\ ~Quiescing
        /\ job.fence_value \in Nat /\ job.fence_value > 0 /\ sub.current \in Nat
        /\ job.fence_value <= sub.current
        /\ \A i \in 1 .. Len(queue) : IsSignal(i) => queue[i].value < job.fence_value
        /\ \A i \in 1 .. Len(queue) : queue[i].kind = "direct" => queue[i].value <= job.fence_value
    BY <1>1, ExecutingFacts
  <2>2. /\ AllOf(list.commands, job.fence_value) /\ job.operation \in FinalOperations
        /\ Len(queue) > 0 /\ queue[Len(queue)].kind = "execute"
        /\ AllOf(queue[Len(queue)].commands, job.fence_value)
        /\ \A i \in 1 .. Len(queue) : queue[i].kind = "execute" =>
             i = Len(queue) \/ (i < Len(queue) /\ IsSignal(i + 1))
    BY <1>1 DEF IInv, CommandsInv, JobInv, OrderInv
  <2>3. job.fence_value < sub.current \/ (job.fence_value = sub.current /\ HandedOver)
    BY <2>1, <2>2 DEF IInv, JobInv
  <2>4. e \in Entries /\ e.kind = "signal" /\ e.value = job.fence_value
    <3>1. <<>> \in Seq(Commands)
      OBVIOUS
    <3> QED BY <2>1, <3>1 DEF SignalEntry, Entries
  <2> HIDE DEF e
  <2>5. /\ n \in Nat /\ Len(queue') = n + 1 /\ queue' \in Seq(Entries)
        /\ \A i \in 1 .. n : queue'[i] = queue[i]
        /\ queue'[n + 1] = e
    BY <1>1, <1>3, <2>4, QueueGrows
  <2>6. env.gpu \in Nat /\ env.gpu <= n /\ \A i \in 1 .. n : queue[i].value \in Nat
    BY <1>1, QueueTypes
  <2>7. (HandedOver' <=> HandedOver) /\ ~Broken'
    BY <1>1, <1>3, <2>1 DEF HandedOver, Broken
  <2>8. Types'
    <3>1. FrameStates' = FrameStates
      BY DEF FrameStates, QueueFrames, Profile
    <3>2. env'.gpu <= Len(queue')
      BY <2>5, <2>6
    <3> QED BY <1>1, <2>5, <3>1, <3>2 DEF Types
  <2>9. SlotOwned' /\ LatchSettled' /\ PcInv' /\ PoolInv' /\ JobInv'
    BY <1>1, <2>1, <2>2, <2>7 DEF IInv, SlotOwned, LatchSettled, PcInv, PoolInv, JobInv, Quiescing
  <2>10. CommandsInv'
    BY <1>1, <2>1, <2>2, <2>7 DEF IInv, CommandsInv, AllOf
  <2> HIDE DEF n
  <2>11. ASSUME NEW i \in 1 .. n + 1 PROVE i \in 1 .. n \/ i = n + 1
    BY <2>5
  <2>12. ASSUME NEW i \in 1 .. n
         PROVE  /\ queue'[i] = queue[i]
                /\ \A j \in 1 .. i - 1 : j \in 1 .. n /\ queue'[j] = queue[j]
                /\ i > 1 => i - 1 \in 1 .. i - 1
    BY <2>5
  <2>13. ASSUME NEW i \in 1 .. n + 1, queue'[i].kind = "signal"
         PROVE  /\ queue'[i].value > 0 /\ i > 1 /\ queue'[i - 1].kind = "execute"
                /\ AllOf(queue'[i - 1].commands, queue'[i].value)
                /\ \A j \in 1 .. i - 1 : queue'[j].kind = "signal" => queue'[j].value < queue'[i].value
                /\ queue'[i].value < sub.current \/ (queue'[i].value = sub.current /\ HandedOver)
    <3>1. CASE i \in 1 .. n
      BY <2>1, <2>12, <2>13, <3>1 DEF IInv, OrderInv, IsSignal, n
    <3>2. CASE i = n + 1
      <4>1. n \in 1 .. n /\ i - 1 = n /\ i > 1 /\ \A j \in 1 .. i - 1 : j \in 1 .. n
        BY <2>2, <2>5, <3>2 DEF n
      <4> QED BY <2>1, <2>2, <2>3, <2>4, <2>5, <3>2, <4>1 DEF IsSignal, n
    <3> QED BY <2>11, <3>1, <3>2
  <2>14. ASSUME NEW i \in 1 .. n + 1, queue'[i].kind = "execute"
         PROVE  i < n + 1 /\ queue'[i + 1].kind = "signal"
    <3>1. i \in 1 .. n
      BY <2>4, <2>5, <2>11, <2>14
    <3>2. i = n \/ (i < n /\ queue[i + 1].kind = "signal" /\ i + 1 \in 1 .. n)
      BY <2>2, <2>5, <2>14, <3>1 DEF IsSignal, n
    <3> QED BY <2>4, <2>5, <3>1, <3>2
  <2>15. wpc' # "signal" /\ ~(state' = "Queued" \/ wpc' \in ExecutePCs \ {"store_result", "publish"})
    BY <1>1, <2>1
  <2>16. OrderInv'
    BY <1>1, <2>5, <2>7, <2>13, <2>14, <2>15 DEF OrderInv, IsSignal, AllOf
  <2>17. ASSUME NEW i \in 1 .. n + 1, queue'[i].kind \in {"direct", "direct_signal"}
         PROVE  /\ i \in 1 .. n /\ queue'[i] = queue[i]
                /\ \A j \in 1 .. i - 1 : j \in 1 .. n /\ queue'[j] = queue[j]
    BY <2>4, <2>5, <2>11, <2>12, <2>17
  <2>18. ASSUME NEW i \in 1 .. n + 1, queue'[i].kind = "direct", NEW j \in 1 .. n + 1,
                queue'[j].kind = "signal"
         PROVE  j < i <=> queue'[j].value < queue'[i].value
    <3>1. i \in 1 .. n /\ queue'[i] = queue[i]
      BY <2>17, <2>18
    <3>2. queue[i].value <= job.fence_value
      BY <2>1, <2>18, <3>1 DEF n
    <3>3. CASE j \in 1 .. n
      BY <2>5, <2>18, <3>1, <3>3 DEF IInv, DirectInv, IsSignal, n
    <3>4. CASE j = n + 1
      BY <2>1, <2>4, <2>5, <2>6, <3>1, <3>2, <3>4
    <3> QED BY <2>11, <3>3, <3>4
  <2>19. cp.pc # "fence_direct_wait"
    BY <2>1 DEF Flushed
  <2>20. ASSUME NEW i \in 1 .. n + 1, queue'[i].kind = "direct" PROVE queue'[i].value <= sub.current
    BY <2>17, <2>20 DEF IInv, DirectInv, n
  <2>21. ASSUME NEW i \in 1 .. n + 1, queue'[i].kind = "direct_signal"
         PROVE  queue'[i].value <= sub.direct_last
    BY <2>17, <2>21 DEF IInv, DirectInv, n
  <2>22. ASSUME NEW i \in 1 .. n + 1, queue'[i].kind \in {"direct", "direct_signal"}
         PROVE  /\ \A j \in 1 .. i - 1 : queue'[j].kind = "signal" => queue'[j].value < sub.current
                /\ ~sub.direct =>
                     \/ i <= env.gpu
                     \/ sub.current > 1
                        /\ \A j \in 1 .. i - 1 :
                             queue'[j].kind = "signal" => queue'[j].value < sub.current - 1
    BY <2>17, <2>22 DEF IInv, DirectInv, IsSignal, IsSpecial, n
  <2>23. DirectInv'
    BY <2>5, <2>15, <2>18, <2>19, <2>20, <2>21, <2>22 DEF DirectInv, IsSignal, IsSpecial
  <2>24. FenceInv'
    <3>1. \A i \in 1 .. env.gpu : i \in 1 .. n
      BY <2>5, <2>6
    <3> QED BY <2>5, <3>1 DEF IInv, FenceInv, IsSignal
  <2> QED BY <2>8, <2>9, <2>10, <2>16, <2>23, <2>24 DEF IInv
<1> QED BY <1>1, <1>2, <1>3 DEF Signal, Finishes

(* A step of the GPU, or the removal of the device. *)
LEMMA EnvironmentKeeps == ASSUME IInv, GpuStep \/ DeviceRemoved PROVE IInv'
<1>1. /\ UNCHANGED <<state, session_active, result, job, stream, source, list, wpc, whr, queue>>
      /\ UNCHANGED <<cp, sub, frames, pools, worker>>
  BY DEF GpuStep, DeviceRemoved, workerVars, slotVars, cpuVars
<1>2. Types /\ env \in EnvStates /\ env.gpu \in Nat /\ Len(queue) \in Nat /\ env.gpu <= Len(queue)
  BY QueueTypes DEF IInv, Types
<1>3. /\ env' \in EnvStates /\ env'.profile = env.profile /\ env.gpu <= env'.gpu
      /\ env'.gpu \in Nat /\ env'.gpu <= Len(queue)
      /\ env'.gpu = env.gpu \/ env.gpu # Len(queue)
  <2>1. CASE GpuStep
    <3> DEFINE n == Len(queue)
               next == env.gpu + 1
    <3>1. env' = [env EXCEPT !.gpu = next] /\ env.gpu < n /\ n \in Nat
      BY <1>2, <2>1 DEF GpuStep
    <3> HIDE DEF n
    <3>2. next \in Nat /\ env.gpu <= next /\ next <= n /\ env.gpu # n
      BY <1>2, <3>1
    <3> HIDE DEF next
    <3>3. env' \in EnvStates /\ env'.profile = env.profile /\ env'.gpu = next
      BY <1>2, <3>1, <3>2 DEF EnvStates
    <3> QED BY <3>2, <3>3 DEF n
  <2>2. CASE DeviceRemoved
    <3>1. env' = [env EXCEPT !.removed = TRUE]
      BY <2>2 DEF DeviceRemoved
    <3>2. /\ env' \in EnvStates /\ env'.profile = env.profile /\ env'.gpu = env.gpu
      BY <1>2, <3>1 DEF EnvStates
    <3>3. env.gpu <= env.gpu
      BY <1>2
    <3> QED BY <1>2, <3>2, <3>3
  <2> QED BY <2>1, <2>2
<1>4. (HandedOver' <=> HandedOver) /\ (Broken' <=> Broken) /\ (Quiescing' <=> Quiescing)
  BY <1>1 DEF HandedOver, Broken, Quiescing
<1>5. Types'
  <2>1. FrameStates' = FrameStates
    BY <1>3 DEF FrameStates, QueueFrames, Profile
  <2> QED BY <1>1, <1>2, <1>3, <2>1 DEF Types
<1>6. SlotOwned' /\ LatchSettled' /\ PcInv' /\ PoolInv' /\ JobInv'
  BY <1>1, <1>3, <1>4 DEF IInv, SlotOwned, LatchSettled, PcInv, PoolInv, JobInv
<1>7. CommandsInv'
  BY <1>1, <1>4 DEF IInv, CommandsInv, ListIsStale, AllOf
<1>8. OrderInv'
  BY <1>1, <1>4 DEF IInv, OrderInv, IsSignal, AllOf
<1>9. DirectInv'
  <2>1. \A i \in 1 .. Len(queue) : i <= env.gpu => i <= env'.gpu
    BY <1>2, <1>3
  <2> QED BY <1>1, <2>1 DEF IInv, DirectInv, IsSignal, IsSpecial
<1>10. FenceInv'
  <2>1. \A i \in 1 .. env.gpu : i \in 1 .. env'.gpu
    BY <1>2, <1>3
  <2> QED BY <1>1, <2>1 DEF IInv, FenceInv, IsSignal
<1> QED BY <1>5, <1>6, <1>7, <1>8, <1>9, <1>10 DEF IInv

-----------------------------------------------------------------------------
(* Every step, and what it means for the queue.                             *)

LEMMA ContinueKeeps == ASSUME IInv, CpContinue PROVE IInv'
<1> SUFFICES ASSUME ~IInv' PROVE FALSE
  OBVIOUS
<1>1. ~(BeginOpen \/ Record \/ RecordReadback \/ Notify)
  BY BeginOpenKeeps, RecordKeeps, NotifyKeeps
<1>2. ~(BeginReadback \/ ChunkResult \/ FenceEnter \/ FenceNoDirect)
  BY CalmSteps
<1>3. ~(MemexportReadback \/ FenceFlush \/ Terminate)
  BY CalmFlushes
<1>4. ~(ReplayNativeDrawBoundary \/ CheckChunkSlot \/ AppendChunk \/ BeginChunks)
  BY BoundaryKeeps, CheckChunkSlotKeeps, AppendChunkKeeps, BeginChunksKeeps
<1>5. ~(EndFlush \/ EndFinishChunks \/ EndSwapFlush \/ EndSubmit \/ EndReplay)
  BY EndFlushKeeps, EndFinishChunksKeeps, EndSwapFlushKeeps, EndSubmitKeeps, EndReplayKeeps
<1>6. ~(EndBooks \/ EndClose)
  BY EndBooksKeeps, EndCloseKeeps
<1>7. ~(FenceDirectFlush \/ FenceDirectSignal \/ FenceDirectWait)
  BY FenceDirectFlushKeeps, FenceDirectSignalKeeps, FenceDirectWaitKeeps
<1>8. ~(FenceCheck \/ FenceWait)
  BY FenceReadKeeps
<1>9. ~(AwaitFlush \/ AfterProof \/ AfterNoProof)
  BY AwaitFlushKeeps, AfterProofKeeps, AfterNoProofKeeps
<1>10. ~(DestroyWait \/ DestroyStop \/ DestroyJoin)
  BY DestroyWaitKeeps, DestroyStopKeeps, DestroyJoinKeeps
<1>11. ~(CallDirect \/ DirectFlush \/ UpdateTileMappings)
  BY CallDirectKeeps, DirectFlushKeeps, UpdateTileMappingsKeeps
<1> QED BY <1>1, <1>2, <1>3, <1>4, <1>5, <1>6, <1>7, <1>8, <1>9, <1>10, <1>11 DEF CpContinue

LEMMA WorkerStepKeeps == ASSUME IInv, WorkerStep PROVE IInv'
<1>1. OwnerStill
  BY DEF OwnerStill, WorkerStep, cpuVars, WorkerNext, ExecuteJob, RunAcquire, RunWoken,
         ResetAllocator, ResetList, Replay, Close, Execute, Signal, StoreResult, Publish
<1> QED BY <1>1, RunKeeps, ResultKeeps, ExecuteJobKeeps, ExecuteKeeps, SignalKeeps
        DEF WorkerStep, WorkerNext, ExecuteJob

LEMMA StutterKeeps == ASSUME IInv, UNCHANGED vars PROVE IInv'
<1>1. /\ UNCHANGED <<state, session_active, job, wpc, whr, result, stream, source, list, queue>>
      /\ UNCHANGED <<cp, sub, frames, pools, worker, env>>
  BY DEF vars, workerVars, slotVars, cpuVars
<1>2. (HandedOver' <=> HandedOver) /\ (Broken' <=> Broken) /\ (Quiescing' <=> Quiescing)
  BY <1>1 DEF HandedOver, Broken, Quiescing
<1>3. Types'
  <2>1. FrameStates' = FrameStates
    BY <1>1 DEF FrameStates, QueueFrames, Profile
  <2> QED BY <1>1, <2>1 DEF IInv, Types
<1>4. SlotOwned' /\ LatchSettled' /\ PcInv' /\ PoolInv' /\ JobInv'
  BY <1>1, <1>2 DEF IInv, SlotOwned, LatchSettled, PcInv, PoolInv, JobInv
<1>5. CommandsInv'
  BY <1>1, <1>2 DEF IInv, CommandsInv, ListIsStale, AllOf
<1>6. OrderInv'
  BY <1>1, <1>2 DEF IInv, OrderInv, IsSignal, AllOf
<1>7. DirectInv' /\ FenceInv'
  BY <1>1 DEF IInv, DirectInv, FenceInv, IsSignal, IsSpecial
<1> QED BY <1>3, <1>4, <1>5, <1>6, <1>7 DEF IInv

LEMMA NextKeeps == IInv /\ [Next]_vars => IInv'
<1> SUFFICES ASSUME IInv, [Next]_vars PROVE IInv'
  OBVIOUS
<1>1. CASE CpCall
  BY <1>1, CpCallKeeps
<1>2. CASE CpContinue
  BY <1>2, ContinueKeeps
<1>3. CASE FenceWaitFails
  BY <1>3, FenceReadKeeps
<1>4. CASE WorkerStep
  BY <1>4, WorkerStepKeeps
<1>5. CASE GpuStep \/ DeviceRemoved
  BY <1>5, EnvironmentKeeps
<1>6. CASE UNCHANGED vars
  BY <1>6, StutterKeeps
<1> QED BY <1>1, <1>2, <1>3, <1>4, <1>5, <1>6 DEF Next

(* The CP's calls, the worker's Run, the GPU and the removal of the device  *)
(* keep the books of the submission, the job and the queue in agreement.    *)
THEOREM Invariance == Spec => []IInv
<1> QED BY InitEstablishes, NextKeeps, PTL DEF Spec

LEMMA OrderOfSubmissions == IInv => SubmissionsInOrder
<1> SUFFICES ASSUME IInv PROVE SubmissionsInOrder
  OBVIOUS
<1>1. \A i \in 1 .. Len(queue) : queue[i].kind = "signal" =>
        /\ i > 1 /\ queue[i - 1].kind = "execute"
        /\ \A c \in ToSet(queue[i - 1].commands) : c.submission = queue[i].value
        /\ \A j \in 1 .. i - 1 : queue[j].kind = "signal" => queue[j].value < queue[i].value
  BY DEF IInv, OrderInv, IsSignal, AllOf
<1>2. ASSUME NEW i \in 1 .. Len(queue), queue[i].kind = "execute", i < Len(queue)
      PROVE  queue[i + 1].kind = "signal"
  BY <1>2, QueueTypes DEF IInv, OrderInv, IsSignal
<1> QED BY <1>1, <1>2 DEF SubmissionsInOrder

(* Whoever replays a submission, EndSubmission on the CP or the worker, it  *)
(* is executed and signalled once, in order, with its own commands.         *)
THEOREM SubmissionsInOrderAlways == Spec => []SubmissionsInOrder
<1> QED BY Invariance, OrderOfSubmissions, PTL

LEMMA OrderOfOperations == IInv => DirectOperationsInOrder
BY DEF IInv, DirectInv, DirectOperationsInOrder, IsSignal

(* UpdateTileMappings flushes the worker first, so its operation is behind  *)
(* the submissions that ended before it and in front of the later ones.     *)
THEOREM DirectOperationsInOrderAlways == Spec => []DirectOperationsInOrder
<1> QED BY Invariance, OrderOfOperations, PTL

LEMMA QuiescenceOfProof == IInv => QuiescentWhenProven
BY DEF IInv, PcInv, Quiescing, QuiescentWhenProven, At

(* AwaitAllQueueOperationsCompletion returns TRUE, and the destruction of   *)
(* the resources ends, only with every entry of the queue consumed and the  *)
(* worker without a job.                                                    *)
THEOREM QuiescentWhenProvenAlways == Spec => []QuiescentWhenProven
<1> QED BY Invariance, QuiescenceOfProof, PTL

-----------------------------------------------------------------------------
(* The command allocators.  An allocator is writable, submitted or with the *)
(* open session, and only there.                                            *)
OneOwner(w, s, c) ==
  /\ \A i, j \in 1 .. Len(w) : w[i] = w[j] => i = j
  /\ \A i, j \in 1 .. Len(s) : s[i].allocator = s[j].allocator => i = j
  /\ \A i \in 1 .. Len(w), j \in 1 .. Len(s) : w[i] # s[j].allocator
  /\ \A i \in 1 .. Len(w) : w[i] # c
  /\ \A j \in 1 .. Len(s) : s[j].allocator # c

(* The allocator of the current submission, and that of the submission with *)
(* a given value: it is submitted under that value and no other.            *)
IsCurrent(a) ==
  /\ a \in Allocators
  /\ IF sub.chunk # NoAllocator THEN a = sub.chunk
     ELSE HandedOver /\ pools.writable # <<>> /\ a = Head(pools.writable)
Used(a, v) ==
  \/ \E k \in 1 .. Len(pools.submitted) : pools.submitted[k] = [allocator |-> a, last |-> v]
  \/ v = sub.current /\ IsCurrent(a)

(* The worker has not handed the list of the job's submission on yet.       *)
Executing == wpc \in ExecutePCs \ {"store_result", "publish"}
InHand ==
  \/ state = "Queued"
  \/ Executing
  \/ session_active /\ job.operation \notin FinalOperations

(* The job and the list refer to the allocator of the job's submission.     *)
JobPlace ==
  /\ state # "Idle" \/ session_active => job.allocator \in Allocators
  /\ ~Broken /\ InHand => Used(job.allocator, job.fence_value)
  /\ ~Broken /\ wpc \in {"replay", "close", "execute"} => list.allocator = job.allocator
  /\ ~Broken /\ session_active /\ InHand /\ ~ListIsStale => list.allocator = job.allocator

(* What the GPU has not consumed was recorded from the allocator of the     *)
(* submission whose signal follows.                                         *)
EntryPlace(i) ==
  IF queue[i].kind # "execute" THEN queue[i].allocator = NoAllocator
  ELSE IF i < Len(queue) THEN Used(queue[i].allocator, queue[i + 1].value)
  ELSE queue[i].allocator = job.allocator

Places ==
  /\ OneOwner(pools.writable, pools.submitted, sub.chunk)
  /\ \A k \in 1 .. Len(pools.submitted) :
       0 < pools.submitted[k].last /\ pools.submitted[k].last < sub.current
  /\ JobPlace
  /\ ~Broken => \A i \in env.gpu + 1 .. Len(queue) : EntryPlace(i)

LEMMA PlacesInit == Init => Places
<1> SUFFICES ASSUME Init PROVE Places
  OBVIOUS
<1>1. IInv
  BY InitEstablishes
<1>2. /\ pools = [writable |-> <<>>, submitted |-> <<>>] /\ Len(queue) = 0 /\ env.gpu = 0
      /\ state = "Idle" /\ ~session_active /\ wpc = "lock"
  BY DEF Init, WorkerInit
<1>3. OneOwner(pools.writable, pools.submitted, sub.chunk)
  BY <1>2 DEF OneOwner
<1> QED BY <1>2, <1>3 DEF Places, JobPlace, InHand, Executing, ExecutePCs

LEMMA ReapsAllocator ==
  ASSUME Types, SlotOwned, Reaps, wpc' = wpc
  PROVE  /\ InHand' => InHand /\ job'.allocator = job.allocator
         /\ state' # "Idle" \/ session_active' =>
              (state # "Idle" \/ session_active) /\ job'.allocator = job.allocator
         /\ wpc \in ExecutePCs => job' = job
<1>1. /\ state' \in {state, "Idle"} /\ (state = "Complete" \/ state' = state)
      /\ session_active' \in BOOLEAN /\ (session_active' => session_active)
      /\ job'.operation = job.operation
      /\ state' = "Idle" /\ session_active' /\ state = "Complete" =>
              job.operation \notin FinalOperations
  BY ReapsState
<1>2. state # "Complete" => job' = job
  BY DEF Reaps, ReapCompleted, ReapedJob, ReapingFinal, Reaping
<1>3. job.operation \notin FinalOperations => job' = job
  BY DEF Reaps, ReapCompleted, ReapedJob, ReapingFinal, Reaping
<1>4. wpc \in ExecutePCs => state = "Running"
  BY DEF SlotOwned
<1>5. state = "Complete" => job' = job \/ (state' = "Idle" /\ ~session_active')
  BY DEF Reaps, ReapCompleted, ReapedJob, ReapingFinal, Reaping, ReapedState, ReapedSession
<1> QED BY <1>1, <1>2, <1>3, <1>4, <1>5 DEF InHand, Executing, FinalOperations

(* The queue and the list are left alone, and what is in hand or pending    *)
(* is still under the submission it was under.                              *)
StillUsed ==
  ~Broken =>
    /\ InHand' => Used(job.allocator, job.fence_value)'
    /\ \A i \in env.gpu + 1 .. Len(queue) : queue[i].kind = "execute" /\ i < Len(queue) =>
         Used(queue[i].allocator, queue[i + 1].value)'

LEMMA StillKeeps ==
  ASSUME IInv, IInv', Places, Reaps, UNCHANGED <<wpc, whr, result, list, queue>>,
         env'.gpu >= env.gpu, StillUsed,
         OneOwner(pools.writable, pools.submitted, sub.chunk)',
         \A k \in 1 .. Len(pools'.submitted) :
           0 < pools'.submitted[k].last /\ pools'.submitted[k].last < sub'.current
  PROVE  Places'
<1>1. (Broken' <=> Broken) /\ (~Broken => ~Failed(result))
  BY DEF Broken
<1>3. /\ InHand' => InHand /\ job'.allocator = job.allocator
      /\ state' # "Idle" \/ session_active' =>
              (state # "Idle" \/ session_active) /\ job'.allocator = job.allocator
      /\ wpc \in ExecutePCs => job' = job
      /\ job'.fence_value = job.fence_value /\ job'.operation = job.operation
      /\ (session_active' => session_active) /\ state' \in {state, "Idle"}
  BY ReapsAllocator, ReapsState DEF IInv
<1>4. JobPlace'
  <2>1. ListIsStale /\ InHand' => ListIsStale'
    BY <1>3, ReapsState DEF ListIsStale, IInv, SlotOwned, ExecutePCs
  <2>2. wpc \in {"replay", "close", "execute"} => wpc \in ExecutePCs
    BY DEF ExecutePCs
  <2>3. ~Broken /\ InHand' => Used(job.allocator, job.fence_value)'
    BY <1>3 DEF StillUsed
  <2> QED BY <1>1, <1>3, <2>1, <2>2, <2>3 DEF JobPlace, Places
<1>5. ASSUME ~Broken, NEW i \in env.gpu + 1 .. Len(queue) PROVE EntryPlace(i)'
  <2>1. EntryPlace(i)
    BY <1>5 DEF Places
  <2>2. i \in 1 .. Len(queue)
    BY QueueTypes DEF IInv
  <2>3. queue[i].kind = "execute" => (i < Len(queue) \/ wpc = "signal")
    BY <1>5, <2>2 DEF IInv, OrderInv
  <2>4. wpc = "signal" => job' = job
    BY <1>3 DEF ExecutePCs
  <2> QED BY <1>5, <2>1, <2>3, <2>4 DEF EntryPlace, StillUsed
<1>6. \A i \in env'.gpu + 1 .. Len(queue) : i \in env.gpu + 1 .. Len(queue)
  <2>1. env'.gpu \in Nat
    BY DEF IInv, Types, EnvStates
  <2> QED BY <2>1, QueueTypes DEF IInv
<1> QED BY <1>1, <1>4, <1>5, <1>6 DEF Places

(* A step that leaves the queue, the list and the pools alone. *)
Quiet ==
  /\ Reaps /\ UNCHANGED <<wpc, whr, result, list, queue, pools>>
  /\ env'.gpu >= env.gpu /\ sub'.current = sub.current /\ sub'.chunk = sub.chunk
  /\ HandedOver /\ ~HandedOver' => Failed(result)

LEMMA QuietKeeps == ASSUME IInv, IInv', Places, Quiet PROVE Places'
<1> USE DEF Quiet
<1>1. ASSUME NEW a, NEW v, ~Broken, Used(a, v) PROVE Used(a, v)'
  BY <1>1 DEF Used, IsCurrent, Broken
<1>2. StillUsed
  <2>1. ASSUME ~Broken, NEW i \in env.gpu + 1 .. Len(queue), queue[i].kind = "execute",
               i < Len(queue)
        PROVE  Used(queue[i].allocator, queue[i + 1].value)'
    BY <1>1, <2>1 DEF Places, EntryPlace
  <2>2. InHand' => InHand /\ job'.allocator = job.allocator /\ job'.fence_value = job.fence_value
    BY ReapsAllocator, ReapsState DEF IInv
  <2>3. ASSUME ~Broken, InHand' PROVE Used(job.allocator, job.fence_value)'
    <3>1. Used(job.allocator, job.fence_value)
      BY <2>2, <2>3 DEF Places, JobPlace
    <3> QED BY <1>1, <2>2, <2>3, <3>1
  <2> QED BY <2>1, <2>3 DEF StillUsed
<1> QED BY <1>2, StillKeeps DEF Places

LEMMA FlushIsQuiet ==
  ASSUME IInv, UNCHANGED <<sub, pools, env>>, WaitReturn \/ (WaitBlock /\ cp' = cp),
         cp.pc # "notify", cp.pc \in {"end_swap", "end_books"} =>
           Failed(result) \/ cp'.pc \in {"end_swap", "end_books"} \/ cp' = cp
  PROVE  Quiet
<1>1. Reaps /\ UNCHANGED <<wpc, whr, result, list, queue>>
  BY DEF WaitReturn, WaitBlock, Reaps
<1>2. env.gpu \in Nat
  BY QueueTypes DEF IInv
<1> QED BY <1>1, <1>2 DEF Quiet, HandedOver

LEMMA QuietSteps ==
  ASSUME IInv, \/ CpCall \/ BeginOpen \/ Record \/ MemexportReadback \/ BeginReadback
               \/ RecordReadback \/ ReplayNativeDrawBoundary \/ CheckChunkSlot \/ Notify
               \/ ChunkResult \/ EndFlush \/ EndSwapFlush \/ EndClose
               \/ FenceEnter \/ FenceNoDirect \/ FenceDirectFlush \/ FenceDirectWait \/ FenceFlush
               \/ AwaitFlush \/ AfterNoProof \/ Terminate
               \/ DestroyWait \/ DestroyStop \/ DestroyJoin \/ CallDirect \/ DirectFlush
               \/ GpuStep \/ DeviceRemoved
  PROVE  Quiet
<1> USE DEF At
<1>1. env.gpu \in Nat /\ Types /\ cp \in CpStates
  BY QueueTypes DEF IInv, Types
<1>2. CASE CpCall
  <2>1. UNCHANGED <<workerVars, sub, pools, env>> /\ cp.pc = "idle"
    BY <1>2 DEF CpCall, CallBeginSubmission, CallEndSubmission, CallAwait, RequestCacheClear,
                EnableReadback
  <2> QED BY <1>1, <2>1 DEF Quiet, Reaps, HandedOver, workerVars
<1>3. CASE BeginOpen \/ Record \/ RecordReadback
  <2>1. /\ UNCHANGED <<slotVars, wpc, whr, list, queue, pools>> /\ env'.gpu = env.gpu
        /\ sub'.current = sub.current /\ sub'.chunk = sub.chunk
        /\ cp.pc \in {"begin", "record", "copy"}
    BY <1>1, <1>3 DEF BeginOpen, Record, RecordReadback, RecordCommand, Types, SubStates, EnvStates
  <2> QED BY <1>1, <2>1 DEF Quiet, Reaps, HandedOver, slotVars
<1>4. CASE \/ MemexportReadback \/ EndFlush \/ EndSwapFlush \/ FenceDirectFlush \/ FenceFlush
           \/ AwaitFlush \/ Terminate \/ DestroyWait \/ DirectFlush
  <2>1. UNCHANGED <<sub, pools, env>> /\ (WaitReturn \/ (WaitBlock /\ cp' = cp))
    BY <1>4 DEF MemexportReadback, EndFlush, EndSwapFlush, FenceDirectFlush, FenceFlush, AwaitFlush,
                Terminate, DestroyWait, DirectFlush, FlushNativeReplay
  <2>2. cp.pc \notin {"notify", "end_books"}
    BY <1>4 DEF MemexportReadback, EndFlush, EndSwapFlush, FenceDirectFlush, FenceFlush, AwaitFlush,
                Terminate, DestroyWait, DirectFlush, FlushNativeReplay
  <2>3. cp.pc = "end_swap" => Failed(result) \/ cp'.pc = "end_books" \/ cp' = cp
    <3>1. SUFFICES ASSUME EndSwapFlush, ~Failed(result) PROVE cp'.pc = "end_books" \/ cp' = cp
      BY <1>4 DEF MemexportReadback, EndFlush, EndSwapFlush, FenceDirectFlush, FenceFlush,
                  AwaitFlush, Terminate, DestroyWait, DirectFlush, FlushNativeReplay
    <3>2. cp' = cp \/ Goto("end_books")
      BY <3>1 DEF EndSwapFlush, FlushNativeReplay
    <3> QED BY <1>1, <3>2, GotoState DEF CpPcs
  <2>4. cp.pc # "notify" /\ (cp.pc \in {"end_swap", "end_books"} =>
           Failed(result) \/ cp'.pc \in {"end_swap", "end_books"} \/ cp' = cp)
    BY <2>2, <2>3
  <2> QED BY <2>1, <2>4, FlushIsQuiet
<1>5. CASE \/ BeginReadback \/ ReplayNativeDrawBoundary \/ ChunkResult \/ EndClose
           \/ FenceEnter \/ FenceNoDirect \/ AfterNoProof \/ DestroyJoin \/ CallDirect
  <2>1. UNCHANGED <<workerVars, sub, pools, env>> /\ cp.pc \notin {"notify", "end_swap", "end_books"}
    BY <1>5 DEF BeginReadback, ReplayNativeDrawBoundary, ChunkResult, EndClose, FenceEnter,
                FenceNoDirect, AfterNoProof, DestroyJoin, CallDirect
  <2> QED BY <1>1, <2>1 DEF Quiet, Reaps, HandedOver, workerVars
<1>6. CASE CheckChunkSlot
  BY <1>1, <1>6 DEF CheckChunkSlot, Quiet, Reaps, HandedOver
<1>7. CASE Notify
  <2>1. /\ UNCHANGED <<state, session_active, job, wpc, whr, result, list, queue, sub, pools, env>>
        /\ cp.pc = "notify" /\ Goto(cp.next)
    BY <1>7 DEF Notify
  <2>2. cp'.pc = cp.next
    BY <1>1, <2>1, GotoState DEF CpStates, CpPcs
  <2> QED BY <1>1, <2>1, <2>2 DEF Quiet, Reaps, HandedOver
<1>8. CASE FenceDirectWait
  <2>1. /\ UNCHANGED <<workerVars, pools, env>> /\ cp.pc = "fence_direct_wait"
        /\ sub'.current = sub.current /\ sub'.chunk = sub.chunk
    BY <1>1, <1>8 DEF FenceDirectWait, Types, SubStates
  <2> QED BY <1>1, <2>1 DEF Quiet, Reaps, HandedOver, workerVars
<1>9. CASE DestroyStop
  BY <1>1, <1>9 DEF DestroyStop, RequestStop, Quiet, Reaps, HandedOver
<1>10. CASE GpuStep \/ DeviceRemoved
  <2>1. UNCHANGED <<workerVars, cp, sub, pools>>
    BY <1>10 DEF GpuStep, DeviceRemoved, cpuVars
  <2>2. env'.gpu >= env.gpu
    <3>1. env'.gpu = env.gpu \/ env'.gpu = env.gpu + 1
      BY <1>1, <1>10 DEF GpuStep, DeviceRemoved, Types, EnvStates
    <3> QED BY <1>1, <3>1
  <2> QED BY <2>1, <2>2 DEF Quiet, Reaps, HandedOver, workerVars
<1> QED BY <1>2, <1>3, <1>4, <1>5, <1>6, <1>7, <1>8, <1>9, <1>10

(* What the worker does with the job leaves it where it was. *)
LEMMA WorkerJob ==
  ASSUME IInv, Places, WorkerStep
  PROVE  /\ InHand' => InHand
         /\ job'.allocator = job.allocator /\ job'.fence_value = job.fence_value
         /\ job'.operation = job.operation /\ session_active' = session_active
         /\ state' # "Idle" => state # "Idle"
         /\ ~Broken' => ~Broken
         /\ UNCHANGED <<cp, sub, pools, env>>
<1>1. UNCHANGED <<cp, sub, pools, env>>
  BY DEF WorkerStep, cpuVars
<1>2. CASE RunAcquire \/ RunWoken
  <2>1. /\ UNCHANGED <<session_active, result, job, whr>> /\ wpc \in {"lock", "waiting"}
        /\ wpc' \in {"exited", "lock", "waiting", "reset_allocator", "replay"}
        /\ state' = state \/ (state = "Queued" /\ state' = "Running")
        /\ wpc' \in {"reset_allocator", "replay"} => state = "Queued"
    BY <1>2 DEF RunAcquire, RunWoken, slotVars
  <2> QED BY <1>1, <2>1 DEF InHand, Executing, ExecutePCs, Broken
<1>3. CASE ExecuteJob
  <2>1. /\ UNCHANGED <<session_active, result, job, state>>
        /\ wpc \in ExecutePCs \ {"store_result", "publish"}
    BY <1>3 DEF ExecuteJob, ResetAllocator, ResetList, Replay, Close, Execute, Signal, slotVars,
                ExecutePCs
  <2> QED BY <1>1, <2>1 DEF InHand, Executing, Broken
<1>4. CASE StoreResult
  <2>1. /\ UNCHANGED <<session_active, job, state>> /\ wpc = "store_result" /\ wpc' = "publish"
        /\ result' = IF Failed(whr) THEN whr ELSE result
    BY <1>4 DEF StoreResult
  <2> QED BY <1>1, <2>1 DEF InHand, Executing, Broken
<1>5. CASE Publish
  <2>1. /\ UNCHANGED <<session_active, result>> /\ job' = [job EXCEPT !.result = whr]
        /\ state' = "Complete" /\ wpc = "publish" /\ wpc' \in {"exited", "waiting"}
        /\ job \in Jobs /\ state = "Running"
    BY <1>5 DEF Publish, IInv, Types, SlotOwned, ExecutePCs
  <2>2. /\ job'.allocator = job.allocator /\ job'.fence_value = job.fence_value
        /\ job'.operation = job.operation
    BY <2>1 DEF Jobs
  <2> QED BY <1>1, <2>1, <2>2 DEF InHand, Executing, ExecutePCs, Broken
<1> QED BY <1>2, <1>3, <1>4, <1>5 DEF WorkerStep, WorkerNext

(* The list is reset to the job's allocator before anything is recorded. *)
LEMMA WorkerList ==
  ASSUME IInv, Places, WorkerStep, ~Broken'
  PROVE  /\ wpc' \in {"replay", "close", "execute"} => list'.allocator = job'.allocator
         /\ session_active' /\ InHand' /\ ~ListIsStale' => list'.allocator = job'.allocator
<1>1. /\ InHand' => InHand
      /\ job'.allocator = job.allocator /\ job'.operation = job.operation
      /\ session_active' = session_active /\ ~Broken
  BY WorkerJob
<1>2. /\ wpc \in {"replay", "close", "execute"} => list.allocator = job.allocator
      /\ session_active /\ InHand /\ ~ListIsStale => list.allocator = job.allocator
      /\ state # "Idle" => (session_active <=> job.operation # "Whole")
      /\ wpc \in ExecutePCs <=> state = "Running"
  BY <1>1 DEF Places, JobPlace, IInv, JobInv, SlotOwned
<1>3. list \in [allocator : Allocators \union {NoAllocator}, commands : Seq(Commands), open : BOOLEAN]
  BY DEF IInv, Types
<1>4. CASE RunAcquire \/ RunWoken
  <2>1. /\ list' = list /\ wpc \in {"lock", "waiting"}
        /\ wpc' \in {"exited", "lock", "waiting", "reset_allocator", "replay"}
        /\ wpc' = "reset_allocator" => state = "Queued"
        /\ wpc' = "replay" => state = "Queued" /\ job.operation \notin {"Whole", "Begin"}
        /\ state = "Queued" => state' = "Queued" \/ wpc' \in {"reset_allocator", "replay"}
    BY <1>4 DEF RunAcquire, RunWoken, slotVars
  <2>2. state = "Queued" => InHand
    BY DEF InHand
  <2> QED BY <1>1, <1>2, <2>1, <2>2 DEF ListIsStale
<1>5. CASE ResetAllocator
  <2>1. list' = list /\ wpc = "reset_allocator" /\ state' = state
        /\ (wpc' = "reset_list" \/ (wpc' = "store_result" /\ Failed(whr')))
    BY <1>5 DEF ResetAllocator, Finishes, slotVars
  <2> QED BY <1>1, <1>2, <2>1 DEF ListIsStale, Broken
<1>6. CASE ResetList
  <2>1. list'.allocator = job.allocator \/ (wpc' = "store_result" /\ Failed(whr'))
    BY <1>6 DEF ResetList, Finishes
  <2> QED BY <1>1, <2>1 DEF Broken
<1>7. CASE Replay \/ Close
  <2>1. list'.allocator = list.allocator /\ wpc \in {"replay", "close"}
    BY <1>3, <1>7 DEF Replay, Close
  <2> QED BY <1>1, <1>2, <2>1
<1>8. CASE Execute \/ Signal \/ StoreResult \/ Publish
  <2>1. list' = list /\ wpc' \notin {"replay", "close", "execute", "reset_allocator", "reset_list"}
        /\ wpc \notin {"reset_allocator", "reset_list"}
        /\ (state' = state \/ state' = "Complete") /\ wpc \in ExecutePCs
    BY <1>8 DEF Execute, Signal, StoreResult, Publish, Finishes, slotVars, ExecutePCs
  <2>2. ~ListIsStale
    BY <1>2, <2>1 DEF ListIsStale
  <2> QED BY <1>1, <1>2, <2>1, <2>2
<1> QED BY <1>4, <1>5, <1>6, <1>7, <1>8 DEF WorkerStep, WorkerNext, ExecuteJob

(* The list that is executed is that of the job, and so is the signal. *)
LEMMA WorkerQueue ==
  ASSUME IInv, Places, WorkerStep, ~Broken', NEW i \in env.gpu + 1 .. Len(queue')
  PROVE  EntryPlace(i)'
<1>1. /\ job'.allocator = job.allocator /\ ~Broken /\ UNCHANGED <<cp, sub, pools, env>>
  BY WorkerJob
<1>2. ASSUME NEW a, NEW v, Used(a, v) PROVE Used(a, v)'
  BY <1>1, <1>2 DEF Used, IsCurrent, HandedOver
<1>3. /\ Types /\ Len(queue) \in Nat /\ env.gpu \in Nat /\ env.gpu <= Len(queue)
      /\ job.fence_value \in Nat
  BY QueueTypes DEF IInv
<1>4. \A k \in env.gpu + 1 .. Len(queue) : EntryPlace(k)
  BY <1>1 DEF Places
<1>5. CASE queue' = queue
  BY <1>1, <1>2, <1>4, <1>5 DEF EntryPlace
<1>6. ASSUME NEW e \in Entries, queue' = Append(queue, e), wpc \in {"execute", "signal"},
             wpc = "execute" => e.kind = "execute" /\ e.allocator = job.allocator,
             wpc = "signal" => /\ e.kind = "signal" /\ e.allocator = NoAllocator
                               /\ e.value = job.fence_value
      PROVE  EntryPlace(i)'
  <2> DEFINE n == Len(queue)
  <2>1. /\ Len(queue') = n + 1 /\ queue'[n + 1] = e
        /\ \A k \in 1 .. n : queue'[k] = queue[k]
    BY <1>3, <1>6, QueueGrows
  <2> HIDE DEF n
  <2>2. i \in env.gpu + 1 .. n \/ i = n + 1
    BY <1>3, <2>1 DEF n
  <2>3. CASE i = n + 1
    BY <1>1, <1>6, <2>1, <2>3 DEF EntryPlace
  <2>4. CASE i \in env.gpu + 1 .. n
    <3>1. i \in 1 .. n /\ i \in 1 .. Len(queue)
      BY <1>3, <2>4 DEF n
    <3>2. EntryPlace(i)
      BY <1>4, <2>4 DEF n
    <3>3. wpc = "execute" /\ queue[i].kind = "execute" => i < n
      BY <3>1, ExecutingFacts DEF ExecutePCs, n
    <3>4. CASE i < n
      <4>1. i + 1 \in 1 .. n
        BY <1>3, <3>1, <3>4 DEF n
      <4> QED BY <1>2, <2>1, <3>1, <3>2, <3>4, <4>1 DEF EntryPlace, n
    <3>5. CASE i = n /\ wpc = "signal"
      <4>1. Used(job.allocator, job.fence_value)
        BY <1>1, <3>5 DEF Places, JobPlace, InHand, Executing, ExecutePCs
      <4> QED BY <1>2, <1>6, <2>1, <3>1, <3>2, <3>5, <4>1 DEF EntryPlace, n
    <3>6. CASE i = n /\ queue[i].kind # "execute"
      BY <2>1, <3>1, <3>2, <3>6 DEF EntryPlace
    <3> QED BY <1>3, <1>6, <3>1, <3>3, <3>4, <3>5, <3>6 DEF n
  <2> QED BY <2>2, <2>3, <2>4
<1>7. CASE Execute
  <2>1. /\ wpc = "execute" /\ list.allocator = job.allocator
        /\ queue' = Append(queue, ExecuteEntry(list.commands, list.allocator))
    BY <1>1, <1>7 DEF Execute, Places, JobPlace
  <2>2. ExecuteEntry(list.commands, list.allocator) \in Entries
    BY <1>3 DEF Types, ExecuteEntry, Entries
  <2> QED BY <1>6, <2>1, <2>2 DEF ExecuteEntry
<1>8. CASE Signal
  <2>1. <<>> \in Seq(Commands)
    OBVIOUS
  <2>2. SignalEntry(job.fence_value) \in Entries
    BY <1>3, <2>1 DEF SignalEntry, Entries
  <2>3. wpc = "signal" /\ (queue' = queue \/ queue' = Append(queue, SignalEntry(job.fence_value)))
    BY <1>8 DEF Signal
  <2> QED BY <1>5, <1>6, <2>2, <2>3 DEF SignalEntry
<1> QED BY <1>5, <1>7, <1>8 DEF WorkerStep, WorkerNext, ExecuteJob, RunAcquire, RunWoken,
        ResetAllocator, ResetList, Replay, Close, StoreResult, Publish

LEMMA WorkerPlaces == ASSUME IInv, IInv', Places, WorkerStep PROVE Places'
<1>1. /\ InHand' => InHand
      /\ job'.allocator = job.allocator /\ job'.fence_value = job.fence_value
      /\ session_active' = session_active /\ (state' # "Idle" => state # "Idle")
      /\ ~Broken' => ~Broken
      /\ UNCHANGED <<cp, sub, pools, env>>
  BY WorkerJob
<1>2. ASSUME NEW a, NEW v, Used(a, v) PROVE Used(a, v)'
  BY <1>1, <1>2 DEF Used, IsCurrent, HandedOver
<1>3. JobPlace'
  BY <1>1, <1>2, WorkerList DEF Places, JobPlace
<1>4. ~Broken' => \A i \in env.gpu + 1 .. Len(queue') : EntryPlace(i)'
  BY WorkerQueue
<1> QED BY <1>1, <1>3, <1>4 DEF Places

-----------------------------------------------------------------------------
(* The pools. *)

LEMMA WritableOwner ==
  ASSUME Types, OneOwner(pools.writable, pools.submitted, sub.chunk), NEW w \in Writable
  PROVE  OneOwner(w, pools.submitted, sub.chunk)
<1>1. CASE w = pools.writable
  BY <1>1
<1>2. CASE w = <<>>
  BY <1>2 DEF OneOwner
<1>3. ASSUME NEW a \in Allocators \ KnownAllocators, w = <<a>>
      PROVE  OneOwner(w, pools.submitted, sub.chunk)
  <2>1. Len(w) = 1 /\ w[1] = a
    BY <1>3
  <2>2. /\ \A j \in 1 .. Len(pools.submitted) : pools.submitted[j].allocator # a
        /\ sub.chunk # a
    BY <1>3 DEF KnownAllocators
  <2> QED BY <2>1, <2>2 DEF OneOwner
<1> QED BY <1>1, <1>2, <1>3 DEF Writable

LEMMA TakesFirst ==
  ASSUME NEW w \in Seq(Allocators), w # <<>>, NEW s, NEW c, OneOwner(w, s, c)
  PROVE  OneOwner(Tail(w), s, Head(w))
<1> DEFINE n == Len(w)
<1>1. /\ n \in Nat /\ n > 0 /\ Len(Tail(w)) = n - 1 /\ Head(w) = w[1]
      /\ \A i \in 1 .. n - 1 : Tail(w)[i] = w[i + 1]
  OBVIOUS
<1>2. \A i \in 1 .. n - 1 : i + 1 \in 1 .. n /\ i + 1 # 1
  BY <1>1
<1>3. 1 \in 1 .. n
  BY <1>1
<1> HIDE DEF n
<1>4. \A i, j \in 1 .. n - 1 : i + 1 = j + 1 => i = j
  BY <1>1
<1>5. /\ \A i, j \in 1 .. n : w[i] = w[j] => i = j
      /\ \A i, j \in 1 .. Len(s) : s[i].allocator = s[j].allocator => i = j
      /\ \A i \in 1 .. n, j \in 1 .. Len(s) : w[i] # s[j].allocator
  BY DEF OneOwner, n
<1> QED BY <1>1, <1>2, <1>3, <1>4, <1>5 DEF OneOwner

LEMMA Submits ==
  ASSUME NEW w \in Seq(Allocators), NEW s \in Seq([allocator : Allocators, last : Nat]),
         NEW a \in Allocators, NEW v \in Nat, OneOwner(w, s, a)
  PROVE  OneOwner(w, Append(s, [allocator |-> a, last |-> v]), NoAllocator)
<1> DEFINE n == Len(s)
           e == [allocator |-> a, last |-> v]
           t == Append(s, e)
<1>1. e \in [allocator : Allocators, last : Nat] /\ e.allocator = a
  OBVIOUS
<1> HIDE DEF e
<1>2. /\ n \in Nat /\ Len(t) = n + 1 /\ t[n + 1] = e
      /\ \A i \in 1 .. n : t[i] = s[i]
  BY <1>1
<1> HIDE DEF n, t
<1>3. \A i \in 1 .. n + 1 : i \in 1 .. n \/ i = n + 1
  BY <1>2
<1>4. \A i \in 1 .. n : s[i].allocator \in Allocators
  <2>1. \A i \in 1 .. n : s[i] \in [allocator : Allocators, last : Nat]
    BY ElementOfSeq DEF n
  <2> QED BY <2>1
<1>5. \A i \in 1 .. n + 1 : t[i].allocator # NoAllocator
  BY <1>1, <1>2, <1>3, <1>4, AllocatorsAssumption
<1>6. /\ \A i, j \in 1 .. n : s[i].allocator = s[j].allocator => i = j
      /\ \A j \in 1 .. n : s[j].allocator # a
      /\ \A i \in 1 .. Len(w), j \in 1 .. n : w[i] # s[j].allocator
      /\ \A i \in 1 .. Len(w) : w[i] # a
      /\ \A i, j \in 1 .. Len(w) : w[i] = w[j] => i = j
  BY DEF OneOwner, n
<1>7. \A i, j \in 1 .. n + 1 : t[i].allocator = t[j].allocator => i = j
  BY <1>1, <1>2, <1>3, <1>6
<1>8. \A i \in 1 .. Len(w), j \in 1 .. n + 1 : w[i] # t[j].allocator
  BY <1>1, <1>2, <1>3, <1>6
<1>9. \A i \in 1 .. Len(w) : w[i] # NoAllocator
  BY AllocatorsAssumption
<1>10. OneOwner(w, t, NoAllocator)
  BY <1>2, <1>5, <1>6, <1>7, <1>8, <1>9 DEF OneOwner
<1> QED BY <1>10 DEF t, e

(* CheckSubmissionFence gives back only what the GPU is done with. *)
LEMMA RetiredLasts ==
  ASSUME Types, NEW completed \in Nat, NEW before
  PROVE  LET n == IF completed <= before THEN 0 ELSE Retired(completed)
         IN /\ n \in 0 .. Len(pools.submitted)
            /\ \A i \in 1 .. n : pools.submitted[i].last <= completed
<1> DEFINE S == {n \in 0 .. Len(pools.submitted) :
                   \A i \in 1 .. n : pools.submitted[i].last <= completed}
<1>1. Len(pools.submitted) \in Nat
  BY DEF Types, PoolStates
<1>2. 0 \in S /\ S \in SUBSET Nat /\ \A y \in S : y <= Len(pools.submitted)
  BY <1>1
<1>3. Max(S) \in S
  <2> HIDE DEF S
  <2> QED BY <1>1, <1>2, LargestOfBounded
<1>4. Retired(completed) = Max(S)
  BY DEF Retired
<1> QED BY <1>2, <1>3, <1>4

LEMMA GivesBack ==
  ASSUME NEW w \in Seq(Allocators), NEW s \in Seq([allocator : Allocators, last : Nat]),
         NEW c, OneOwner(w, s, c), NEW n \in 0 .. Len(s)
  PROVE  /\ OneOwner(w \o [i \in 1 .. n |-> s[i].allocator], SubSeq(s, n + 1, Len(s)), c)
         /\ Len(SubSeq(s, n + 1, Len(s))) = Len(s) - n
         /\ \A i \in 1 .. Len(s) - n : SubSeq(s, n + 1, Len(s))[i] = s[n + i]
<1> DEFINE back == [i \in 1 .. n |-> s[i].allocator]
           left == SubSeq(s, n + 1, Len(s))
           m == Len(s)
           l == Len(w)
           all == w \o back
<1>1. l \in Nat /\ m \in Nat /\ n \in 0 .. m /\ n \in Nat
  OBVIOUS
<1>2. \A i \in 1 .. m : s[i] \in [allocator : Allocators, last : Nat]
  BY ElementOfSeq
<1>3. back \in Seq(Allocators) /\ Len(back) = n /\ \A i \in 1 .. n : back[i] = s[i].allocator
  <2>1. back \in [1 .. n -> Allocators]
    BY <1>1, <1>2
  <2> QED BY <1>1, <2>1
<1>4. /\ Len(left) = m - n /\ \A i \in 1 .. m - n : left[i] = s[n + i]
  <2>1. \A i \in n + 1 .. m : s[i] \in [allocator : Allocators, last : Nat]
    BY <1>1, <1>2
  <2>2. n + 1 \in Int /\ m \in Int
    BY <1>1
  <2>3. /\ Len(left) = IF n + 1 <= m THEN m - (n + 1) + 1 ELSE 0
        /\ \A i \in 1 .. m - (n + 1) + 1 : left[i] = s[n + 1 + i - 1]
    BY <2>1, <2>2, SubSeqProperties, SMTT(30)
  <2> HIDE DEF left, m
  <2>4. m - (n + 1) + 1 = m - n /\ (n + 1 <= m \/ m = n)
    BY <1>1
  <2>5. \A i \in 1 .. m - n : n + 1 + i - 1 = n + i
    BY <1>1
  <2> QED BY <1>1, <2>3, <2>4, <2>5
<1> HIDE DEF back, left
<1>5. /\ Len(all) = l + n
      /\ \A i \in 1 .. l + n : all[i] = IF i <= l THEN w[i] ELSE back[i - l]
  BY <1>3, ConcatProperties
<1>6. /\ \A i, j \in 1 .. l : w[i] = w[j] => i = j
      /\ \A i, j \in 1 .. m : s[i].allocator = s[j].allocator => i = j
      /\ \A i \in 1 .. l, j \in 1 .. m : w[i] # s[j].allocator
      /\ \A i \in 1 .. l : w[i] # c
      /\ \A j \in 1 .. m : s[j].allocator # c
  BY DEF OneOwner
<1> HIDE DEF m, l, all
<1>7. ASSUME NEW i \in 1 .. l + n
      PROVE  \/ i \in 1 .. l /\ all[i] = w[i]
             \/ i - l \in 1 .. n /\ i - l \in 1 .. m /\ all[i] = s[i - l].allocator
  <2>1. i \in 1 .. l \/ (i \in l + 1 .. l + n /\ i - l \in 1 .. n /\ i - l \in 1 .. m)
    BY <1>1
  <2> QED BY <1>3, <1>5, <2>1
<1>8. \A i \in 1 .. m - n : n + i \in 1 .. m
  BY <1>1
<1>9. ASSUME NEW i \in 1 .. l + n, NEW j \in 1 .. l + n, all[i] = all[j] PROVE i = j
  <2>1. \/ i \in 1 .. l /\ all[i] = w[i]
        \/ i - l \in 1 .. m /\ all[i] = s[i - l].allocator
    BY <1>7
  <2>2. \/ j \in 1 .. l /\ all[j] = w[j]
        \/ j - l \in 1 .. m /\ all[j] = s[j - l].allocator
    BY <1>7
  <2> DEFINE p == i - l
             q == j - l
  <2>3. p = q => i = j
    BY <1>1
  <2>4. /\ (i \in 1 .. l /\ all[i] = w[i]) \/ (p \in 1 .. m /\ all[i] = s[p].allocator)
        /\ (j \in 1 .. l /\ all[j] = w[j]) \/ (q \in 1 .. m /\ all[j] = s[q].allocator)
    BY <2>1, <2>2
  <2> HIDE DEF p, q
  <2> QED BY <1>6, <1>9, <2>3, <2>4
<1>10. ASSUME NEW i \in 1 .. m - n, NEW j \in 1 .. m - n, left[i].allocator = left[j].allocator
       PROVE  i = j
  <2> DEFINE p == n + i
             q == n + j
  <2>1. /\ p \in 1 .. m /\ q \in 1 .. m /\ left[i] = s[p] /\ left[j] = s[q]
    BY <1>4, <1>8
  <2> HIDE DEF p, q
  <2>2. p = q
    BY <1>6, <1>10, <2>1
  <2>3. n + i = n + j
    BY <2>2 DEF p, q
  <2> QED BY <1>1, <2>3
<1>11. ASSUME NEW i \in 1 .. l + n, NEW j \in 1 .. m - n PROVE all[i] # left[j].allocator
  <2>1. n + j \in 1 .. m /\ left[j] = s[n + j] /\ (i - l \in 1 .. n => i - l # n + j)
    BY <1>1, <1>4, <1>8
  <2>2. CASE i \in 1 .. l /\ all[i] = w[i]
    BY <1>6, <2>1, <2>2
  <2>3. CASE i - l \in 1 .. n /\ i - l \in 1 .. m /\ all[i] = s[i - l].allocator
    <3>1. s[i - l].allocator # s[n + j].allocator
      BY <1>6, <2>1, <2>3
    <3> QED BY <2>1, <2>3, <3>1
  <2> QED BY <1>7, <2>2, <2>3
<1>12. /\ \A i \in 1 .. l + n : all[i] # c
       /\ \A j \in 1 .. m - n : left[j].allocator # c
  BY <1>4, <1>6, <1>7, <1>8, SMTT(30)
<1>13. OneOwner(all, left, c)
  BY <1>4, <1>5, <1>9, <1>10, <1>11, <1>12 DEF OneOwner
<1> QED BY <1>4, <1>13 DEF all, back, left, m

(* What is in hand or pending belongs to a submission that the GPU has not  *)
(* completed.                                                               *)
LEMMA NotCompleted ==
  ASSUME IInv, FenceInv', UNCHANGED <<queue, env>>, sub'.completed \in Nat,
         \A k \in 1 .. Len(pools.submitted) :
           0 < pools.submitted[k].last /\ pools.submitted[k].last < sub.current,
         ~Broken
  PROVE  /\ InHand => \A k \in 1 .. Len(pools.submitted) :
                        pools.submitted[k].last = job.fence_value => job.fence_value > sub'.completed
         /\ \A i \in env.gpu + 1 .. Len(queue) : queue[i].kind = "execute" /\ i < Len(queue) =>
              queue[i + 1].value > sub'.completed
<1>1. /\ Types /\ Len(queue) \in Nat /\ env.gpu \in Nat /\ env.gpu <= Len(queue)
      /\ job.fence_value \in Nat /\ sub.current \in Nat
      /\ \A i \in 1 .. Len(queue) : queue[i].value \in Nat
  BY QueueTypes DEF IInv
<1>2. sub'.completed > 0 =>
        \E j \in 1 .. env.gpu : IsSignal(j) /\ queue[j].value = sub'.completed
  BY DEF FenceInv, IsSignal
<1>3. \A j \in 1 .. env.gpu : j \in 1 .. Len(queue)
  BY <1>1
<1>4. ASSUME InHand, NEW k \in 1 .. Len(pools.submitted), pools.submitted[k].last = job.fence_value
      PROVE  job.fence_value > sub'.completed
  <2>1. job.fence_value > 0 /\ job.fence_value < sub.current
    BY <1>4
  <2>2. state = "Queued" \/ Executing
    <3>1. session_active /\ job.operation \notin FinalOperations => sub.chunk # NoAllocator
      BY DEF IInv, JobInv, FinalOperations
    <3>2. sub.chunk # NoAllocator => job.fence_value = sub.current
      BY DEF IInv, JobInv
    <3> QED BY <1>1, <1>4, <2>1, <3>1, <3>2 DEF InHand
  <2>3. \A j \in 1 .. Len(queue) : IsSignal(j) => queue[j].value < job.fence_value
    BY <2>2 DEF IInv, OrderInv, Executing
  <2> QED BY <1>1, <1>2, <1>3, <2>1, <2>3
<1>5. ASSUME NEW i \in env.gpu + 1 .. Len(queue), queue[i].kind = "execute", i < Len(queue)
      PROVE  queue[i + 1].value > sub'.completed
  <2>1. i \in 1 .. Len(queue) /\ i + 1 \in 1 .. Len(queue) /\ i # Len(queue)
        /\ \A j \in 1 .. env.gpu : j \in 1 .. (i + 1) - 1
    BY <1>1, <1>5
  <2>2. IsSignal(i + 1)
    BY <1>5, <2>1 DEF IInv, OrderInv
  <2>3. /\ queue[i + 1].value > 0
        /\ \A j \in 1 .. (i + 1) - 1 : IsSignal(j) => queue[j].value < queue[i + 1].value
    BY <2>1, <2>2 DEF IInv, OrderInv
  <2> QED BY <1>1, <1>2, <1>3, <2>1, <2>3
<1> QED BY <1>4, <1>5

LEMMA FencePlaces ==
  ASSUME IInv, IInv', Places, FenceCheck \/ FenceWait \/ FenceWaitFails
  PROVE  Places'
<1>1. /\ UNCHANGED <<workerVars, env>> /\ Types /\ sub \in SubStates /\ env.gpu \in Nat
      /\ cp.pc \in {"fence_check", "fence_wait"}
  BY QueueTypes DEF IInv, Types, FenceCheck, FenceWait, FenceWaitFails, At
<1>2. sub'.current = sub.current /\ sub'.chunk = sub.chunk /\ sub'.completed \in Nat
  <2>1. sub' \in {sub, [sub EXCEPT !.completed = SubmissionFence]}
    BY DEF FenceCheck, FenceWait, FenceWaitFails, FenceLost
  <2> QED BY <1>1, <2>1, SubmissionFenceState DEF SubStates
<1>3. ~HandedOver /\ Reaps
  BY <1>1 DEF HandedOver, Reaps, workerVars
<1>4. CASE UNCHANGED pools
  <2>1. Quiet
    BY <1>1, <1>2, <1>3, <1>4 DEF Quiet, workerVars
  <2> QED BY <2>1, QuietKeeps
<1>5. ASSUME NEW before, Reclaim(sub'.completed, before) PROVE Places'
  <2> DEFINE w == pools.writable
             s == pools.submitted
             m == Len(s)
             n == IF sub'.completed <= before THEN 0 ELSE Retired(sub'.completed)
             back == [i \in 1 .. n |-> s[i].allocator]
             left == SubSeq(s, n + 1, m)
  <2>1. pools' = [writable |-> w \o back, submitted |-> left]
    BY <1>5 DEF Reclaim
  <2>2. /\ n \in 0 .. m /\ \A i \in 1 .. n : s[i].last <= sub'.completed
        /\ w \in Seq(Allocators) /\ s \in Seq([allocator : Allocators, last : Nat]) /\ m \in Nat
    BY <1>1, <1>2, RetiredLasts DEF Types, PoolStates
  <2>3. /\ OneOwner(w, s, sub.chunk)
        /\ \A k \in 1 .. m : 0 < s[k].last /\ s[k].last < sub.current
    BY DEF Places
  <2> HIDE DEF n
  <2>4. /\ OneOwner(w \o back, left, sub.chunk)
        /\ Len(left) = m - n /\ \A i \in 1 .. m - n : left[i] = s[n + i]
    BY <2>2, <2>3, GivesBack
  <2>5. \A k \in 1 .. m : s[k].last \in Nat
    <3>1. \A k \in 1 .. m : s[k] \in [allocator : Allocators, last : Nat]
      BY <2>2, ElementOfSeq
    <3> QED BY <3>1
  <2> HIDE DEF back, left
  <2>6. pools'.submitted = left /\ OneOwner(pools.writable, pools.submitted, sub.chunk)'
    BY <1>2, <2>1, <2>4
  <2> HIDE DEF w, s, m
  <2>7. \A k \in 1 .. m - n : n + k \in 1 .. m
    BY <2>2
  <2>8. \A k \in 1 .. Len(left) : 0 < left[k].last /\ left[k].last < sub'.current
    BY <1>2, <2>3, <2>4, <2>7
  <2>9. ASSUME NEW a, NEW v, Used(a, v), \A k \in 1 .. m : s[k].last = v => v > sub'.completed
        PROVE  Used(a, v)'
    <3>1. CASE v = sub.current /\ IsCurrent(a)
      BY <1>2, <1>3, <3>1 DEF Used, IsCurrent
    <3>2. ASSUME NEW k \in 1 .. m, s[k] = [allocator |-> a, last |-> v] PROVE Used(a, v)'
      <4>1. s[k].last > sub'.completed
        BY <2>9, <3>2
      <4>2. k \notin 1 .. n
        BY <1>2, <2>2, <2>5, <4>1
      <4> DEFINE l == k - n
      <4>3. l \in 1 .. m - n /\ n + l = k
        BY <2>2, <4>2
      <4> HIDE DEF l
      <4>4. left[l] = [allocator |-> a, last |-> v]
        BY <2>4, <3>2, <4>3
      <4> QED BY <2>4, <2>6, <4>3, <4>4 DEF Used
    <3> QED BY <2>9, <3>1, <3>2 DEF Used, s, m
  <2>10. FenceInv' /\ UNCHANGED <<queue, env, job>> /\ (InHand' <=> InHand)
    BY <1>1 DEF IInv, workerVars, InHand, Executing
  <2>11. StillUsed
    <3>1. ASSUME ~Broken
          PROVE  /\ InHand => \A k \in 1 .. m : s[k].last = job.fence_value =>
                                job.fence_value > sub'.completed
                 /\ \A i \in env.gpu + 1 .. Len(queue) :
                      queue[i].kind = "execute" /\ i < Len(queue) =>
                        queue[i + 1].value > sub'.completed
      BY <1>2, <2>3, <2>10, <3>1, NotCompleted DEF s, m
    <3>2. ASSUME ~Broken, InHand PROVE Used(job.allocator, job.fence_value)'
      <4>1. Used(job.allocator, job.fence_value)
        BY <3>2 DEF Places, JobPlace
      <4> QED BY <2>9, <2>10, <3>1, <3>2, <4>1
    <3>3. ASSUME ~Broken, NEW i \in env.gpu + 1 .. Len(queue), queue[i].kind = "execute",
                 i < Len(queue)
          PROVE  Used(queue[i].allocator, queue[i + 1].value)'
      <4>1. Used(queue[i].allocator, queue[i + 1].value)
        BY <3>3 DEF Places, EntryPlace
      <4>2. \A k \in 1 .. m : s[k].last = queue[i + 1].value => queue[i + 1].value > sub'.completed
        BY <3>1, <3>3
      <4> QED BY <2>9, <2>10, <4>1, <4>2
    <3> QED BY <2>10, <3>2, <3>3 DEF StillUsed
  <2>12. UNCHANGED <<wpc, whr, result, list, queue>> /\ env'.gpu >= env.gpu
    BY <1>1 DEF workerVars
  <2> QED BY <1>3, <2>6, <2>8, <2>11, <2>12, StillKeeps
<1> QED BY <1>4, <1>5 DEF FenceCheck, FenceWait, FenceWaitFails, FenceLost

LEMMA AfterProofPlaces == ASSUME IInv, IInv', Places, AfterProof PROVE Places'
<1>1. UNCHANGED <<workerVars, sub, env>> /\ cp.pc = "proven" /\ env.gpu = Len(queue)
      /\ state = "Idle" /\ ~session_active /\ wpc \notin ExecutePCs /\ env.gpu \in Nat
  BY QueueTypes DEF AfterProof, At, IInv, PcInv, Quiescing
<1>2. CASE UNCHANGED pools
  BY <1>1, <1>2, QuietKeeps DEF Quiet, Reaps, HandedOver, workerVars
<1>3. CASE pools' = [writable |-> <<>>, submitted |-> <<>>]
  <2>1. Len(pools'.writable) = 0 /\ Len(pools'.submitted) = 0
    BY <1>3
  <2>2. OneOwner(pools.writable, pools.submitted, sub.chunk)'
    BY <2>1 DEF OneOwner
  <2>3. ~InHand'
    BY <1>1 DEF InHand, Executing, workerVars
  <2>4. StillUsed
    BY <1>1, <2>3 DEF StillUsed
  <2>5. Reaps /\ UNCHANGED <<wpc, whr, result, list, queue>> /\ env'.gpu >= env.gpu
    BY <1>1 DEF Reaps, workerVars
  <2>6. \A k \in 1 .. Len(pools'.submitted) :
          0 < pools'.submitted[k].last /\ pools'.submitted[k].last < sub'.current
    BY <2>1
  <2> QED BY <2>2, <2>4, <2>5, <2>6, StillKeeps
<1> QED BY <1>2, <1>3 DEF AfterProof

(* The CP hands the worker the next part of the submission. *)
LEMMA HandsPlaces ==
  ASSUME IInv, IInv', Places, ~HandedOver, UNCHANGED <<wpc, whr, result, list, queue, env>>,
         state \in {"Idle", "Complete"}, ~Failed(result), state' = "Queued",
         job'.allocator \in Allocators, job'.fence_value = sub.current, IsCurrent(job.allocator)',
         session_active' /\ job'.operation # "Begin" => list.allocator = job'.allocator,
         sub'.current = sub.current, sub.chunk # NoAllocator => sub'.chunk = sub.chunk,
         pools'.submitted = pools.submitted,
         OneOwner(pools.writable, pools.submitted, sub.chunk)'
  PROVE  Places'
<1>1. wpc \notin ExecutePCs /\ ~Broken /\ ~Broken'
  BY DEF IInv, SlotOwned, Broken, ExecutePCs
<1>2. ASSUME NEW a, NEW v, Used(a, v) PROVE Used(a, v)'
  BY <1>2, AllocatorsAssumption DEF Used, IsCurrent
<1>3. Used(job.allocator, job.fence_value)'
  BY DEF Used
<1>4. JobPlace'
  BY <1>1, <1>3 DEF JobPlace, ListIsStale, ExecutePCs
<1>5. ASSUME NEW i \in env.gpu + 1 .. Len(queue) PROVE EntryPlace(i)'
  <2>1. EntryPlace(i)
    BY <1>1 DEF Places
  <2>2. i \in 1 .. Len(queue)
    BY QueueTypes DEF IInv
  <2>3. queue[i].kind = "execute" => i < Len(queue)
    BY <1>1, <2>2 DEF IInv, OrderInv, ExecutePCs
  <2> QED BY <1>2, <2>1, <2>3 DEF EntryPlace
<1> QED BY <1>4, <1>5 DEF Places

(* EnsureWritableCommandAllocator alone. *)
LEMMA RefillPlaces ==
  ASSUME IInv, IInv', Places, ~HandedOver, UNCHANGED <<workerVars, sub, env>>,
         NEW writable, pools' = [pools EXCEPT !.writable = writable],
         OneOwner(writable, pools.submitted, sub.chunk)
  PROVE  Places'
<1>1. pools \in PoolStates /\ env.gpu \in Nat
  BY QueueTypes DEF IInv, Types
<1>2. pools'.writable = writable /\ pools'.submitted = pools.submitted
  BY <1>1 DEF PoolStates
<1>3. ASSUME NEW a, NEW v, Used(a, v) PROVE Used(a, v)'
  BY <1>2, <1>3 DEF Used, IsCurrent
<1>4. UNCHANGED <<wpc, whr, result, list, queue, job>> /\ Reaps /\ (InHand' <=> InHand)
  BY DEF workerVars, Reaps, InHand, Executing
<1>5. StillUsed
  <2>1. ASSUME ~Broken, InHand PROVE Used(job.allocator, job.fence_value)'
    <3>1. Used(job.allocator, job.fence_value)
      BY <2>1 DEF Places, JobPlace
    <3> QED BY <1>3, <1>4, <3>1
  <2>2. ASSUME ~Broken, NEW i \in env.gpu + 1 .. Len(queue), queue[i].kind = "execute",
               i < Len(queue)
        PROVE  Used(queue[i].allocator, queue[i + 1].value)'
    <3>1. Used(queue[i].allocator, queue[i + 1].value)
      BY <2>2 DEF Places, EntryPlace
    <3> QED BY <1>3, <1>4, <3>1
  <2> QED BY <1>4, <2>1, <2>2 DEF StillUsed
<1>6. OneOwner(pools.writable, pools.submitted, sub.chunk)'
  BY <1>2
<1>7. env'.gpu >= env.gpu
  BY <1>1
<1> QED BY <1>2, <1>4, <1>5, <1>6, <1>7, StillKeeps DEF Places

LEMMA BeginChunksPlaces == ASSUME IInv, IInv', Places, BeginChunks PROVE Places'
<1>1. /\ Types /\ cp.pc = "chunk" /\ sub.chunk = NoAllocator /\ sub \in SubStates
      /\ UNCHANGED env /\ pools \in PoolStates /\ ~HandedOver /\ env.gpu \in Nat
  BY QueueTypes DEF IInv, PcInv, BeginChunks, At, Types, HandedOver
<1>2. PICK writable \in Writable :
        \/ writable = <<>> /\ UNCHANGED <<workerVars, sub, pools>>
        \/ /\ writable # <<>> /\ Start(Head(writable), sub.current, TRUE)
           /\ sub' = [sub EXCEPT !.chunk = Head(writable)]
           /\ pools' = [pools EXCEPT !.writable = Tail(writable)]
        \/ /\ writable # <<>> /\ pools' = [pools EXCEPT !.writable = writable]
           /\ UNCHANGED <<workerVars, sub>>
  BY DEF BeginChunks
<1>3. OneOwner(writable, pools.submitted, sub.chunk)
  BY <1>1, WritableOwner DEF Places
<1>4. CASE UNCHANGED <<workerVars, sub, pools>>
  BY <1>1, <1>4, QuietKeeps DEF Quiet, Reaps, workerVars
<1>5. CASE pools' = [pools EXCEPT !.writable = writable] /\ UNCHANGED <<workerVars, sub>>
  BY <1>1, <1>3, <1>5, RefillPlaces
<1>6. CASE /\ writable # <<>> /\ Start(Head(writable), sub.current, TRUE)
           /\ sub' = [sub EXCEPT !.chunk = Head(writable)]
           /\ pools' = [pools EXCEPT !.writable = Tail(writable)]
  <2>1. Head(writable) \in Allocators /\ writable \in Seq(Allocators)
    BY <1>1, <1>6, WritableAllocator
  <2>2. /\ sub'.chunk = Head(writable) /\ sub'.current = sub.current
        /\ pools'.writable = Tail(writable) /\ pools'.submitted = pools.submitted
    BY <1>1, <1>6 DEF SubStates, PoolStates
  <2>3. OneOwner(pools.writable, pools.submitted, sub.chunk)'
    BY <1>3, <1>6, <2>1, <2>2, TakesFirst
  <2>4. /\ state = "Idle" /\ ~Failed(result) /\ state' = "Queued"
        /\ UNCHANGED <<result, wpc, whr, list, queue>>
        /\ job'.fence_value = sub.current /\ job'.operation = "Begin"
    BY <1>1, <1>6, <2>1, StartState
  <2>5. job'.allocator = Head(writable)
    BY <1>6 DEF Start
  <2>6. IsCurrent(job.allocator)'
    BY <2>1, <2>2, <2>5, AllocatorsAssumption DEF IsCurrent
  <2> QED BY <1>1, <2>1, <2>2, <2>3, <2>4, <2>5, <2>6, HandsPlaces
<1> QED BY <1>2, <1>4, <1>5, <1>6

LEMMA EndSubmitPlaces == ASSUME IInv, IInv', Places, EndSubmit PROVE Places'
<1>1. /\ Types /\ cp.pc = "end_submit" /\ sub.chunk = NoAllocator /\ sub \in SubStates
      /\ UNCHANGED <<sub, env>> /\ pools \in PoolStates /\ ~HandedOver /\ env.gpu \in Nat
  BY QueueTypes DEF IInv, PcInv, EndSubmit, At, Types, HandedOver
<1>2. PICK writable \in Writable :
        /\ pools' = [pools EXCEPT !.writable = writable]
        /\ \/ UNCHANGED workerVars
           \/ /\ writable # <<>> /\ Start(Head(writable), sub.current, FALSE)
              /\ NotifyThen("end_books")
  BY DEF EndSubmit
<1>3. OneOwner(writable, pools.submitted, sub.chunk)
  BY <1>1, WritableOwner DEF Places
<1>4. CASE UNCHANGED workerVars
  BY <1>1, <1>2, <1>3, <1>4, RefillPlaces
<1>5. CASE writable # <<>> /\ Start(Head(writable), sub.current, FALSE) /\ NotifyThen("end_books")
  <2>1. Head(writable) \in Allocators
    BY <1>1, <1>5, WritableAllocator
  <2>2. pools'.writable = writable /\ pools'.submitted = pools.submitted
    BY <1>1, <1>2 DEF PoolStates
  <2>3. OneOwner(pools.writable, pools.submitted, sub.chunk)'
    BY <1>1, <1>3, <2>2
  <2>4. /\ state = "Idle" /\ ~Failed(result) /\ state' = "Queued"
        /\ UNCHANGED <<result, wpc, whr, list, queue>>
        /\ job'.fence_value = sub.current /\ session_active' = FALSE
    BY <1>1, <1>5, <2>1, StartState
  <2>5. job'.allocator = Head(writable)
    BY <1>5 DEF Start
  <2>6. HandedOver'
    BY <1>1, <1>5, NotifyThenState DEF HandedOver
  <2>7. IsCurrent(job.allocator)'
    BY <1>1, <1>5, <2>1, <2>2, <2>5, <2>6 DEF IsCurrent
  <2> QED BY <1>1, <2>1, <2>2, <2>3, <2>4, <2>5, <2>7, HandsPlaces
<1> QED BY <1>2, <1>4, <1>5

(* The session's job keeps the allocator it began with. *)
LEMMA SessionAllocator ==
  ASSUME IInv, Places, session_active, state \in {"Idle", "Complete"}, ~Failed(result),
         sub.chunk # NoAllocator, job.operation \notin FinalOperations
  PROVE  /\ job.fence_value = sub.current /\ IsCurrent(job.allocator)
         /\ list.allocator = job.allocator
<1>1. wpc \notin ExecutePCs /\ sub.current \in Nat
  BY QueueTypes DEF IInv, SlotOwned
<1>2. ~Broken /\ ~ListIsStale /\ InHand
  BY <1>1 DEF Broken, ListIsStale, ExecutePCs, InHand
<1>3. Used(job.allocator, job.fence_value) /\ list.allocator = job.allocator
  BY <1>2 DEF Places, JobPlace
<1>4. job.fence_value = sub.current
  BY DEF IInv, JobInv
<1>5. \A k \in 1 .. Len(pools.submitted) : pools.submitted[k].last < sub.current
  BY DEF Places
<1>6. ASSUME NEW k \in 1 .. Len(pools.submitted),
             pools.submitted[k] = [allocator |-> job.allocator, last |-> job.fence_value]
      PROVE  FALSE
  <2>1. pools.submitted[k].last = sub.current
    BY <1>4, <1>6
  <2> QED BY <1>1, <1>5, <2>1
<1> QED BY <1>3, <1>4, <1>6 DEF Used

LEMMA AppendChunkPlaces == ASSUME IInv, IInv', Places, AppendChunk PROVE Places'
<1>1. /\ Types /\ cp.pc = "chunk" /\ sub.chunk # NoAllocator /\ ~HandedOver
      /\ UNCHANGED <<sub, pools, env>> /\ UNCHANGED <<wpc, whr, result, list, queue>>
      /\ env.gpu \in Nat /\ job \in Jobs
  BY QueueTypes DEF IInv, AppendChunk, TryAppendChunk, At, HandedOver, Types
<1>2. CASE ~CanAppend
  <2>1. Reaps
    BY <1>2 DEF AppendChunk, TryAppendChunk, Reaps
  <2> QED BY <1>1, <2>1, QuietKeeps DEF Quiet
<1>3. CASE CanAppend
  <2>1. state \in {"Idle", "Complete"} /\ ~Failed(result) /\ ReapedSession
    BY <1>1, <1>3 DEF CanAppend, SlotOpen, ReapedState, Reaping, Types
  <2>2. session_active /\ job.operation \notin FinalOperations
    BY <2>1 DEF ReapedSession, ReapingFinal, Reaping, IInv, JobInv
  <2>3. /\ job.fence_value = sub.current /\ IsCurrent(job.allocator)
        /\ list.allocator = job.allocator
    BY <1>1, <2>1, <2>2, SessionAllocator
  <2>4. job' = [job EXCEPT !.operation = "Append"] /\ state' = "Queued"
    BY <1>3, <2>2 DEF AppendChunk, TryAppendChunk, ReapedJob, ReapingFinal
  <2>5. job'.allocator = job.allocator /\ job'.fence_value = job.fence_value
    BY <1>1, <2>4 DEF Jobs
  <2>6. IsCurrent(job.allocator)' /\ job'.allocator \in Allocators
    BY <1>1, <2>3, <2>5 DEF IsCurrent
  <2>7. OneOwner(pools.writable, pools.submitted, sub.chunk)'
    BY <1>1 DEF Places
  <2> QED BY <1>1, <2>1, <2>3, <2>4, <2>5, <2>6, <2>7, HandsPlaces
<1> QED BY <1>2, <1>3

LEMMA EndFinishChunksPlaces == ASSUME IInv, IInv', Places, EndFinishChunks PROVE Places'
<1>1. /\ Types /\ cp.pc = "end_submit" /\ sub.chunk # NoAllocator /\ ~HandedOver
      /\ UNCHANGED <<sub, pools, env>> /\ env.gpu \in Nat /\ job \in Jobs
  BY QueueTypes DEF IInv, EndFinishChunks, At, HandedOver, Types
<1>2. CASE UNCHANGED workerVars
  BY <1>1, <1>2, QuietKeeps DEF Quiet, Reaps, workerVars
<1>3. CASE FinishChunks
  <2>1. state = "Idle" /\ ~Failed(result) /\ session_active
    BY <1>3 DEF FinishChunks, CanFinish, SlotOpen
  <2>2. job.operation \notin FinalOperations
    BY <2>1 DEF IInv, JobInv
  <2>3. /\ job.fence_value = sub.current /\ IsCurrent(job.allocator)
        /\ list.allocator = job.allocator
    BY <1>1, <2>1, <2>2, SessionAllocator
  <2>4. /\ job' = [job EXCEPT !.operation = "Finish"] /\ state' = "Queued"
        /\ UNCHANGED <<wpc, whr, result, list, queue>>
    BY <1>3 DEF FinishChunks
  <2>5. job'.allocator = job.allocator /\ job'.fence_value = job.fence_value
    BY <1>1, <2>4 DEF Jobs
  <2>6. IsCurrent(job.allocator)' /\ job'.allocator \in Allocators
    BY <1>1, <2>3, <2>5 DEF IsCurrent
  <2>7. OneOwner(pools.writable, pools.submitted, sub.chunk)'
    BY <1>1 DEF Places
  <2> QED BY <1>1, <2>1, <2>3, <2>4, <2>5, <2>6, <2>7, HandsPlaces
<1> QED BY <1>2, <1>3 DEF EndFinishChunks

(* The submission is counted: its allocator is submitted under its value. *)
LEMMA EndBooksPlaces == ASSUME IInv, IInv', Places, EndBooks PROVE Places'
<1>1. /\ UNCHANGED <<workerVars, env>> /\ Types /\ sub \in SubStates /\ pools \in PoolStates
      /\ HandedOver /\ env.gpu \in Nat
  BY QueueTypes DEF IInv, Types, EndBooks, At, HandedOver
<1> DEFINE w == pools.writable
           s == pools.submitted
           n == Len(s)
           a == UsedAllocator
           e == [allocator |-> a, last |-> sub.current]
           t == Append(s, e)
<1>2. /\ w \in Seq(Allocators) /\ s \in Seq([allocator : Allocators, last : Nat]) /\ n \in Nat
      /\ OneOwner(w, s, sub.chunk) /\ (sub.chunk = NoAllocator => w # <<>>)
  BY <1>1 DEF PoolStates, Places, IInv, PoolInv
<1>3. a \in Allocators /\ LeftWritable \in Seq(Allocators) /\ OneOwner(LeftWritable, s, a)
  <2>1. CASE sub.chunk # NoAllocator
    BY <1>1, <1>2, <2>1 DEF UsedAllocator, LeftWritable, SubStates
  <2>2. CASE sub.chunk = NoAllocator
    BY <1>2, <2>2, TakesFirst DEF UsedAllocator, LeftWritable
  <2> QED BY <2>1, <2>2
<1>4. pools'.writable = LeftWritable /\ pools'.submitted = t
  BY DEF EndBooks
<1>5. sub'.current = sub.current + 1 /\ sub'.chunk = NoAllocator /\ sub.current \in Nat \ {0}
  <2>1. sub' = [sub EXCEPT !.open = FALSE, !.current = sub.current + 1, !.chunk = NoAllocator,
                           !.direct = FALSE]
    BY DEF EndBooks
  <2> QED BY <1>1, <2>1 DEF SubStates
<1>6. \A b : IsCurrent(b) => b = a
  BY <1>1 DEF IsCurrent, UsedAllocator
<1> HIDE DEF a
<1>7. OneOwner(pools.writable, pools.submitted, sub.chunk)'
  BY <1>2, <1>3, <1>4, <1>5, Submits
<1>8. e \in [allocator : Allocators, last : Nat] /\ e.last = sub.current
  BY <1>3, <1>5
<1> HIDE DEF e
<1>9. /\ Len(t) = n + 1 /\ t[n + 1] = e /\ \A k \in 1 .. n : t[k] = s[k]
  BY <1>2, <1>8
<1>10. \A k \in 1 .. n : 0 < s[k].last /\ s[k].last < sub.current /\ s[k].last \in Nat
  <2>1. \A k \in 1 .. n : s[k] \in [allocator : Allocators, last : Nat]
    BY <1>2, ElementOfSeq
  <2> QED BY <2>1 DEF Places
<1> HIDE DEF t, n, s
<1>11. \A k \in 1 .. Len(t) : k \in 1 .. n \/ k = n + 1
  BY <1>2, <1>9
<1>12. \A k \in 1 .. Len(pools'.submitted) :
         0 < pools'.submitted[k].last /\ pools'.submitted[k].last < sub'.current
  BY <1>4, <1>5, <1>8, <1>9, <1>10, <1>11
<1>13. ASSUME NEW b, NEW v, Used(b, v) PROVE Used(b, v)'
  <2>1. CASE v = sub.current /\ IsCurrent(b)
    <3>1. t[n + 1] = [allocator |-> b, last |-> v] /\ n + 1 \in 1 .. Len(t)
      BY <1>2, <1>6, <1>9, <2>1 DEF e
    <3> QED BY <1>4, <3>1 DEF Used
  <2>2. ASSUME NEW k \in 1 .. n, s[k] = [allocator |-> b, last |-> v] PROVE Used(b, v)'
    <3>1. t[k] = [allocator |-> b, last |-> v] /\ k \in 1 .. Len(t)
      BY <1>2, <1>9, <2>2
    <3> QED BY <1>4, <3>1 DEF Used
  <2> QED BY <1>13, <2>1, <2>2 DEF Used, s, n
<1>14. UNCHANGED <<wpc, whr, result, list, queue, job>> /\ Reaps /\ (InHand' <=> InHand)
  BY <1>1 DEF workerVars, Reaps, InHand, Executing
<1>15. StillUsed
  <2>1. ASSUME ~Broken, InHand PROVE Used(job.allocator, job.fence_value)'
    <3>1. Used(job.allocator, job.fence_value)
      BY <2>1 DEF Places, JobPlace
    <3> QED BY <1>13, <1>14, <3>1
  <2>2. ASSUME ~Broken, NEW i \in env.gpu + 1 .. Len(queue), queue[i].kind = "execute",
               i < Len(queue)
        PROVE  Used(queue[i].allocator, queue[i + 1].value)'
    <3>1. Used(queue[i].allocator, queue[i + 1].value)
      BY <2>2 DEF Places, EntryPlace
    <3> QED BY <1>13, <1>14, <3>1
  <2> QED BY <1>14, <2>1, <2>2 DEF StillUsed
<1>16. env'.gpu >= env.gpu
  BY <1>1
<1> QED BY <1>7, <1>12, <1>14, <1>15, <1>16, StillKeeps

(* What the CP puts on the queue behind what it has flushed. *)
LEMMA AddsPlaces ==
  ASSUME IInv, IInv', Places, cp.pc \in Flushed, NEW e \in Entries, e.kind # "execute",
         e.allocator = NoAllocator, queue' = Append(queue, e),
         UNCHANGED <<state, session_active, job, wpc, whr, result, list, pools, env>>,
         sub'.current = sub.current, sub'.chunk = sub.chunk
  PROVE  Places'
<1> DEFINE n == Len(queue)
<1>1. /\ n \in Nat /\ Len(queue') = n + 1 /\ queue'[n + 1] = e
      /\ \A k \in 1 .. n : queue'[k] = queue[k]
  BY QueueGrows DEF IInv
<1>2. /\ ~Broken /\ ~HandedOver /\ env.gpu \in Nat
      /\ \A i \in 1 .. n : queue[i].kind = "execute" => i < n
  BY NothingUnderway, QueueTypes DEF HandedOver, Flushed, IInv
<1>3. ASSUME NEW a, NEW v, Used(a, v) PROVE Used(a, v)'
  BY <1>2, <1>3 DEF Used, IsCurrent
<1>4. JobPlace'
  BY <1>2, <1>3 DEF Places, JobPlace, Broken, InHand, Executing, ListIsStale
<1>5. \A i \in env.gpu + 1 .. n : EntryPlace(i)
  BY <1>2 DEF Places
<1> HIDE DEF n
<1>6. ASSUME NEW i \in env.gpu + 1 .. n + 1 PROVE EntryPlace(i)'
  <2>1. (i \in env.gpu + 1 .. n /\ i \in 1 .. n /\ i + 1 \in 1 .. n + 1) \/ i = n + 1
    BY <1>1, <1>2
  <2>2. CASE i = n + 1
    BY <1>1, <2>2 DEF EntryPlace
  <2>3. CASE i \in env.gpu + 1 .. n /\ i \in 1 .. n
    <3>1. EntryPlace(i) /\ queue'[i] = queue[i] /\ (queue[i].kind = "execute" => i < n)
      BY <1>1, <1>2, <1>5, <2>3
    <3>2. CASE queue[i].kind # "execute"
      BY <3>1, <3>2 DEF EntryPlace
    <3>3. CASE queue[i].kind = "execute"
      <4>1. i + 1 \in 1 .. n /\ i < n /\ i < n + 1
        BY <1>1, <2>3, <3>1, <3>3
      <4>2. Used(queue[i].allocator, queue[i + 1].value)
        BY <3>1, <3>3, <4>1 DEF EntryPlace, n
      <4> QED BY <1>1, <1>3, <3>1, <3>3, <4>1, <4>2 DEF EntryPlace
    <3> QED BY <3>2, <3>3
  <2> QED BY <2>1, <2>2, <2>3
<1> QED BY <1>1, <1>4, <1>6 DEF Places

LEMMA DirectPlaces ==
  ASSUME IInv, IInv', Places, UpdateTileMappings \/ FenceDirectSignal
  PROVE  Places'
<1>1. /\ Types /\ sub \in SubStates /\ <<>> \in Seq(Commands) /\ env.gpu \in Nat
      /\ cp.pc \in Flushed /\ ~HandedOver
      /\ UNCHANGED <<state, session_active, job, wpc, whr, result, list, pools, env>>
  BY QueueTypes DEF IInv, Types, UpdateTileMappings, FenceDirectSignal, At, Flushed, HandedOver,
                    slotVars
<1>2. CASE UpdateTileMappings
  <2>1. DirectEntry \in Entries /\ DirectEntry.kind = "direct"
        /\ DirectEntry.allocator = NoAllocator
    BY <1>1 DEF DirectEntry, Entries, SubStates
  <2>2. queue' = Append(queue, DirectEntry) /\ sub'.current = sub.current /\ sub'.chunk = sub.chunk
    BY <1>1, <1>2 DEF UpdateTileMappings, SubStates
  <2> QED BY <1>1, <2>1, <2>2, AddsPlaces
<1>3. CASE FenceDirectSignal
  <2> DEFINE e == DirectSignalEntry(sub'.direct_last)
  <2>1. sub'.current = sub.current /\ sub'.chunk = sub.chunk /\ sub'.direct_last \in Nat
    BY <1>1, <1>3 DEF FenceDirectSignal, SubStates
  <2>2. e \in Entries /\ e.kind = "direct_signal" /\ e.allocator = NoAllocator
    BY <1>1, <2>1 DEF DirectSignalEntry, Entries
  <2>3. queue' = queue \/ queue' = Append(queue, e)
    BY <1>3 DEF FenceDirectSignal
  <2> HIDE DEF e
  <2>4. CASE queue' = Append(queue, e)
    BY <1>1, <2>1, <2>2, <2>4, AddsPlaces
  <2>5. CASE queue' = queue
    BY <1>1, <2>1, <2>5, QuietKeeps DEF Quiet, Reaps
  <2> QED BY <2>3, <2>4, <2>5
<1> QED BY <1>2, <1>3

(* The CP replays the submission itself. *)
LEMMA EndReplayPlaces == ASSUME IInv, IInv', Places, EndReplay PROVE Places'
<1> DEFINE n == Len(queue)
           x == ExecuteEntry(source, Head(pools.writable))
           e == SignalEntry(sub.current)
<1>1. /\ cp.pc \in Flushed /\ sub.chunk = NoAllocator /\ pools.writable # <<>> /\ Types
      /\ UNCHANGED <<state, session_active, job, wpc, whr, result, list, pools, sub>>
      /\ sub \in SubStates /\ pools \in PoolStates /\ source \in Seq(Commands) /\ env \in EnvStates
  BY DEF IInv, Types, PcInv, PoolInv, EndReplay, At, slotVars, Flushed
<1>2. HandedOver' /\ ~HandedOver
  BY <1>1, GotoState DEF EndReplay, At, HandedOver, CpPcs
<1>3. /\ ~Broken /\ env.gpu \in Nat /\ n \in Nat /\ env.gpu <= n /\ state = "Idle"
      /\ wpc \notin ExecutePCs
      /\ \A i \in 1 .. n : queue[i].kind = "execute" => i < n
  BY <1>1, NothingUnderway, QueueTypes
<1>4. CASE UNCHANGED queue /\ env' = [env EXCEPT !.removed = TRUE]
  <2>1. env'.gpu = env.gpu
    BY <1>1, <1>4 DEF EnvStates
  <2> QED BY <1>1, <1>2, <1>3, <1>4, <2>1, QuietKeeps DEF Quiet, Reaps
<1>5. CASE queue' = queue \o <<x, e>> /\ UNCHANGED env
  <2>1. /\ Head(pools.writable) \in Allocators /\ <<>> \in Seq(Commands)
    BY <1>1 DEF PoolStates
  <2>2. x \in Entries /\ x.kind = "execute" /\ x.allocator = Head(pools.writable)
    BY <1>1, <2>1 DEF ExecuteEntry, Entries
  <2>3. /\ e \in Entries /\ e.kind = "signal" /\ e.value = sub.current
        /\ e.allocator = NoAllocator
    BY <1>1, <2>1 DEF SignalEntry, Entries, SubStates
  <2> HIDE DEF x, e
  <2>4. /\ Len(queue') = n + 2 /\ queue'[n + 1] = x /\ queue'[n + 2] = e
        /\ \A i \in 1 .. n : queue'[i] = queue[i]
    <3> DEFINE two == <<x, e>>
    <3>1. two \in Seq(Entries) /\ Len(two) = 2 /\ two[1] = x /\ two[2] = e
      BY <2>2, <2>3
    <3>2. queue \in Seq(Entries) /\ queue' = queue \o two
      BY <1>1, <1>5 DEF Types
    <3> HIDE DEF two
    <3>3. /\ Len(queue') = n + Len(two)
          /\ \A i \in 1 .. n + Len(two) : queue'[i] = IF i <= n THEN queue[i] ELSE two[i - n]
      BY <3>1, <3>2, ConcatProperties
    <3> HIDE DEF n
    <3>4. /\ n + 1 \in 1 .. n + 2 /\ n + 2 \in 1 .. n + 2 /\ ~(n + 1 <= n) /\ ~(n + 2 <= n)
          /\ (n + 1) - n = 1 /\ (n + 2) - n = 2
          /\ \A i \in 1 .. n : i \in 1 .. n + 2 /\ i <= n
      BY <1>3
    <3> QED BY <3>1, <3>3, <3>4
  <2>5. ASSUME NEW a, NEW v, Used(a, v) PROVE Used(a, v)'
    BY <1>1, <1>2, <2>5 DEF Used, IsCurrent
  <2>7. JobPlace'
    BY <1>1, <1>3, <2>5 DEF Places, JobPlace, Broken, InHand, Executing, ListIsStale
  <2>8. \A i \in env.gpu + 1 .. n : EntryPlace(i)
    BY <1>3 DEF Places
  <2> HIDE DEF n
  <2>9. ASSUME NEW i \in env.gpu + 1 .. n + 2 PROVE EntryPlace(i)'
    <3>1. (i \in env.gpu + 1 .. n /\ i \in 1 .. n) \/ i = n + 1 \/ i = n + 2
      BY <1>3
    <3>2. CASE i = n + 2
      BY <2>3, <2>4, <3>2 DEF EntryPlace
    <3>3. CASE i = n + 1
      <4>1. i < n + 2 /\ i + 1 = n + 2
        BY <1>3, <3>3
      <4>2. /\ queue'[i].kind = "execute" /\ queue'[i].allocator = Head(pools'.writable)
            /\ queue'[i + 1].value = sub'.current
        BY <1>1, <2>2, <2>3, <2>4, <3>3, <4>1
      <4>3. IsCurrent(Head(pools.writable))'
        BY <1>1, <1>2, <2>1 DEF IsCurrent
      <4> QED BY <2>4, <4>1, <4>2, <4>3 DEF EntryPlace, Used, IsCurrent
    <3>4. CASE i \in env.gpu + 1 .. n /\ i \in 1 .. n
      <4>1. EntryPlace(i) /\ queue'[i] = queue[i] /\ (queue[i].kind = "execute" => i < n)
        BY <1>3, <2>4, <2>8, <3>4 DEF n
      <4>2. CASE queue[i].kind # "execute"
        BY <4>1, <4>2 DEF EntryPlace
      <4>3. CASE queue[i].kind = "execute"
        <5>1. i + 1 \in 1 .. n /\ i < n /\ i < n + 2
          BY <1>3, <3>4, <4>1, <4>3
        <5>2. Used(queue[i].allocator, queue[i + 1].value)
          BY <4>1, <4>3, <5>1 DEF EntryPlace, n
        <5> QED BY <2>4, <2>5, <4>1, <4>3, <5>1, <5>2 DEF EntryPlace
      <4> QED BY <4>2, <4>3
    <3> QED BY <3>1, <3>2, <3>3, <3>4
  <2> QED BY <1>1, <1>5, <2>4, <2>7, <2>9 DEF Places
<1> QED BY <1>4, <1>5 DEF EndReplay

LEMMA NextPlaces == IInv /\ Places /\ [Next]_vars => Places'
<1> SUFFICES ASSUME IInv, Places, [Next]_vars PROVE Places'
  OBVIOUS
<1>1. IInv'
  BY NextKeeps
<1>2. CASE CpContinue
  <2> SUFFICES ASSUME ~Places' PROVE FALSE
    OBVIOUS
  <2>1. ~(BeginOpen \/ Record \/ MemexportReadback \/ BeginReadback \/ RecordReadback
          \/ ReplayNativeDrawBoundary \/ CheckChunkSlot \/ Notify \/ ChunkResult
          \/ EndFlush \/ EndSwapFlush \/ EndClose)
    BY <1>1, QuietSteps, QuietKeeps
  <2>2. ~(FenceEnter \/ FenceNoDirect \/ FenceDirectFlush \/ FenceDirectWait \/ FenceFlush
          \/ AwaitFlush \/ AfterNoProof \/ Terminate
          \/ DestroyWait \/ DestroyStop \/ DestroyJoin \/ CallDirect \/ DirectFlush)
    BY <1>1, QuietSteps, QuietKeeps
  <2>3. ~(AppendChunk \/ BeginChunks \/ EndFinishChunks \/ EndSubmit \/ EndReplay \/ EndBooks)
    BY <1>1, AppendChunkPlaces, BeginChunksPlaces, EndFinishChunksPlaces, EndSubmitPlaces,
       EndReplayPlaces, EndBooksPlaces
  <2>4. ~(FenceDirectSignal \/ FenceCheck \/ FenceWait \/ AfterProof \/ UpdateTileMappings)
    BY <1>1, DirectPlaces, FencePlaces, AfterProofPlaces
  <2> QED BY <1>2, <2>1, <2>2, <2>3, <2>4 DEF CpContinue
<1>3. CASE CpCall \/ GpuStep \/ DeviceRemoved
  BY <1>1, <1>3, QuietSteps, QuietKeeps
<1>4. CASE FenceWaitFails
  BY <1>1, <1>4, FencePlaces
<1>5. CASE WorkerStep
  BY <1>1, <1>5, WorkerPlaces
<1>6. CASE UNCHANGED vars
  <2>1. /\ UNCHANGED <<state, session_active, job, wpc, whr, result, list, queue>>
        /\ UNCHANGED <<cp, sub, pools, env>> /\ env.gpu \in Nat
    BY <1>6, QueueTypes DEF vars, workerVars, slotVars, cpuVars, IInv
  <2> QED BY <1>1, <2>1, QuietKeeps DEF Quiet, Reaps, HandedOver
<1> QED BY <1>2, <1>3, <1>4, <1>5, <1>6 DEF Next

LEMMA PlacesAlways == Spec => []Places
<1> QED BY PlacesInit, Invariance, NextPlaces, PTL DEF Spec

-----------------------------------------------------------------------------
(* Idle allocators with one owner each. *)

(* An allocator is used under one value. *)
LEMMA UsedOnce ==
  ASSUME Types, Places, NEW a, NEW u, NEW v, Used(a, u), Used(a, v)
  PROVE  u = v
<1>1. /\ \A i, j \in 1 .. Len(pools.submitted) :
           pools.submitted[i].allocator = pools.submitted[j].allocator => i = j
      /\ \A i \in 1 .. Len(pools.writable), j \in 1 .. Len(pools.submitted) :
           pools.writable[i] # pools.submitted[j].allocator
      /\ \A j \in 1 .. Len(pools.submitted) : pools.submitted[j].allocator # sub.chunk
  BY DEF Places, OneOwner
<1>2. pools.writable # <<>> => Head(pools.writable) = pools.writable[1] /\ 1 \in 1 .. Len(pools.writable)
  BY DEF Types, PoolStates
<1>3. ASSUME NEW k \in 1 .. Len(pools.submitted), pools.submitted[k].allocator = a
      PROVE  ~IsCurrent(a)
  BY <1>1, <1>2, <1>3 DEF IsCurrent
<1> QED BY <1>1, <1>3 DEF Used

(* An entry that is pending and that of a submission in hand or not yet     *)
(* begun come from different allocators.                                    *)
LEMMA PendingEntry ==
  ASSUME IInv, Places, ~Broken, wpc # "signal", NEW x \in GpuPending, x.allocator # NoAllocator
  PROVE  \E i \in env.gpu + 1 .. Len(queue) :
           /\ i \in 1 .. Len(queue) /\ i + 1 \in 1 .. Len(queue) /\ IsSignal(i + 1)
           /\ Used(x.allocator, queue[i + 1].value)
<1>1. PICK i \in env.gpu + 1 .. Len(queue) : queue[i] = x
  BY DEF GpuPending
<1>2. EntryPlace(i) /\ i \in 1 .. Len(queue) /\ Len(queue) \in Nat
  BY QueueTypes DEF Places, IInv
<1>3. queue[i].kind = "execute"
  BY <1>1, <1>2 DEF EntryPlace
<1>4. i < Len(queue) /\ IsSignal(i + 1)
  BY <1>2, <1>3 DEF IInv, OrderInv
<1>5. i + 1 \in 1 .. Len(queue)
  BY <1>2, <1>4
<1> QED BY <1>1, <1>2, <1>3, <1>4, <1>5 DEF EntryPlace

LEMMA IdleAllocators == IInv /\ Places => AllocatorIsIdle
<1> SUFFICES ASSUME IInv, Places PROVE AllocatorIsIdle
  OBVIOUS
<1>1. Types /\ \A i \in 1 .. Len(queue) : queue[i].value \in Nat /\ job.fence_value \in Nat
  BY QueueTypes DEF IInv
<1>2. ASSUME wpc \in {"reset_allocator", "reset_list", "replay", "close"}, NEW x \in GpuPending
      PROVE  x.allocator # job.allocator
  <2>1. SUFFICES ASSUME x.allocator = job.allocator PROVE FALSE
    OBVIOUS
  <2>2. /\ state = "Running" /\ ~Broken
        /\ \A i \in 1 .. Len(queue) : IsSignal(i) => queue[i].value < job.fence_value
    BY <1>2, ExecutingFacts DEF ExecutePCs
  <2>3. job.allocator \in Allocators /\ Used(job.allocator, job.fence_value)
    BY <1>2, <2>2 DEF Places, JobPlace, InHand, Executing, ExecutePCs
  <2>4. x.allocator # NoAllocator
    BY <2>1, <2>3, AllocatorsAssumption
  <2>5. PICK i \in env.gpu + 1 .. Len(queue) :
          /\ i \in 1 .. Len(queue) /\ i + 1 \in 1 .. Len(queue) /\ IsSignal(i + 1)
          /\ Used(x.allocator, queue[i + 1].value)
    BY <1>2, <2>2, <2>4, PendingEntry
  <2>6. queue[i + 1].value = job.fence_value
    BY <1>1, <2>1, <2>3, <2>5, UsedOnce
  <2> QED BY <1>1, <2>2, <2>5, <2>6
<1>3. ASSUME At("end_replay"), NEW x \in GpuPending PROVE x.allocator # Head(pools.writable)
  <2>1. SUFFICES ASSUME x.allocator = Head(pools.writable) PROVE FALSE
    OBVIOUS
  <2>2. ~Broken /\ wpc # "signal" /\ sub.chunk = NoAllocator /\ pools.writable # <<>> /\ ~HandedOver
    BY <1>3, NothingUnderway DEF At, Flushed, IInv, PcInv, PoolInv, HandedOver, ExecutePCs
  <2>3. /\ Head(pools.writable) \in Allocators /\ 1 \in 1 .. Len(pools.writable)
        /\ Head(pools.writable) = pools.writable[1]
    BY <1>1, <2>2 DEF Types, PoolStates
  <2>4. x.allocator # NoAllocator
    BY <2>1, <2>3, AllocatorsAssumption
  <2>5. PICK i \in env.gpu + 1 .. Len(queue) : Used(x.allocator, queue[i + 1].value)
    BY <2>2, <2>4, PendingEntry
  <2>6. \E k \in 1 .. Len(pools.submitted) : pools.submitted[k].allocator = x.allocator
    BY <2>2, <2>5 DEF Used, IsCurrent
  <2> QED BY <2>1, <2>3, <2>6 DEF Places, OneOwner
<1> QED BY <1>2, <1>3 DEF AllocatorIsIdle

LEMMA OwnedOnce == IInv /\ Places => AllocatorHasOneOwner
<1> SUFFICES ASSUME IInv, Places PROVE AllocatorHasOneOwner
  OBVIOUS
<1> DEFINE w == pools.writable
           s == pools.submitted
           c == sub.chunk
           mid == [i \in 1 .. Len(s) |-> s[i].allocator]
           open == IF c = NoAllocator THEN <<>> ELSE <<c>>
           both == w \o mid
           owners == both \o open
           l == Len(w)
           m == Len(s)
           k == Len(open)
<1>1. /\ w \in Seq(Allocators) /\ s \in Seq([allocator : Allocators, last : Nat])
      /\ c \in Allocators \union {NoAllocator} /\ l \in Nat /\ m \in Nat
  BY DEF IInv, Types, PoolStates, SubStates
<1>2. mid \in Seq(Allocators) /\ Len(mid) = m /\ \A i \in 1 .. m : mid[i] = s[i].allocator
  <2>1. \A i \in 1 .. m : s[i] \in [allocator : Allocators, last : Nat]
    BY <1>1, ElementOfSeq
  <2>2. mid \in [1 .. m -> Allocators]
    BY <2>1
  <2> QED BY <1>1, <2>2
<1>3. open \in Seq(Allocators) /\ k \in Nat /\ \A i \in 1 .. k : i = 1 /\ open[i] = c
  <2>1. CASE c = NoAllocator
    <3>1. <<>> \in Seq(Allocators) /\ Len(<<>>) = 0
      OBVIOUS
    <3> QED BY <2>1, <3>1
  <2>2. CASE c # NoAllocator
    <3>1. c \in Allocators
      BY <1>1, <2>2
    <3>2. <<c>> \in Seq(Allocators) /\ Len(<<c>>) = 1 /\ <<c>>[1] = c
      BY <3>1
    <3> QED BY <2>2, <3>2
  <2> QED BY <2>1, <2>2
<1>4. /\ \A i, j \in 1 .. l : w[i] = w[j] => i = j
      /\ \A i, j \in 1 .. m : s[i].allocator = s[j].allocator => i = j
      /\ \A i \in 1 .. l, j \in 1 .. m : w[i] # s[j].allocator
      /\ \A i \in 1 .. l : w[i] # c
      /\ \A j \in 1 .. m : s[j].allocator # c
  BY DEF Places, OneOwner
<1>5. AllocatorHasOneOwner <=> \A i, j \in 1 .. Len(owners) : i # j => owners[i] # owners[j]
  BY DEF AllocatorHasOneOwner
<1> HIDE DEF w, s, c, mid, open, l, m, k
<1>6. /\ both \in Seq(Allocators) /\ Len(both) = l + Len(mid)
      /\ \A i \in 1 .. l + Len(mid) : both[i] = IF i <= l THEN w[i] ELSE mid[i - l]
  BY <1>1, <1>2, ConcatProperties DEF l
<1> HIDE DEF both
<1>7. /\ Len(owners) = Len(both) + k
      /\ \A i \in 1 .. Len(both) + k :
           owners[i] = IF i <= Len(both) THEN both[i] ELSE open[i - Len(both)]
  BY <1>3, <1>6, ConcatProperties DEF k
<1> HIDE DEF owners
<1>8. ASSUME NEW i \in 1 .. l + m + k
      PROVE  \/ i \in 1 .. l /\ owners[i] = w[i]
             \/ i - l \in 1 .. m /\ owners[i] = s[i - l].allocator
             \/ i = l + m + 1 /\ owners[i] = c
  <2>1. \/ i \in 1 .. l /\ i \in 1 .. l + m /\ i <= l /\ i <= l + m
        \/ i \in 1 .. l + m /\ ~(i <= l) /\ i <= l + m /\ i - l \in 1 .. m
        \/ ~(i <= l + m) /\ i - (l + m) \in 1 .. k
    BY <1>1, <1>3
  <2>2. ~(i <= l + m) /\ i - (l + m) \in 1 .. k => owners[i] = c /\ i = l + m + 1
    <3>1. i - (l + m) \in 1 .. k => i - (l + m) = 1 /\ open[i - (l + m)] = c
      BY <1>3
    <3>2. i - (l + m) = 1 => i = l + m + 1
      BY <1>1
    <3> QED BY <1>2, <1>6, <1>7, <3>1, <3>2
  <2> QED BY <1>2, <1>6, <1>7, <2>1, <2>2
<1>9. ASSUME NEW i \in 1 .. l + m + k, NEW j \in 1 .. l + m + k, owners[i] = owners[j] PROVE i = j
  <2> DEFINE p == i - l
             q == j - l
  <2>1. /\ \/ i \in 1 .. l /\ owners[i] = w[i]
           \/ p \in 1 .. m /\ owners[i] = s[p].allocator
           \/ i = l + m + 1 /\ owners[i] = c
        /\ \/ j \in 1 .. l /\ owners[j] = w[j]
           \/ q \in 1 .. m /\ owners[j] = s[q].allocator
           \/ j = l + m + 1 /\ owners[j] = c
    BY <1>8
  <2>2. p = q => i = j
    BY <1>1
  <2> HIDE DEF p, q
  <2> QED BY <1>4, <1>9, <2>1, <2>2
<1> QED BY <1>2, <1>5, <1>6, <1>7, <1>9

-----------------------------------------------------------------------------
(* Commands are recorded into open submissions.                             *)

Flags ==
  /\ worker \in {"unattempted", "ready", "unavailable"}
  /\ lost \in BOOLEAN /\ clear \in BOOLEAN /\ readback \in BOOLEAN

(* What a step may do to the flags, and to the profile. *)
LEMMA FlagMoves ==
  ASSUME [Next]_vars
  PROVE  /\ worker' = worker \/ worker' \in {worker} \union Workers
         /\ lost' \in {lost, TRUE} \/ CheckNativeReplayResult
         /\ clear' \in {clear, TRUE, FALSE}
         /\ readback' = readback \/ (ReadbackMayChange /\ readback' = TRUE)
BY DEF Next, CpCall, CpContinue, CallBeginSubmission, CallEndSubmission, CallAwait,
       RequestCacheClear, EnableReadback, BeginOpen, Record, MemexportReadback, BeginReadback,
       RecordReadback, ReplayNativeDrawBoundary, CheckChunkSlot, AppendChunk, BeginChunks,
       Notify, ChunkResult, EndFlush, EndFinishChunks, EndSwapFlush, EndSubmit, EndReplay,
       EndBooks, EndClose, FenceEnter, FenceNoDirect, FenceDirectFlush, FenceDirectSignal,
       FenceDirectWait, FenceCheck, FenceFlush, FenceWait, FenceLost, AwaitFlush, AfterProof,
       AfterNoProof, Terminate, DestroyWait, DestroyStop, DestroyJoin, CallDirect, DirectFlush,
       UpdateTileMappings, FenceWaitFails, WorkerStep, GpuStep, DeviceRemoved, RecordCommand,
       FlushNativeReplay, cpuVars, vars

LEMMA FlagsKeep == Flags /\ [Next]_vars => Flags'
<1> SUFFICES ASSUME Flags, [Next]_vars PROVE Flags'
  OBVIOUS
<1> QED BY FlagMoves DEF Flags, Workers, CheckNativeReplayResult

LEMMA ProfileStays == ASSUME Types, [Next]_vars PROVE env'.profile = env.profile
<1>1. env \in EnvStates
  BY DEF Types
<1>2. \/ env' = env \/ env' = [env EXCEPT !.gpu = env.gpu + 1]
      \/ env' = [env EXCEPT !.removed = TRUE] \/ env' = [env EXCEPT !.draws = env.draws + 1]
  BY DEF Next, CpCall, CpContinue, CallBeginSubmission, CallEndSubmission, CallAwait,
       RequestCacheClear, EnableReadback, BeginOpen, Record, MemexportReadback, BeginReadback,
       RecordReadback, ReplayNativeDrawBoundary, CheckChunkSlot, AppendChunk, BeginChunks,
       Notify, ChunkResult, EndFlush, EndFinishChunks, EndSwapFlush, EndSubmit, EndReplay,
       EndBooks, EndClose, FenceEnter, FenceNoDirect, FenceDirectFlush, FenceDirectSignal,
       FenceDirectWait, FenceCheck, FenceFlush, FenceWait, FenceLost, AwaitFlush, AfterProof,
       AfterNoProof, Terminate, DestroyWait, DestroyStop, DestroyJoin, CallDirect, DirectFlush,
       UpdateTileMappings, FenceWaitFails, WorkerStep, GpuStep, DeviceRemoved, RecordCommand,
       FlushNativeReplay, cpuVars, vars
<1> QED BY <1>1, <1>2 DEF EnvStates

(* Without readbacks nothing is recorded between an await and its return.   *)
OpenInv ==
  ~ReadbackMayChange =>
    /\ ~readback /\ cp.after # "copy" /\ cp.next # "copy" /\ cp.pc # "copy"
    /\ cp.pc \in {"record", "direct_flush", "direct"} => sub.open

Settled ==
  /\ cp'.after # "copy" /\ cp'.next # "copy" /\ cp'.pc # "copy"
  /\ cp'.pc \in {"record", "direct_flush", "direct"} => sub'.open

LEMMA GotoSettles ==
  ASSUME Types, cp.after # "copy", cp.next # "copy", NEW pc \in CpPcs, Goto(pc),
         pc \in {"record", "copy", "direct_flush", "direct"} => pc # "copy" /\ sub'.open
  PROVE  Settled
<1>1. CASE pc = "idle"
  BY <1>1 DEF Goto, IdleCp, Settled
<1>2. CASE pc # "idle"
  <2>1. cp \in CpStates /\ cp' = [cp EXCEPT !.pc = pc]
    BY <1>2 DEF Goto, Types
  <2>2. cp'.pc = pc /\ cp'.after = cp.after /\ cp'.next = cp.next
    BY <2>1 DEF CpStates
  <2> QED BY <2>2 DEF Settled
<1> QED BY <1>1, <1>2

LEMMA AwaitSettles ==
  ASSUME Types, cp.next # "copy", NEW after, after # "copy", Await(after) PROVE Settled
<1>1. cp \in CpStates /\ cp' = [cp EXCEPT !.pc = "fence", !.ret = "await", !.after = after,
                                          !.await = sub.current]
  BY DEF Await, Types
<1>2. cp'.pc = "fence" /\ cp'.after = after /\ cp'.next = cp.next
  BY <1>1 DEF CpStates
<1> QED BY <1>2 DEF Settled

LEMMA NotifySettles ==
  ASSUME Types, cp.after # "copy", NEW next, next # "copy", NotifyThen(next) PROVE Settled
<1>1. cp \in CpStates /\ cp' = [cp EXCEPT !.pc = "notify", !.next = next]
  BY DEF NotifyThen, Types
<1>2. cp'.pc = "notify" /\ cp'.after = cp.after /\ cp'.next = next
  BY <1>1 DEF CpStates
<1> QED BY <1>2 DEF Settled

LEMMA ReturnSettles ==
  ASSUME Types, cp.after # "copy", cp.next # "copy", NEW ok \in BOOLEAN, ReturnFromEnd(ok)
  PROVE  Settled
<1> DEFINE to == IF cp.end_ret # "fence" THEN "idle" ELSE IF ok THEN "fence_direct" ELSE cp.ret
<1>1. to \in CpPcs /\ to \notin {"record", "copy", "direct_flush", "direct"}
  BY RetIsCalm DEF Calm, CpPcs, Flushed
<1>2. Goto(to)
  BY DEF ReturnFromEnd
<1> HIDE DEF to
<1> QED BY <1>1, <1>2, GotoSettles

LEMMA LastSettles ==
  ASSUME Types, cp.after # "copy", cp.next # "copy", AwaitLastSubmission PROVE Settled
<1>1. cp \in CpStates /\ cp' = [cp EXCEPT !.pc = "fence_check", !.await = sub.current - 1]
  BY DEF AwaitLastSubmission, Types
<1>2. cp'.pc = "fence_check" /\ cp'.after = cp.after /\ cp'.next = cp.next
  BY <1>1 DEF CpStates
<1> QED BY <1>2 DEF Settled

(* What an await or a flush returns to records nothing. *)
LEMMA OpenFacts ==
  ASSUME IInv, OpenInv, ~ReadbackMayChange
  PROVE  /\ Types /\ cp \in CpStates /\ ~readback
         /\ cp.after # "copy" /\ cp.next # "copy" /\ cp.pc # "copy"
         /\ cp.pc \in {"record", "direct_flush", "direct"} => sub.open
         /\ cp.ret \in CpPcs /\ cp.ret \notin {"record", "copy", "direct_flush", "direct"}
BY RetIsCalm DEF IInv, OpenInv, Types, CpPcs

LEMMA StillSettles ==
  ASSUME IInv, OpenInv, ~ReadbackMayChange, cp' = cp, sub'.open = sub.open
  PROVE  Settled
BY OpenFacts DEF Settled

LEMMA GoesOn ==
  ASSUME IInv, OpenInv, ~ReadbackMayChange,
         NEW pc \in CpPcs \ {"record", "copy", "direct_flush", "direct"}, Goto(pc)
  PROVE  Settled
BY OpenFacts, GotoSettles

LEMMA FlushesSettle ==
  ASSUME IInv, OpenInv, ~ReadbackMayChange,
         MemexportReadback \/ EndFlush \/ EndSwapFlush \/ FenceDirectFlush \/ FenceFlush
         \/ AwaitFlush \/ Terminate \/ DestroyWait \/ DirectFlush
  PROVE  Settled
<1> SUFFICES ASSUME ~Settled PROVE FALSE
  OBVIOUS
<1>1. /\ ~Goto("boundary") /\ ~Goto("end_submit") /\ ~Goto("end_close") /\ ~Goto("end_books")
      /\ ~Goto("fence_direct_signal") /\ ~Goto("fence_wait") /\ ~Goto("proven")
      /\ ~Goto("unproven") /\ ~Goto("exited") /\ ~Goto("destroy_stop") /\ ~Goto("idle")
  BY GoesOn DEF CpPcs
<1>2. ~Goto(cp.ret) /\ ~Await("boundary") /\ ~ReturnFromEnd(FALSE)
  BY OpenFacts, GoesOn, AwaitSettles, ReturnSettles
<1>3. ~UNCHANGED <<cp, sub>>
  BY StillSettles
<1>4. ~MemexportReadback
  BY <1>1, <1>2, <1>3, Zenon DEF MemexportReadback, FlushNativeReplay
<1>5. ~EndFlush
  <2> DEFINE next == IF sub.open THEN "end_submit" ELSE "end_close"
             done == IF lost THEN ReturnFromEnd(FALSE) ELSE Goto(next)
  <2>1. ~Goto(next)
    BY <1>1
  <2>2. ~done
    BY <1>2, <2>1
  <2>3. EndFlush => FlushNativeReplay("end", done, ReturnFromEnd(FALSE))
    BY DEF EndFlush
  <2> HIDE DEF done, next
  <2> QED BY <1>2, <1>3, <2>2, <2>3, Zenon DEF FlushNativeReplay
<1>6. ~EndSwapFlush
  BY <1>1, <1>2, <1>3, Zenon DEF EndSwapFlush, FlushNativeReplay
<1>7. ~FenceDirectFlush
  BY <1>1, <1>2, <1>3, Zenon DEF FenceDirectFlush, FlushNativeReplay
<1>8. ~FenceFlush
  BY <1>1, <1>2, <1>3, Zenon DEF FenceFlush, FlushNativeReplay
<1>9. ~AwaitFlush
  <2> DEFINE to == IF Proven THEN "proven" ELSE "unproven"
  <2>1. ~Goto(to)
    BY <1>1
  <2>2. AwaitFlush => FlushNativeReplay("await", Goto(to), Goto("unproven"))
    BY DEF AwaitFlush
  <2> HIDE DEF to
  <2> QED BY <1>1, <1>3, <2>1, <2>2, Zenon DEF FlushNativeReplay
<1>10. ~Terminate
  BY <1>1, <1>3, Zenon DEF Terminate, FlushNativeReplay
<1>11. ~DestroyWait
  BY <1>1, <1>3, Zenon DEF DestroyWait, FlushNativeReplay
<1>12. CASE DirectFlush
  <2>1. cp.pc = "direct_flush" /\ sub' = sub
    BY <1>12 DEF DirectFlush, FlushNativeReplay, At
  <2>2. sub'.open
    BY <2>1, OpenFacts
  <2>3. Goto("direct") => Settled
    BY <2>2, OpenFacts, GotoSettles DEF CpPcs
  <2> QED BY <1>1, <1>3, <1>12, <2>3, Zenon DEF DirectFlush, FlushNativeReplay
<1> QED BY <1>4, <1>5, <1>6, <1>7, <1>8, <1>9, <1>10, <1>11, <1>12

LEMMA RecordingSettles ==
  ASSUME IInv, OpenInv, ~ReadbackMayChange,
         BeginOpen \/ Record \/ BeginReadback \/ RecordReadback \/ ReplayNativeDrawBoundary
         \/ CheckChunkSlot \/ AppendChunk \/ BeginChunks \/ Notify \/ ChunkResult
  PROVE  Settled
<1> SUFFICES ASSUME ~Settled PROVE FALSE
  OBVIOUS
<1>1. /\ ~Goto("idle") /\ ~Goto("boundary") /\ ~Goto("export") /\ ~Goto("chunk_ready")
      /\ ~Goto("chunk") /\ ~Goto("chunk_result")
  BY GoesOn DEF CpPcs
<1>2. ~NotifyThen("chunk_result")
  BY OpenFacts, NotifySettles
<1>3. ~BeginOpen
  <2> SUFFICES ASSUME BeginOpen, ~lost PROVE FALSE
    BY <1>1 DEF BeginOpen
  <2>1. sub' = [sub EXCEPT !.open = TRUE] /\ Goto("record")
    BY DEF BeginOpen
  <2>2. sub'.open
    BY <2>1, OpenFacts DEF Types, SubStates
  <2> QED BY <2>1, <2>2, OpenFacts, GotoSettles DEF CpPcs
<1>4. ~Record
  BY <1>1 DEF Record
<1>5. ~BeginReadback /\ ~RecordReadback
  BY OpenFacts DEF BeginReadback, RecordReadback, At
<1>6. ~ReplayNativeDrawBoundary
  BY <1>1, Zenon DEF ReplayNativeDrawBoundary
<1>7. ~CheckChunkSlot
  BY <1>1 DEF CheckChunkSlot
<1>8. ~AppendChunk
  BY <1>1, <1>2 DEF AppendChunk
<1>9. ~BeginChunks
  BY <1>1, <1>2 DEF BeginChunks
<1>10. ~Notify
  <2> SUFFICES ASSUME Notify PROVE FALSE
    OBVIOUS
  <2>1. cp.pc = "notify" /\ Goto(cp.next)
    BY DEF Notify, At
  <2>2. cp.next \in {"chunk_result", "end_swap", "end_books", "destroy_join"}
    BY <2>1 DEF IInv, PcInv
  <2> QED BY <2>1, <2>2, GoesOn DEF CpPcs
<1>11. ~ChunkResult
  BY <1>1 DEF ChunkResult
<1> QED BY <1>3, <1>4, <1>5, <1>6, <1>7, <1>8, <1>9, <1>10, <1>11

LEMMA EndingSettles ==
  ASSUME IInv, OpenInv, ~ReadbackMayChange,
         EndFinishChunks \/ EndSubmit \/ EndReplay \/ EndBooks \/ EndClose
         \/ AfterProof \/ AfterNoProof \/ DestroyStop \/ DestroyJoin
  PROVE  Settled
<1> SUFFICES ASSUME ~Settled PROVE FALSE
  OBVIOUS
<1>1. /\ ~Goto("idle") /\ ~Goto("boundary") /\ ~Goto("end_replay") /\ ~Goto("end_books")
      /\ ~Goto("end_close") /\ ~Goto("torn_down") /\ ~Goto("destroy") /\ ~Goto("terminate")
  BY GoesOn DEF CpPcs
<1>2. /\ ~NotifyThen("end_swap") /\ ~NotifyThen("end_books") /\ ~NotifyThen("destroy_join")
      /\ ~ReturnFromEnd(FALSE) /\ ~ReturnFromEnd(TRUE)
      /\ ~Await("clear") /\ ~Await("shutdown")
  BY OpenFacts, NotifySettles, ReturnSettles, AwaitSettles
<1>3. ~EndFinishChunks
  BY <1>2 DEF EndFinishChunks
<1>4. ~EndSubmit
  BY <1>1, <1>2 DEF EndSubmit
<1>5. ~EndReplay /\ ~EndBooks
  BY <1>1 DEF EndReplay, EndBooks
<1>6. ~EndClose
  BY <1>2 DEF EndClose
<1>7. ~AfterProof
  <2> DEFINE to == IF cp.after = "shutdown"
                   THEN IF worker = "ready" THEN "destroy" ELSE "torn_down"
                   ELSE IF cp.after = "clear" THEN "idle" ELSE cp.after
  <2>1. ASSUME cp.after # "resources" PROVE ~Goto(to)
    <3>1. to \in {"destroy", "torn_down", "idle", "boundary"}
      BY <2>1, OpenFacts DEF CpStates
    <3> HIDE DEF to
    <3> QED BY <1>1, <3>1
  <2>2. AfterProof => Await("shutdown") \/ (cp.after # "resources" /\ Goto(to))
    BY DEF AfterProof
  <2> HIDE DEF to
  <2> QED BY <1>2, <2>1, <2>2
<1>8. ~AfterNoProof
  <2> DEFINE to == IF cp.after \in {"resources", "shutdown"}
                   THEN IF worker = "ready" THEN "terminate" ELSE "torn_down"
                   ELSE IF cp.after = "boundary" THEN "boundary" ELSE "idle"
  <2>1. to \in {"terminate", "torn_down", "idle", "boundary"}
    OBVIOUS
  <2>2. AfterNoProof => Await("shutdown") \/ Goto(to)
    BY DEF AfterNoProof
  <2> HIDE DEF to
  <2> QED BY <1>1, <1>2, <2>1, <2>2
<1>9. ~DestroyStop /\ ~DestroyJoin
  BY <1>1, <1>2 DEF DestroyStop, DestroyJoin
<1> QED BY <1>3, <1>4, <1>5, <1>6, <1>7, <1>8, <1>9

LEMMA FenceSettles ==
  ASSUME IInv, OpenInv, ~ReadbackMayChange,
         FenceEnter \/ FenceNoDirect \/ FenceDirectSignal \/ FenceDirectWait \/ FenceCheck
         \/ FenceWait \/ FenceWaitFails
  PROVE  Settled
<1> SUFFICES ASSUME ~Settled PROVE FALSE
  OBVIOUS
<1>1. ~Goto("fence_direct_wait") /\ ~Goto(cp.ret) /\ ~AwaitLastSubmission /\ ~FenceLost
  BY OpenFacts, GoesOn, LastSettles DEF CpPcs, FenceLost
<1>2. ~FenceEnter
  <2> SUFFICES ASSUME FenceEnter PROVE FALSE
    OBVIOUS
  <2>1. PICK pc \in {cp.ret, "fence_check", "end", "fence_direct"} :
          \/ cp' = [cp EXCEPT !.pc = pc]
          \/ cp' = [cp EXCEPT !.pc = pc, !.end_ret = "fence", !.swap = FALSE]
    BY DEF FenceEnter
  <2>2. cp'.pc = pc /\ cp'.after = cp.after /\ cp'.next = cp.next
    BY <2>1, OpenFacts DEF CpStates
  <2> QED BY <2>1, <2>2, OpenFacts DEF Settled
<1>3. ~FenceNoDirect /\ ~FenceDirectSignal /\ ~FenceDirectWait
  BY <1>1 DEF FenceNoDirect, FenceDirectSignal, FenceDirectWait
<1>4. ~FenceCheck
  <2> SUFFICES ASSUME FenceCheck PROVE FALSE
    OBVIOUS
  <2>1. cp' = [cp EXCEPT !.pc = "fence_flush", !.before = sub.completed]
    BY <1>1 DEF FenceCheck
  <2>2. cp'.pc = "fence_flush" /\ cp'.after = cp.after /\ cp'.next = cp.next
    BY <2>1, OpenFacts DEF CpStates
  <2> QED BY <2>1, <2>2, OpenFacts DEF Settled
<1>5. ~FenceWait /\ ~FenceWaitFails
  BY <1>1 DEF FenceWait, FenceWaitFails
<1> QED BY <1>2, <1>3, <1>4, <1>5

LEMMA DirectSettles ==
  ASSUME IInv, OpenInv, ~ReadbackMayChange, CallDirect \/ UpdateTileMappings PROVE Settled
<1>1. CASE CallDirect
  <2>1. cp.pc = "record" /\ cp' = [cp EXCEPT !.pc = "direct_flush", !.next = cp.pc] /\ sub' = sub
    BY <1>1, OpenFacts DEF CallDirect, At
  <2>2. cp'.pc = "direct_flush" /\ cp'.after = cp.after /\ cp'.next = "record"
    BY <2>1, OpenFacts DEF CpStates
  <2> QED BY <2>1, <2>2, OpenFacts DEF Settled
<1>2. CASE UpdateTileMappings
  <2>1. cp.pc = "direct" /\ Goto(cp.next) /\ sub' = [sub EXCEPT !.direct = TRUE]
    BY <1>2 DEF UpdateTileMappings, At
  <2>2. cp.next = "record" /\ sub'.open
    BY <2>1, OpenFacts DEF IInv, PcInv, Types, SubStates
  <2> QED BY <2>1, <2>2, OpenFacts, GotoSettles DEF CpPcs
<1> QED BY <1>1, <1>2

LEMMA CallSettles ==
  ASSUME IInv, OpenInv, ~ReadbackMayChange, CpCall PROVE Settled
<1>1. ASSUME NEW guest, NEW copy, CallBeginSubmission(guest, copy) PROVE Settled
  <2> DEFINE opening == guest /\ ~frames.open
             resumed == sub.open /\ ~opening
             to(pc, await) == cp' = [cp EXCEPT !.pc = pc, !.guest = guest, !.copy = copy,
                                               !.ret = "begin", !.await = await]
             await == IF opening THEN frames.closed[frames.current % QueueFrames] ELSE 0
  <2>1. sub' = sub /\ (cp' = cp \/ (resumed /\ to("record", 0)) \/ to("fence", await))
    BY <1>1 DEF CallBeginSubmission
  <2> HIDE DEF await
  <2>2. CASE cp' = cp
    BY <2>1, <2>2, StillSettles
  <2>3. CASE resumed /\ to("record", 0)
    <3>1. cp'.pc = "record" /\ cp'.after = cp.after /\ cp'.next = cp.next /\ sub'.open
      BY <2>1, <2>3, OpenFacts DEF CpStates
    <3> QED BY <3>1, OpenFacts DEF Settled
  <2>4. CASE to("fence", await)
    <3>1. cp'.pc = "fence" /\ cp'.after = cp.after /\ cp'.next = cp.next
      BY <2>4, OpenFacts DEF CpStates
    <3> QED BY <3>1, OpenFacts DEF Settled
  <2> QED BY <2>1, <2>2, <2>3, <2>4
<1>2. ASSUME NEW swap, CallEndSubmission(swap) PROVE Settled
  <2>1. cp' = [cp EXCEPT !.pc = "end", !.end_ret = "idle", !.swap = swap]
    BY <1>2 DEF CallEndSubmission
  <2>2. cp'.pc = "end" /\ cp'.after = cp.after /\ cp'.next = cp.next
    BY <2>1, OpenFacts DEF CpStates
  <2> QED BY <2>2, OpenFacts DEF Settled
<1>3. ASSUME NEW after \in {"idle", "resources"}, CallAwait(after) PROVE Settled
  BY <1>3, OpenFacts, AwaitSettles DEF CallAwait
<1>4. CASE RequestCacheClear \/ EnableReadback
  BY <1>4, StillSettles DEF RequestCacheClear, EnableReadback
<1> QED BY <1>1, <1>2, <1>3, <1>4 DEF CpCall

LEMMA StepSettles ==
  ASSUME IInv, OpenInv, ~ReadbackMayChange, [Next]_vars PROVE Settled
<1>1. CASE CpContinue
  BY <1>1, FlushesSettle, RecordingSettles, EndingSettles, FenceSettles, DirectSettles
     DEF CpContinue
<1>2. CASE WorkerStep \/ GpuStep \/ DeviceRemoved \/ UNCHANGED vars
  <2>1. cp' = cp /\ sub' = sub
    BY <1>2 DEF WorkerStep, GpuStep, DeviceRemoved, vars, cpuVars
  <2> QED BY <2>1, StillSettles
<1> QED BY <1>1, <1>2, CallSettles, FenceSettles DEF Next

LEMMA OpenKeeps == IInv /\ OpenInv /\ [Next]_vars => OpenInv'
<1> SUFFICES ASSUME IInv, OpenInv, [Next]_vars, ~ReadbackMayChange' PROVE OpenInv'
  BY DEF OpenInv
<1>1. ~ReadbackMayChange
  <2>1. env'.profile = env.profile
    BY ProfileStays DEF IInv
  <2> QED BY <2>1 DEF ReadbackMayChange, Profile
<1>2. Settled
  BY <1>1, StepSettles
<1>3. ~readback'
  BY <1>1, FlagMoves, OpenFacts
<1> QED BY <1>2, <1>3 DEF OpenInv, Settled

LEMMA OpenInit == Init => OpenInv /\ Flags
<1> SUFFICES ASSUME Init PROVE OpenInv /\ Flags
  OBVIOUS
<1>1. cp.pc = "idle" /\ cp.after = "idle" /\ cp.next = "idle" /\ readback = FALSE
  BY DEF Init, IdleCp
<1> QED BY <1>1 DEF Init, OpenInv, Flags

LEMMA SubmissionOfParts ==
  IInv /\ Places /\ Flags /\ OpenInv => (~ReadbackMayChange => SubmissionInv)
<1> SUFFICES ASSUME IInv, Places, Flags, OpenInv, ~ReadbackMayChange PROVE SubmissionInv
  OBVIOUS
<1>1. AllocatorIsIdle /\ AllocatorHasOneOwner
  BY IdleAllocators, OwnedOnce
<1>2. RecordsInOpenSubmission
  BY DEF RecordsInOpenSubmission, OpenInv, At
<1>3. TypeOK
  <2>1. state \in {"Queued", "Running"} => job.allocator \in Allocators
    BY DEF Places, JobPlace
  <2>2. stream \in Seq(Records) /\ source \in Seq(Records) /\ list.commands \in Seq(Records)
    BY DEF IInv, Types, Records, Commands
  <2>3. sub \in [open : BOOLEAN, current : Nat, completed : Nat,
                 chunk : Allocators \union {NoAllocator}, direct : BOOLEAN, direct_last : Nat]
    BY DEF IInv, Types, SubStates
  <2>4. frames \in [open : BOOLEAN, current : Nat, completed : Nat,
                    closed : [0 .. QueueFrames - 1 -> Nat]]
    BY DEF IInv, Types, FrameStates
  <2>5. /\ pools.writable \in Seq(Allocators)
        /\ pools.submitted \in Seq([allocator : Allocators, last : Nat])
    BY DEF IInv, Types, PoolStates
  <2>6. <<lost, clear, readback, env.removed>> \in [1 .. 4 -> BOOLEAN]
    BY DEF Flags, IInv, Types, EnvStates
  <2>7. env.gpu \in 0 .. Len(queue)
    BY QueueTypes DEF IInv
  <2>8. state \in {"Idle", "Queued", "Running", "Complete"}
    BY DEF IInv, Types
  <2> QED BY <2>1, <2>2, <2>3, <2>4, <2>5, <2>6, <2>7, <2>8 DEF TypeOK, Flags
<1> QED BY <1>1, <1>2, <1>3 DEF SubmissionInv

(* CheckSubmissionFence, EndSubmission and the worker (command_processor.cpp)  *)
(* reset or record into a command allocator only when no list of it is still   *)
(* to be executed: while the worker resets, records and closes the list of its *)
(* job, and when EndSubmission replays a submission itself.                    *)
THEOREM AllocatorIsIdleAlways == Spec => []AllocatorIsIdle
<1> QED BY Invariance, PlacesAlways, IdleAllocators, PTL

(* The lists command_allocator_writable_first_ and _submitted_first_ and the   *)
(* allocator of the open chunk session never share an allocator, however       *)
(* EndSubmission, CheckSubmissionFence and ClearCaches move them.              *)
THEOREM AllocatorHasOneOwnerAlways == Spec => []AllocatorHasOneOwner
<1> QED BY Invariance, PlacesAlways, OwnedOnce, PTL

(* Where d3d12_readback_resolve is not switched on while it runs, the CP also  *)
(* records commands only while submission_open_, as GetDeferredCommandList     *)
(* asserts: no await comes between BeginSubmission and the last command.       *)
THEOREM SubmissionInvAlways == Spec => [](~ReadbackMayChange => SubmissionInv)
<1>1. IInv /\ Flags /\ OpenInv /\ [Next]_vars => Flags' /\ OpenInv'
  BY FlagsKeep, OpenKeeps
<1> QED BY <1>1, OpenInit, Invariance, PlacesAlways, SubmissionOfParts, PTL DEF Spec

-----------------------------------------------------------------------------
(* Completed frames.  Every command is in the queue or still to come, and   *)
(* what is still to come belongs to no submission that was signalled.       *)

Ran == UNION {ToSet(queue[i].commands) : i \in 1 .. Len(queue)}
Recorded ==
  Ran \union ToSet(stream) \union ToSet(list.commands)
    \union (IF sub.open THEN ToSet(source) ELSE {})
Unsignalled(c) == \A j \in 1 .. Len(queue) : IsSignal(j) => queue[j].value < c.submission

(* The worker's list still holds the last submission's commands until it is *)
(* reset, and those have been executed.                                     *)
Holding == state = "Queued" \/ wpc \in ExecutePCs \/ session_active
ListIsOld ==
  \/ state = "Queued" /\ job.operation \in {"Whole", "Begin"}
  \/ wpc \in {"reset_allocator", "reset_list"}
ListInv ==
  /\ \A c \in ToSet(list.commands) :
       /\ c \in Ran \/ Unsignalled(c)
       /\ ~Broken /\ (~InHand \/ ListIsOld) => c \in Ran
  /\ Holding => \A c \in ToSet(stream) : c \in Ran \/ Unsignalled(c)
  /\ wpc \in {"close", "execute"} => ToSet(stream) \subseteq ToSet(list.commands)
  /\ wpc = "signal" => ToSet(stream) \union ToSet(list.commands) \subseteq Ran

(* Nothing is executed after its own submission's signal. *)
PastInv ==
  \A i \in 1 .. Len(queue) : \A c \in ToSet(queue[i].commands) :
    \A j \in 1 .. i - 1 : IsSignal(j) => queue[j].value < c.submission

(* What the source and the stream hold belongs to the open submission.      *)
Returning(next) == cp.pc = "notify" /\ cp.next = next
SourceInv ==
  /\ session_active /\ sub.chunk # NoAllocator => AllOf(stream, job.fence_value)
  /\ sub.open /\ (HandedOver => sub.chunk # NoAllocator) /\ ~Returning("chunk_result")
       => AllOf(source, sub.current)
  /\ cp.pc = "end_swap" \/ Returning("end_swap") => sub.chunk # NoAllocator

(* BeginSubmission has awaited the submission that closed the frame whose   *)
(* place in the ring the new frame takes.                                   *)
Closed(f) == frames.closed[f % QueueFrames]
FencePcs == {"fence", "fence_check", "fence_flush", "fence_wait"}
DirectPcs == {"fence_direct", "fence_direct_signal", "fence_direct_wait"}
AwaitInv ==
  /\ cp.pc \in FencePcs /\ cp.ret = "begin" =>
       cp.await < sub.current /\ (Opening => cp.await = Closed(frames.current))
  /\ cp.pc = "begin" /\ ~lost /\ Opening => Closed(frames.current) <= sub.completed
  /\ cp.pc \in DirectPcs \/ cp.end_ret = "fence" => cp.ret = "await"
  /\ cp.pc = "idle" => cp.end_ret = "idle"
  /\ cp.pc \in FencePcs => cp.ret # "idle"

RingInv ==
  /\ sub.completed < sub.current
  /\ \A i \in 0 .. QueueFrames - 1 : frames.closed[i] < sub.current
  /\ frames.completed < frames.current
  /\ frames.completed + QueueFrames + 1 >= frames.current
  /\ frames.open => frames.completed + QueueFrames >= frames.current
  /\ cp.pc = "end_close" => ~sub.open

(* A command that may not have been executed is of a frame not completed,   *)
(* and no later than the submission that closed its frame.                  *)
Marked(c) ==
  /\ 0 < c.submission /\ c.submission <= sub.current
  /\ 0 < c.frame /\ c.frame <= frames.current
  /\ ~sub.open => c.submission < sub.current
  /\ c.submission > sub.completed =>
       /\ c.frame > frames.completed
       /\ c.frame < frames.current => c.submission <= Closed(c.frame)
MarksInv == \A c \in Recorded : Marked(c)

FrameInv == ListInv /\ PastInv /\ SourceInv /\ AwaitInv /\ RingInv /\ MarksInv

(* Nobody hands over, executes or records: where the CP may go. *)
Leaves ==
  \/ cp' = cp
  \/ /\ cp.pc \notin {"notify", "end_books"} /\ cp'.pc \notin {"end_swap", "notify"}
     /\ cp'.pc = "end_close" => ~sub.open
Apart ==
  /\ Reaps /\ UNCHANGED <<wpc, whr, result, stream, source, list, queue, frames>>
  /\ sub'.open = sub.open /\ sub'.current = sub.current /\ sub'.chunk = sub.chunk
  /\ env'.profile = env.profile
  /\ Leaves

LEMMA RecordedCommands == ASSUME Types PROVE Recorded \subseteq Commands
<1>1. \A i \in 1 .. Len(queue) : queue[i].commands \in Seq(Commands)
  BY QueueTypes
<1>2. stream \in Seq(Commands) /\ source \in Seq(Commands) /\ list.commands \in Seq(Commands)
  BY DEF Types
<1> QED BY <1>1, <1>2, InToSet, SMTT(30) DEF Recorded, Ran

LEMMA StillInHand ==
  ASSUME Types, Reaps, wpc' = wpc
  PROVE  (InHand' <=> InHand) /\ (ListIsOld' => ListIsOld) /\ (Holding' => Holding)
         /\ (session_active' => session_active) /\ job'.fence_value = job.fence_value
<1>1. /\ state' \in {state, "Idle"} /\ (state = "Complete" \/ state' = state)
      /\ session_active' \in BOOLEAN /\ (session_active' => session_active)
      /\ job'.operation = job.operation /\ job'.fence_value = job.fence_value
      /\ state' = "Idle" /\ session_active' /\ state = "Complete" =>
              job.operation \notin FinalOperations
  BY ReapsState
<1>2. job.operation \notin FinalOperations => (session_active' <=> session_active)
  BY DEF Reaps, ReapCompleted, ReapedSession, ReapingFinal, Types
<1> QED BY <1>1, <1>2 DEF InHand, Executing, ListIsOld, Holding

LEMMA ApartLists ==
  ASSUME IInv, ListInv, PastInv, Reaps, UNCHANGED <<wpc, whr, result, stream, list, queue>>
  PROVE  ListInv' /\ PastInv'
<1>1. (InHand' <=> InHand) /\ (ListIsOld' => ListIsOld) /\ (Holding' => Holding)
  BY StillInHand DEF IInv
<1>2. (Broken' <=> Broken) /\ Ran' = Ran
  BY DEF Broken, Ran
<1>3. \A c : Unsignalled(c)' <=> Unsignalled(c)
  BY DEF Unsignalled, IsSignal
<1>4. ListInv'
  BY <1>1, <1>2, <1>3 DEF ListInv
<1>5. PastInv'
  BY DEF PastInv, IsSignal
<1> QED BY <1>4, <1>5

LEMMA ApartSource ==
  ASSUME IInv, SourceInv, Apart PROVE SourceInv'
<1>1. (session_active' => session_active) /\ job'.fence_value = job.fence_value
  BY StillInHand DEF IInv, Apart
<1>2. CASE cp' = cp
  BY <1>1, <1>2 DEF Apart, SourceInv, HandedOver, Returning, AllOf
<1>3. CASE /\ cp.pc \notin {"notify", "end_books"} /\ cp'.pc \notin {"end_swap", "notify"}
  BY <1>1, <1>3 DEF Apart, SourceInv, HandedOver, Returning, AllOf
<1> QED BY <1>2, <1>3 DEF Apart, Leaves

LEMMA ApartKeeps ==
  ASSUME IInv, IInv', FrameInv, Apart, sub'.completed >= sub.completed, sub'.completed < sub.current,
         AwaitInv'
  PROVE  FrameInv'
<1>1. ListInv' /\ PastInv' /\ SourceInv'
  BY ApartLists, ApartSource DEF FrameInv, Apart
<1>2. Recorded' = Recorded
  BY DEF Apart, Recorded, Ran
<1>3. QueueFrames' = QueueFrames
  BY DEF Apart, QueueFrames, Profile
<1>4. RingInv'
  BY <1>3 DEF FrameInv, RingInv, Apart, Leaves
<1>5. MarksInv'
  <2>1. sub.completed \in Nat /\ sub'.completed \in Nat /\ sub.current \in Nat
    BY DEF IInv, Types, SubStates
  <2>2. ASSUME NEW c \in Recorded, c.submission > sub'.completed PROVE c.submission > sub.completed
    <3>1. c.submission > sub'.completed /\ sub'.completed >= sub.completed
      BY <2>2
    <3>2. c.submission \in Nat
      BY RecordedCommands DEF IInv, Commands
    <3> QED BY <2>1, <3>1, <3>2
  <2> QED BY <1>2, <1>3, <2>2 DEF FrameInv, MarksInv, Marked, Apart, Closed
<1> QED BY <1>1, <1>4, <1>5 DEF FrameInv

-----------------------------------------------------------------------------
(* Where the CP goes, and what it awaits.                                   *)

Promised == {"idle", "begin", "end_swap", "notify"} \union FencePcs \union DirectPcs

(* Everything but the steps of CheckSubmissionFence and the calls. *)
Steps ==
  \/ cp' = cp \/ cp' = IdleCp
  \/ cp'.pc \notin Promised /\ cp'.ret = cp.ret /\ cp'.end_ret = cp.end_ret
  \/ cp'.pc \notin {"idle", "begin"} /\ cp'.ret = "await"

LEMMA GotoSteps ==
  ASSUME Types, NEW pc \in (CpPcs \ Promised) \union {"idle"}, Goto(pc)
  PROVE  Steps /\ cp'.pc = pc
<1>1. CASE pc = "idle"
  BY <1>1 DEF Goto, Steps, IdleCp
<1>2. CASE pc # "idle"
  <2>1. cp \in CpStates /\ cp' = [cp EXCEPT !.pc = pc]
    BY <1>2 DEF Goto, Types
  <2>2. cp'.pc = pc /\ cp'.ret = cp.ret /\ cp'.end_ret = cp.end_ret
    BY <2>1 DEF CpStates
  <2> QED BY <1>2, <2>2 DEF Steps
<1> QED BY <1>1, <1>2

LEMMA AwaitSteps ==
  ASSUME Types, NEW after, Await(after) PROVE Steps /\ cp'.pc = "fence"
<1>1. cp \in CpStates /\ cp' = [cp EXCEPT !.pc = "fence", !.ret = "await", !.after = after,
                                          !.await = sub.current]
  BY DEF Await, Types
<1>2. cp'.pc = "fence" /\ cp'.ret = "await"
  BY <1>1 DEF CpStates
<1> QED BY <1>2 DEF Steps

LEMMA ReturnSteps ==
  ASSUME Types, AwaitInv, NEW ok \in BOOLEAN, ReturnFromEnd(ok)
  PROVE  Steps /\ cp'.pc \in {"idle", "fence_direct", "await"}
<1>1. CASE cp.end_ret # "fence"
  BY <1>1, GotoSteps DEF ReturnFromEnd, CpPcs
<1>2. CASE cp.end_ret = "fence"
  <2>1. cp.ret = "await"
    BY <1>2 DEF AwaitInv
  <2>2. PICK pc \in {"fence_direct", "await"} : Goto(pc)
    BY <1>2, <2>1 DEF ReturnFromEnd
  <2>3. cp \in CpStates /\ cp' = [cp EXCEPT !.pc = pc]
    BY <2>2 DEF Goto, Types
  <2>4. cp'.pc = pc /\ cp'.ret = "await"
    BY <2>1, <2>3 DEF CpStates
  <2> QED BY <2>2, <2>4 DEF Steps
<1> QED BY <1>1, <1>2

LEMMA StepsAwait ==
  ASSUME IInv, AwaitInv, Steps,
         cp' = cp => /\ UNCHANGED <<frames, sub>> /\ env'.profile = env.profile
                     /\ lost => lost'
  PROVE  AwaitInv'
<1>1. CASE cp' = cp
  <2>1. QueueFrames' = QueueFrames
    BY <1>1 DEF QueueFrames, Profile
  <2> QED BY <1>1, <2>1 DEF AwaitInv, Opening, Closed
<1>2. CASE cp' = IdleCp
  BY <1>2 DEF AwaitInv, IdleCp, FencePcs, DirectPcs
<1>3. CASE cp'.pc \notin Promised /\ cp'.ret = cp.ret /\ cp'.end_ret = cp.end_ret
  BY <1>3 DEF AwaitInv, Promised
<1>4. CASE cp'.pc \notin {"idle", "begin"} /\ cp'.ret = "await"
  BY <1>4 DEF AwaitInv, FencePcs, DirectPcs
<1> QED BY <1>1, <1>2, <1>3, <1>4 DEF Steps

(* The fence that CheckSubmissionFence reads only grows, and stays behind   *)
(* the submission being recorded.                                           *)
LEMMA FenceGrows ==
  ASSUME IInv, cp.pc \in FencePcs
  PROVE  SubmissionFence >= sub.completed /\ SubmissionFence < sub.current
<1> DEFINE values == {e.value : e \in {x \in Consumed : x.kind = "signal"}}
           S == {0} \union values
<1>1. /\ Types /\ Len(queue) \in Nat /\ env.gpu \in Nat /\ env.gpu <= Len(queue)
      /\ sub.current \in Nat /\ sub.completed \in Nat /\ sub.current > 0
      /\ \A i \in 1 .. Len(queue) : queue[i].value \in Nat
  BY QueueTypes DEF IInv
<1>2. \A i \in 1 .. env.gpu : i \in 1 .. Len(queue)
  BY <1>1
<1>3. ~HandedOver
  BY DEF HandedOver, FencePcs
<1>4. \A v \in values : v \in Nat /\ v < sub.current
  BY <1>2, <1>1, <1>3 DEF Consumed, IInv, OrderInv, IsSignal
<1>5. S \in SUBSET Nat /\ S # {} /\ \A y \in S : y <= sub.current
  <2>1. \A y \in S : y \in Nat /\ y <= sub.current
    <3> HIDE DEF values
    <3> QED BY <1>1, <1>4
  <2>2. 0 \in S
    OBVIOUS
  <2> HIDE DEF S
  <2> QED BY <2>1, <2>2
<1>6. Max(S) \in S /\ \A y \in S : y <= Max(S)
  <2> HIDE DEF S
  <2> QED BY <1>1, <1>5, LargestOfBounded
<1>7. SubmissionFence = Max(S)
  BY DEF SubmissionFence, FenceValue
<1>8. sub.completed \in S
  <2>1. CASE sub.completed = 0
    BY <2>1
  <2>2. CASE sub.completed > 0
    <3>1. PICK i \in 1 .. env.gpu : IsSignal(i) /\ queue[i].value = sub.completed
      BY <2>2 DEF IInv, FenceInv
    <3>2. queue[i] \in {x \in Consumed : x.kind = "signal"}
      BY <3>1 DEF Consumed, IsSignal
    <3> QED BY <3>1, <3>2
  <2> QED BY <1>1, <2>1, <2>2
<1>9. Max(S) >= sub.completed
  <2> HIDE DEF S
  <2> QED BY <1>1, <1>5, <1>6, <1>8
<1>10. Max(S) < sub.current
  <2>1. \A y \in S : y < sub.current
    <3> HIDE DEF values
    <3> QED BY <1>1, <1>4
  <2> HIDE DEF S
  <2> QED BY <1>6, <2>1
<1> QED BY <1>7, <1>9, <1>10

-----------------------------------------------------------------------------
(* Steps that only move the CP. *)

Moves == Steps /\ Leaves

LEMMA GotoMoves ==
  ASSUME Types, cp.pc \notin {"notify", "end_books"}, NEW pc \in (CpPcs \ Promised) \union {"idle"},
         Goto(pc), pc = "end_close" => ~sub.open
  PROVE  Moves
BY GotoSteps DEF Moves, Leaves, Promised

LEMMA AwaitMoves ==
  ASSUME Types, cp.pc \notin {"notify", "end_books"}, NEW after, Await(after)
  PROVE  Moves
BY AwaitSteps DEF Moves, Leaves

LEMMA ReturnMoves ==
  ASSUME Types, AwaitInv, cp.pc \notin {"notify", "end_books"}, NEW ok \in BOOLEAN, ReturnFromEnd(ok)
  PROVE  Moves
BY ReturnSteps DEF Moves, Leaves

(* The CP stays where it is. *)
LEMMA StayMoves == ASSUME cp' = cp PROVE Moves
BY DEF Moves, Steps, Leaves

LEMMA MovesKeep ==
  ASSUME IInv, IInv', FrameInv, Moves,
         Reaps, UNCHANGED <<wpc, whr, result, stream, source, list, queue, frames>>,
         sub'.open = sub.open, sub'.current = sub.current, sub'.chunk = sub.chunk,
         sub'.completed = sub.completed,
         env'.profile = env.profile, cp' = cp => sub' = sub /\ (lost => lost')
  PROVE  FrameInv'
<1>1. Apart
  BY DEF Apart, Moves
<1>2. AwaitInv'
  BY StepsAwait DEF FrameInv, Moves
<1>3. sub.completed < sub.current /\ sub.completed >= sub.completed
  BY DEF FrameInv, RingInv, IInv, Types, SubStates
<1> QED BY <1>1, <1>2, <1>3, ApartKeeps

LEMMA StillMoves ==
  ASSUME IInv, IInv', FrameInv, Moves, UNCHANGED <<workerVars, sub, frames>>,
         env'.profile = env.profile, cp' = cp => (lost => lost')
  PROVE  FrameInv'
<1>1. Reaps /\ UNCHANGED <<wpc, whr, result, stream, source, list, queue, frames>>
  BY DEF workerVars, Reaps
<1> QED BY <1>1, MovesKeep

LEMMA FlushMoves ==
  ASSUME IInv, IInv', FrameInv, Moves, WaitReturn \/ WaitBlock, UNCHANGED <<sub, frames, env>>,
         lost => lost'
  PROVE  FrameInv'
<1>1. Reaps /\ UNCHANGED <<wpc, whr, result, stream, source, list, queue>>
  BY DEF WaitReturn, WaitBlock, Reaps
<1> QED BY <1>1, MovesKeep

LEMMA LostStays ==
  ASSUME lost' = lost \/ CheckNativeReplayResult, lost PROVE lost'
<1>1. CASE lost' = lost
  BY <1>1
<1>2. CASE CheckNativeReplayResult
  BY <1>2, Zenon DEF CheckNativeReplayResult
<1> QED BY <1>1, <1>2

LEMMA FlushSteps ==
  ASSUME IInv, IInv', FrameInv,
         \/ MemexportReadback \/ EndFlush \/ EndSwapFlush \/ AwaitFlush \/ Terminate
         \/ DestroyWait \/ DirectFlush \/ FenceDirectFlush
  PROVE  FrameInv'
<1>0. /\ (WaitReturn /\ CheckNativeReplayResult) \/ (WaitBlock /\ lost' = lost)
      /\ UNCHANGED <<sub, frames, env>>
  BY Zenon DEF MemexportReadback, EndFlush, EndSwapFlush, AwaitFlush, Terminate, DestroyWait,
               DirectFlush, FenceDirectFlush, FlushNativeReplay
<1>1. (WaitReturn \/ WaitBlock) /\ UNCHANGED <<sub, frames, env>> /\ (lost => lost')
  <2>1. lost' = lost \/ CheckNativeReplayResult
    BY <1>0
  <2> QED BY <1>0, <2>1, LostStays
<1>2. Types /\ AwaitInv /\ cp \in CpStates
  BY DEF IInv, FrameInv, Types
<1>3. cp.pc \notin {"notify", "end_books"}
  BY DEF MemexportReadback, EndFlush, EndSwapFlush, AwaitFlush, Terminate, DestroyWait, DirectFlush,
         FenceDirectFlush, FlushNativeReplay, At
<1>99. {"end_close", "end_books"} \subseteq (CpPcs \ Promised)
  BY DEF CpPcs, Promised, FencePcs, DirectPcs
<1>4. ASSUME NEW pc \in {"boundary", "idle", "end_submit", "proven", "unproven", "exited",
                         "destroy_stop", "direct", "await"}, Goto(pc)
      PROVE  Moves
  BY <1>2, <1>3, <1>4, GotoMoves DEF CpPcs, Promised, FencePcs, DirectPcs
<1>5. CASE MemexportReadback
  <2>1. cp' = cp \/ Await("boundary") \/ Goto("boundary")
    BY <1>5 DEF MemexportReadback, FlushNativeReplay
  <2> QED BY <1>1, <1>2, <1>3, <1>4, <2>1, StayMoves, AwaitMoves, FlushMoves
<1>6. CASE EndFlush
  <2>1. \/ cp' = cp \/ ReturnFromEnd(FALSE) \/ Goto("end_submit")
        \/ Goto("end_close") /\ ~sub.open
    BY <1>6 DEF EndFlush, FlushNativeReplay
  <2>2. CASE Goto("end_close") /\ ~sub.open
    BY <1>1, <1>2, <1>3, <1>99, <2>2, GotoMoves, FlushMoves
  <2> QED BY <1>1, <1>2, <1>3, <1>4, <2>1, <2>2, StayMoves, ReturnMoves, FlushMoves
<1>7. CASE EndSwapFlush
  <2>1. cp' = cp \/ ReturnFromEnd(FALSE) \/ Goto("end_books")
    BY <1>7 DEF EndSwapFlush, FlushNativeReplay
  <2>2. CASE Goto("end_books")
    BY <1>1, <1>2, <1>3, <1>99, <2>2, GotoMoves, FlushMoves
  <2> QED BY <1>1, <1>2, <1>3, <2>1, <2>2, StayMoves, ReturnMoves, FlushMoves
<1>8. CASE AwaitFlush
  <2>1. cp' = cp \/ Goto("proven") \/ Goto("unproven")
    BY <1>8 DEF AwaitFlush, FlushNativeReplay
  <2> QED BY <1>1, <1>4, <2>1, StayMoves, FlushMoves
<1>9. CASE Terminate
  <2>1. cp' = cp \/ Goto("exited")
    BY <1>9 DEF Terminate, FlushNativeReplay
  <2> QED BY <1>1, <1>4, <2>1, StayMoves, FlushMoves
<1>10. CASE DestroyWait
  <2>1. cp' = cp \/ Goto("destroy_stop")
    BY <1>10 DEF DestroyWait, FlushNativeReplay
  <2> QED BY <1>1, <1>4, <2>1, StayMoves, FlushMoves
<1>11. CASE DirectFlush
  <2>1. cp' = cp \/ Goto("direct") \/ Goto("idle")
    BY <1>11 DEF DirectFlush, FlushNativeReplay
  <2> QED BY <1>1, <1>4, <2>1, StayMoves, FlushMoves
<1>12. CASE FenceDirectFlush
  <2>1. cp.pc = "fence_direct" /\ cp.ret = "await"
    BY <1>2, <1>12 DEF FenceDirectFlush, FlushNativeReplay, At, AwaitInv, DirectPcs
  <2>2. cp' = cp \/ Goto("fence_direct_signal") \/ Goto("await")
    BY <1>12, <2>1 DEF FenceDirectFlush, FlushNativeReplay
  <2>3. CASE Goto("fence_direct_signal")
    <3>1. cp' = [cp EXCEPT !.pc = "fence_direct_signal"]
      BY <2>3 DEF Goto
    <3>2. cp'.pc = "fence_direct_signal" /\ cp'.ret = "await"
      BY <1>2, <2>1, <3>1 DEF CpStates
    <3>3. Moves
      BY <1>3, <3>2 DEF Moves, Steps, Leaves
    <3> QED BY <1>1, <3>3, FlushMoves
  <2> QED BY <1>1, <1>4, <2>2, <2>3, StayMoves, FlushMoves
<1> QED BY <1>5, <1>6, <1>7, <1>8, <1>9, <1>10, <1>11, <1>12

(* The other steps in which the CP neither hands over, executes nor records. *)
LEMMA MovingSteps ==
  ASSUME IInv, IInv', FrameInv,
         \/ BeginReadback \/ ReplayNativeDrawBoundary \/ ChunkResult \/ AfterProof \/ AfterNoProof
         \/ DestroyJoin \/ CallDirect \/ FenceNoDirect \/ FenceDirectWait \/ CheckChunkSlot
  PROVE  FrameInv'
<1> USE DEF At
<1>2. Types /\ AwaitInv /\ cp \in CpStates
  BY DEF IInv, FrameInv, Types
<1>3. cp.pc \notin {"notify", "end_books"}
  BY DEF BeginReadback, ReplayNativeDrawBoundary, ChunkResult, AfterProof, AfterNoProof, DestroyJoin,
         CallDirect, FenceNoDirect, FenceDirectWait, CheckChunkSlot
<1>4. ASSUME NEW pc \in {"copy", "idle", "boundary", "chunk_ready", "chunk", "chunk_result", "destroy",
                         "terminate", "torn_down"}, Goto(pc)
      PROVE  Moves /\ cp'.pc = pc
  <2>1. pc \in (CpPcs \ Promised) \union {"idle"} /\ pc # "end_close"
    BY DEF CpPcs, Promised, FencePcs, DirectPcs
  <2> QED BY <1>2, <1>3, <1>4, <2>1, GotoMoves, GotoSteps
<1>5. CASE \/ BeginReadback \/ ReplayNativeDrawBoundary \/ ChunkResult \/ AfterProof \/ AfterNoProof
           \/ DestroyJoin
  <2>0. UNCHANGED <<workerVars, sub, frames, env>> /\ (lost' = lost \/ CheckNativeReplayResult)
    BY <1>5, Zenon DEF BeginReadback, ReplayNativeDrawBoundary, ChunkResult, AfterProof, AfterNoProof,
                       DestroyJoin
  <2>1. UNCHANGED <<workerVars, sub, frames, env>> /\ (lost => lost')
    BY <2>0, LostStays
  <2>2. cp.after \in {"idle", "resources", "shutdown", "clear", "copy", "boundary"}
    BY <1>2 DEF CpStates
  <2>3. CASE BeginReadback
    <3>1. Await("copy") \/ Goto("copy")
      BY <2>3 DEF BeginReadback
    <3> QED BY <1>2, <1>3, <1>4, <2>1, <3>1, AwaitMoves, StillMoves
  <2>4. CASE ReplayNativeDrawBoundary
    <3>1. Goto("idle") \/ Goto("chunk_ready")
      BY <2>4 DEF ReplayNativeDrawBoundary
    <3> QED BY <1>4, <2>1, <3>1, StillMoves
  <2>5. CASE ChunkResult
    <3>1. Goto("idle")
      BY <2>5 DEF ChunkResult
    <3> QED BY <1>4, <2>1, <3>1, StillMoves
  <2>6. CASE AfterProof
    <3>1. \/ Await("shutdown") \/ Goto("destroy") \/ Goto("torn_down") \/ Goto("idle")
          \/ Goto("copy") \/ Goto("boundary")
      BY <2>2, <2>6 DEF AfterProof
    <3> QED BY <1>2, <1>3, <1>4, <2>1, <3>1, AwaitMoves, StillMoves
  <2>7. CASE AfterNoProof
    <3>1. \/ Await("shutdown") \/ Goto("terminate") \/ Goto("torn_down") \/ Goto("idle")
          \/ Goto("boundary")
      BY <2>7 DEF AfterNoProof
    <3> QED BY <1>2, <1>3, <1>4, <2>1, <3>1, AwaitMoves, StillMoves
  <2>8. CASE DestroyJoin
    <3>1. Goto("torn_down")
      BY <2>8 DEF DestroyJoin
    <3> QED BY <1>4, <2>1, <3>1, StillMoves
  <2> QED BY <1>5, <2>3, <2>4, <2>5, <2>6, <2>7, <2>8
<1>6. CASE CallDirect
  <2>1. UNCHANGED <<workerVars, sub, frames, env, lost>>
        /\ cp' = [cp EXCEPT !.pc = "direct_flush", !.next = cp.pc]
    BY <1>6 DEF CallDirect
  <2>2. cp'.pc = "direct_flush" /\ cp'.ret = cp.ret /\ cp'.end_ret = cp.end_ret
    BY <1>2, <2>1 DEF CpStates
  <2>3. Moves
    BY <1>3, <2>2 DEF Moves, Steps, Leaves, Promised, FencePcs, DirectPcs
  <2> QED BY <2>1, <2>3, StillMoves
<1>7. CASE FenceNoDirect \/ FenceDirectWait
  <2>1. cp.pc \in DirectPcs /\ UNCHANGED <<workerVars, frames, env, lost>> /\ AwaitLastSubmission
    BY <1>7 DEF FenceNoDirect, FenceDirectWait, DirectPcs
  <2>2. cp' = [cp EXCEPT !.pc = "fence_check", !.await = sub.current - 1] /\ cp.ret = "await"
    BY <1>2, <2>1 DEF AwaitLastSubmission, AwaitInv
  <2>3. cp'.pc = "fence_check" /\ cp'.ret = "await"
    BY <1>2, <2>2 DEF CpStates
  <2>4. Moves
    BY <1>3, <2>3 DEF Moves, Steps, Leaves
  <2>5. /\ sub'.open = sub.open /\ sub'.current = sub.current /\ sub'.chunk = sub.chunk
        /\ sub'.completed = sub.completed
    BY <1>2, <1>7 DEF FenceNoDirect, FenceDirectWait, Types, SubStates
  <2>6. cp' # cp
    BY <2>1, <2>3 DEF DirectPcs
  <2>7. Reaps /\ UNCHANGED <<wpc, whr, result, stream, source, list, queue>>
    BY <2>1 DEF workerVars, Reaps
  <2> QED BY <2>1, <2>4, <2>5, <2>6, <2>7, MovesKeep
<1>8. CASE CheckChunkSlot
  <2>1. Reaps /\ UNCHANGED <<wpc, whr, result, stream, source, list, queue, frames, sub, env, lost>>
    BY <1>8 DEF CheckChunkSlot, Reaps
  <2>2. Goto("chunk") \/ Goto("idle") \/ Goto("chunk_result")
    BY <1>8 DEF CheckChunkSlot
  <2> QED BY <1>4, <2>1, <2>2, MovesKeep
<1> QED BY <1>5, <1>6, <1>7, <1>8

LEMMA ClosedBounds ==
  ASSUME Types, RingInv, NEW f \in Nat PROVE Closed(f) \in Nat /\ Closed(f) < sub.current
<1>1. QueueFrames \in Nat \ {0} /\ frames.closed \in [0 .. QueueFrames - 1 -> Nat]
  BY RingSize DEF Types, FrameStates
<1>2. \A n \in Nat, m \in Nat \ {0} : n % m \in 0 .. m - 1
  OBVIOUS
<1>3. f % QueueFrames \in 0 .. QueueFrames - 1
  BY <1>1, <1>2
<1> QED BY <1>1, <1>3 DEF Closed, RingInv

LEMMA CallSteps ==
  ASSUME IInv, IInv', FrameInv, CpCall \/ GpuStep \/ DeviceRemoved PROVE FrameInv'
<1>1. Types /\ AwaitInv /\ RingInv /\ cp \in CpStates /\ sub \in SubStates /\ frames \in FrameStates
      /\ env \in EnvStates
  BY DEF IInv, FrameInv, Types
<1>2. ASSUME NEW guest \in BOOLEAN, NEW copy \in BOOLEAN, CallBeginSubmission(guest, copy)
      PROVE  FrameInv'
  <2>1. cp.pc = "idle" /\ cp.end_ret = "idle" /\ UNCHANGED <<workerVars, sub, frames, env>>
    BY <1>1, <1>2 DEF CallBeginSubmission, At, AwaitInv
  <2> DEFINE await == IF guest /\ ~frames.open THEN frames.closed[frames.current % QueueFrames]
                      ELSE 0
             To(pc, n) == cp' = [cp EXCEPT !.pc = pc, !.guest = guest, !.copy = copy,
                                 !.ret = "begin", !.await = n]
  <2>2. await \in Nat /\ await < sub.current
    BY <1>1, ClosedBounds DEF Closed, SubStates, FrameStates
  <2>3. (cp' = cp /\ lost' = TRUE) \/ To("record", 0) \/ To("fence", await)
    BY <1>2 DEF CallBeginSubmission
  <2>4. CASE cp' = cp /\ lost' = TRUE
    BY <2>1, <2>4, StayMoves, StillMoves
  <2>5. CASE To("record", 0)
    <3>1. cp'.pc = "record" /\ cp'.ret = "begin" /\ cp'.end_ret = "idle"
      BY <1>1, <2>1, <2>5 DEF CpStates
    <3>2. AwaitInv'
      BY <3>1 DEF AwaitInv, FencePcs, DirectPcs
    <3>3. Apart
      BY <2>1, <3>1 DEF Apart, Leaves, Reaps, workerVars
    <3>4. sub'.completed >= sub.completed /\ sub'.completed < sub.current
      BY <1>1, <2>1 DEF SubStates, RingInv
    <3> QED BY <3>2, <3>3, <3>4, ApartKeeps
  <2>6. CASE To("fence", await)
    <3> HIDE DEF await
    <3>1. /\ cp'.pc = "fence" /\ cp'.ret = "begin" /\ cp'.end_ret = "idle" /\ cp'.await = await
          /\ cp'.guest = guest
      BY <1>1, <2>1, <2>6 DEF CpStates
    <3>4. Opening' => await = Closed(frames.current)'
      BY <2>1, <3>1 DEF Opening, Closed, await, QueueFrames, Profile
    <3>2. AwaitInv'
      BY <2>1, <2>2, <3>1, <3>4 DEF AwaitInv, FencePcs, DirectPcs
    <3>3. Apart
      BY <2>1, <3>1 DEF Apart, Leaves, Reaps, workerVars
    <3>5. sub'.completed >= sub.completed /\ sub'.completed < sub.current
      BY <1>1, <2>1 DEF SubStates, RingInv
    <3> QED BY <3>2, <3>3, <3>5, ApartKeeps
  <2> HIDE DEF To, await
  <2> QED BY <2>3, <2>4, <2>5, <2>6
<1>3. ASSUME NEW swap \in BOOLEAN, CallEndSubmission(swap) PROVE FrameInv'
  <2>1. /\ cp.pc = "idle" /\ cp.end_ret = "idle" /\ UNCHANGED <<workerVars, sub, frames, env, lost>>
        /\ cp' = [cp EXCEPT !.pc = "end", !.end_ret = "idle", !.swap = swap]
    BY <1>1, <1>3 DEF CallEndSubmission, At, AwaitInv
  <2>2. cp'.pc = "end" /\ cp'.ret = cp.ret /\ cp'.end_ret = cp.end_ret
    BY <1>1, <2>1 DEF CpStates
  <2>3. Moves
    BY <2>1, <2>2 DEF Moves, Steps, Leaves, Promised, FencePcs, DirectPcs
  <2> QED BY <2>1, <2>3, StillMoves
<1>4. ASSUME NEW after \in {"idle", "resources"}, CallAwait(after) PROVE FrameInv'
  <2>1. cp.pc = "idle" /\ UNCHANGED <<workerVars, sub, frames, env, lost>> /\ Await(after)
    BY <1>4 DEF CallAwait, At
  <2> QED BY <1>1, <2>1, AwaitMoves, StillMoves
<1>5. CASE RequestCacheClear \/ EnableReadback
  <2>1. UNCHANGED <<workerVars, cp, sub, frames, env, lost>>
    BY <1>5 DEF RequestCacheClear, EnableReadback
  <2> QED BY <2>1, StayMoves, StillMoves
<1>6. CASE GpuStep \/ DeviceRemoved
  <2>1. UNCHANGED <<workerVars, cp, sub, frames, lost>> /\ env'.profile = env.profile
    BY <1>1, <1>6 DEF GpuStep, DeviceRemoved, cpuVars, EnvStates
  <2> QED BY <2>1, StayMoves, StillMoves
<1> QED BY <1>2, <1>3, <1>4, <1>5, <1>6 DEF CpCall

-----------------------------------------------------------------------------
(* CheckSubmissionFence. *)

(* On its way, or back to its caller with the value it awaited or a loss. *)
LEMMA FenceMoves ==
  ASSUME IInv, AwaitInv, cp.pc \in FencePcs, frames' = frames,
         sub'.current = sub.current, env'.profile = env.profile,
         \/ /\ cp'.pc \in FencePcs /\ cp'.ret = cp.ret /\ cp'.end_ret = cp.end_ret
            /\ cp'.await = cp.await /\ cp'.guest = cp.guest
         \/ Goto(cp.ret) /\ (lost' \/ cp.await <= sub'.completed)
  PROVE  AwaitInv'
<1>1. cp \in CpStates /\ cp.ret \in {"begin", "await"}
  BY DEF IInv, Types, AwaitInv, CpStates
<1>2. QueueFrames' = QueueFrames
  BY DEF QueueFrames, Profile
<1>3. CASE /\ cp'.pc \in FencePcs /\ cp'.ret = cp.ret /\ cp'.end_ret = cp.end_ret
           /\ cp'.await = cp.await /\ cp'.guest = cp.guest
  BY <1>2, <1>3 DEF AwaitInv, Opening, Closed, FencePcs, DirectPcs
<1>4. CASE Goto(cp.ret) /\ (lost' \/ cp.await <= sub'.completed)
  <2>1. cp' = [cp EXCEPT !.pc = cp.ret]
    BY <1>1, <1>4 DEF Goto
  <2>2. cp'.pc = cp.ret /\ cp'.ret = cp.ret /\ cp'.end_ret = cp.end_ret /\ cp'.guest = cp.guest
    BY <1>1, <2>1 DEF CpStates
  <2>3. cp'.pc = "begin" => (Opening' <=> Opening) /\ Closed(frames.current)' = Closed(frames.current)
    BY <1>2, <2>2 DEF Opening, Closed
  <2> QED BY <1>1, <1>4, <2>2, <2>3 DEF AwaitInv, FencePcs, DirectPcs
<1> QED BY <1>3, <1>4

LEMMA FenceSteps ==
  ASSUME IInv, IInv', FrameInv, FenceEnter \/ FenceCheck \/ FenceFlush \/ FenceWait
  PROVE  FrameInv'
<1>1. /\ Types /\ AwaitInv /\ RingInv /\ cp \in CpStates /\ sub \in SubStates
      /\ cp.ret \in {"begin", "await"} /\ cp.pc \in FencePcs
  <2>1. cp.pc \in FencePcs
    BY DEF FenceEnter, FenceCheck, FenceFlush, FenceWait, FlushNativeReplay, At, FencePcs
  <2> QED BY <2>1 DEF IInv, FrameInv, Types, AwaitInv, CpStates
<1>2. sub.completed < sub.current /\ sub.completed \in Nat /\ sub.current \in Nat
  BY <1>1 DEF RingInv, SubStates
<1>3. SubmissionFence >= sub.completed /\ SubmissionFence < sub.current /\ SubmissionFence \in Nat
  BY <1>1, FenceGrows, SubmissionFenceState
<1>4. ASSUME NEW pc \in CpPcs, cp' = [cp EXCEPT !.pc = pc]
      PROVE  /\ cp'.pc = pc /\ cp'.ret = cp.ret /\ cp'.end_ret = cp.end_ret
             /\ cp'.await = cp.await /\ cp'.guest = cp.guest
  BY <1>1, <1>4 DEF CpStates
<1>5. FencePcs \subseteq CpPcs
  BY DEF FencePcs, CpPcs
<1>6. Goto(cp.ret) => cp' = [cp EXCEPT !.pc = cp.ret] /\ cp'.pc = cp.ret
  <2>1. cp.ret # "idle" /\ cp.ret \in CpPcs
    BY <1>1 DEF CpPcs
  <2> QED BY <1>4, <2>1 DEF Goto
<1>7. CASE FenceEnter
  <2>1. UNCHANGED <<workerVars, sub, frames, env>> /\ cp.pc = "fence"
    BY <1>7 DEF FenceEnter, At
  <2>2. \/ Failed(result) /\ cp' = [cp EXCEPT !.pc = cp.ret]
        \/ cp' = [cp EXCEPT !.pc = "fence_check"]
        \/ /\ ~(cp.await < sub.current)
           /\ \/ cp' = [cp EXCEPT !.pc = "end", !.end_ret = "fence", !.swap = FALSE]
              \/ cp' = [cp EXCEPT !.pc = "fence_direct"]
    BY <1>7 DEF FenceEnter
  <2>3. Reaps /\ UNCHANGED <<wpc, whr, result, stream, source, list, queue, frames>>
    BY <2>1 DEF workerVars, Reaps
  <2>4. CASE Failed(result) /\ cp' = [cp EXCEPT !.pc = cp.ret]
    <3>1. lost'
      BY <1>7, <2>4, Zenon DEF FenceEnter, CheckNativeReplayResult
    <3>2. Goto(cp.ret) /\ cp'.pc = cp.ret
      BY <1>1, <1>4, <2>4 DEF Goto, CpPcs
    <3>3. AwaitInv'
      BY <1>1, <2>1, <3>1, <3>2, FenceMoves
    <3>4. Apart
      BY <1>1, <2>1, <2>3, <3>2 DEF Apart, Leaves, FencePcs
    <3> QED BY <1>2, <2>1, <3>3, <3>4, ApartKeeps
  <2>5. CASE cp' = [cp EXCEPT !.pc = "fence_check"]
    <3>2. /\ cp'.pc = "fence_check" /\ cp'.ret = cp.ret /\ cp'.end_ret = cp.end_ret
          /\ cp'.await = cp.await /\ cp'.guest = cp.guest
      BY <1>4, <2>5 DEF CpPcs
    <3>3. AwaitInv'
      BY <1>1, <2>1, <3>2, FenceMoves DEF FencePcs
    <3>4. Apart
      BY <1>1, <2>1, <2>3, <3>2 DEF Apart, Leaves, FencePcs
    <3> QED BY <1>2, <2>1, <3>3, <3>4, ApartKeeps
  <2>6. CASE /\ ~(cp.await < sub.current)
             /\ \/ cp' = [cp EXCEPT !.pc = "end", !.end_ret = "fence", !.swap = FALSE]
                \/ cp' = [cp EXCEPT !.pc = "fence_direct"]
    <3>1. cp.ret = "await"
      BY <1>1, <2>6 DEF AwaitInv
    <3>2. cp'.pc \in {"end", "fence_direct"} /\ cp'.ret = "await"
      BY <1>1, <2>6, <3>1 DEF CpStates
    <3>3. Moves
      BY <1>1, <3>2 DEF Moves, Steps, Leaves, FencePcs
    <3>4. cp' # cp
      BY <2>1, <3>2
    <3> QED BY <2>1, <2>3, <3>3, <3>4, MovesKeep
  <2> QED BY <2>2, <2>4, <2>5, <2>6
<1>8. CASE FenceFlush
  <2>1. UNCHANGED <<sub, frames, env>> /\ cp.pc = "fence_flush"
    BY <1>8 DEF FenceFlush, FlushNativeReplay, At
  <2>2. Reaps /\ UNCHANGED <<wpc, whr, result, stream, source, list, queue, frames>>
    <3>1. WaitReturn \/ WaitBlock
      BY <1>8 DEF FenceFlush, FlushNativeReplay
    <3> QED BY <2>1, <3>1 DEF WaitReturn, WaitBlock, Reaps
  <2>3. \/ Goto("fence_wait")
        \/ Failed(result) /\ CheckNativeReplayResult /\ Goto(cp.ret)
        \/ cp' = cp /\ lost' = lost
    BY <1>8, Zenon DEF FenceFlush, FlushNativeReplay
  <2>4. CASE Goto("fence_wait")
    <3>1. cp' = [cp EXCEPT !.pc = "fence_wait"]
      BY <2>4 DEF Goto
    <3>2. /\ cp'.pc = "fence_wait" /\ cp'.ret = cp.ret /\ cp'.end_ret = cp.end_ret
          /\ cp'.await = cp.await /\ cp'.guest = cp.guest
      BY <1>4, <3>1 DEF CpPcs
    <3>3. AwaitInv'
      BY <1>1, <2>1, <3>2, FenceMoves DEF FencePcs
    <3>4. Apart
      BY <1>1, <2>1, <2>2, <3>2 DEF Apart, Leaves, FencePcs
    <3> QED BY <1>2, <2>1, <3>3, <3>4, ApartKeeps
  <2>5. CASE Failed(result) /\ CheckNativeReplayResult /\ Goto(cp.ret)
    <3>1. lost'
      BY <2>5, Zenon DEF CheckNativeReplayResult
    <3>3. AwaitInv'
      BY <1>1, <2>1, <2>5, <3>1, FenceMoves
    <3>4. Apart
      BY <1>1, <1>6, <2>1, <2>2, <2>5 DEF Apart, Leaves, FencePcs
    <3> QED BY <1>2, <2>1, <3>3, <3>4, ApartKeeps
  <2>6. CASE cp' = cp /\ lost' = lost
    BY <2>1, <2>2, <2>6, StayMoves, MovesKeep
  <2> QED BY <2>3, <2>4, <2>5, <2>6
<1>9. CASE FenceCheck \/ FenceWait
  <2>1. UNCHANGED <<workerVars, frames>> /\ env' = env /\ cp.pc \in {"fence_check", "fence_wait"}
    BY <1>9 DEF FenceCheck, FenceWait, At
  <2>2. Reaps /\ UNCHANGED <<wpc, whr, result, stream, source, list, queue, frames>>
    BY <2>1 DEF workerVars, Reaps
  <2>3. \/ FenceLost
        \/ sub' = [sub EXCEPT !.completed = SubmissionFence]
    BY <1>9 DEF FenceCheck, FenceWait
  <2>4. /\ sub'.open = sub.open /\ sub'.current = sub.current /\ sub'.chunk = sub.chunk
        /\ sub'.completed >= sub.completed /\ sub'.completed < sub.current
    BY <1>1, <1>2, <1>3, <2>3 DEF FenceLost, SubStates
  <2>5. FenceLost => lost' /\ Goto(cp.ret)
    BY Zenon DEF FenceLost
  <2>6. \/ FenceLost
        \/ Goto(cp.ret) /\ cp.await <= sub'.completed
        \/ cp' = [cp EXCEPT !.pc = "fence_flush", !.before = sub.completed]
    <3>1. cp.await \in Nat
      BY <1>1 DEF CpStates
    <3>2. CASE FenceCheck
      <4>1. SUFFICES ASSUME ~FenceLost, Goto(cp.ret), ~(sub'.completed < cp.await)
                     PROVE  cp.await <= sub'.completed
        BY <3>2 DEF FenceCheck
      <4>2. sub'.completed = SubmissionFence
        BY <1>1, <2>3, <4>1 DEF SubStates
      <4> QED BY <1>3, <3>1, <4>1, <4>2
    <3>3. CASE FenceWait
      <4>1. SUFFICES ASSUME ~FenceLost, SubmissionFence >= cp.await
                     PROVE  cp.await <= sub'.completed
        BY <3>3 DEF FenceWait
      <4>2. sub'.completed = SubmissionFence
        BY <1>1, <2>3, <4>1 DEF SubStates
      <4> QED BY <1>3, <3>1, <4>1, <4>2
    <3> QED BY <1>9, <3>2, <3>3
  <2>7. CASE Goto(cp.ret) /\ (lost' \/ cp.await <= sub'.completed)
    <3>3. AwaitInv'
      BY <1>1, <2>1, <2>4, <2>7, FenceMoves
    <3>4. Apart
      BY <1>1, <1>6, <2>1, <2>2, <2>4, <2>7 DEF Apart, Leaves
    <3> QED BY <2>4, <3>3, <3>4, ApartKeeps
  <2>8. CASE cp' = [cp EXCEPT !.pc = "fence_flush", !.before = sub.completed]
    <3>2. /\ cp'.pc = "fence_flush" /\ cp'.ret = cp.ret /\ cp'.end_ret = cp.end_ret
          /\ cp'.await = cp.await /\ cp'.guest = cp.guest
      BY <1>1, <2>8 DEF CpStates
    <3>3. AwaitInv'
      BY <1>1, <2>1, <2>4, <3>2, FenceMoves DEF FencePcs
    <3>4. Apart
      BY <1>1, <2>1, <2>2, <2>4, <3>2 DEF Apart, Leaves
    <3> QED BY <2>4, <3>3, <3>4, ApartKeeps
  <2> QED BY <2>5, <2>6, <2>7, <2>8
<1> QED BY <1>7, <1>8, <1>9

-----------------------------------------------------------------------------
(* Recording, and the opening of a submission and of a frame. *)

LEMMA ToSetAppend ==
  ASSUME NEW S, NEW s \in Seq(S), NEW c \in S
  PROVE  ToSet(Append(s, c)) = ToSet(s) \union {c}
<1>1. Append(s, c) \in Seq(S) /\ Len(Append(s, c)) = Len(s) + 1 /\ Len(s) \in Nat
  OBVIOUS
<1>2. \A i \in 1 .. Len(s) : Append(s, c)[i] = s[i]
  OBVIOUS
<1>3. Append(s, c)[Len(s) + 1] = c
  OBVIOUS
<1>4. ASSUME NEW x \in ToSet(Append(s, c)) PROVE x \in ToSet(s) \union {c}
  <2>1. PICK i \in 1 .. Len(Append(s, c)) : Append(s, c)[i] = x
    BY <1>1, <1>4, InToSet
  <2>2. CASE i = Len(s) + 1
    BY <1>3, <2>1, <2>2
  <2>3. CASE i # Len(s) + 1
    <3>1. i \in 1 .. Len(s) /\ s[i] = x
      BY <1>1, <1>2, <2>1, <2>3
    <3> QED BY <3>1, InToSet
  <2> QED BY <2>2, <2>3
<1>5. ASSUME NEW x \in ToSet(s) \union {c} PROVE x \in ToSet(Append(s, c))
  <2>1. CASE x \in ToSet(s)
    <3>1. PICK i \in 1 .. Len(s) : s[i] = x
      BY <2>1, InToSet
    <3>2. i \in 1 .. Len(Append(s, c)) /\ Append(s, c)[i] = x
      BY <1>1, <1>2, <3>1
    <3> QED BY <1>1, <3>2, InToSet
  <2>2. CASE x = c
    <3>1. Len(s) + 1 \in 1 .. Len(Append(s, c))
      BY <1>1
    <3> QED BY <1>1, <1>3, <2>2, <3>1, InToSet
  <2> QED BY <2>1, <2>2
<1> QED BY <1>4, <1>5

LEMMA RecordFrames ==
  ASSUME IInv, IInv', FrameInv, Record \/ RecordReadback PROVE FrameInv'
<1>1. /\ Types /\ AwaitInv /\ RingInv /\ SourceInv /\ MarksInv
      /\ cp \in CpStates /\ sub \in SubStates /\ frames \in FrameStates /\ env \in EnvStates
      /\ source \in Seq(Commands)
  BY DEF IInv, FrameInv, Types
<1>2. /\ cp.pc \in {"record", "copy"} /\ UNCHANGED <<sub, frames, lost>>
      /\ UNCHANGED <<state, session_active, job, wpc, whr, result, stream, list, queue>>
      /\ UNCHANGED <<slotVars, replay_state>>
  BY DEF Record, RecordReadback, At, slotVars
<1>3. Moves /\ cp' # cp
  <2>1. cp.pc \notin {"notify", "end_books"}
    BY <1>2
  <2>2. ASSUME NEW pc \in {"idle", "boundary", "export"}, Goto(pc) PROVE Moves /\ cp'.pc = pc
    <3>1. pc \in (CpPcs \ Promised) \union {"idle"} /\ pc # "end_close"
      BY DEF CpPcs, Promised, FencePcs, DirectPcs
    <3> QED BY <1>1, <2>1, <2>2, <3>1, GotoMoves, GotoSteps
  <2>3. Goto("idle") \/ Goto("boundary") \/ Goto("export") \/ Await("idle")
    BY DEF Record, RecordReadback
  <2>4. CASE Await("idle")
    BY <1>1, <1>2, <2>1, <2>4, AwaitMoves, AwaitSteps
  <2>5. CASE Goto("idle") \/ Goto("boundary") \/ Goto("export")
    BY <1>2, <2>2, <2>5
  <2> QED BY <2>3, <2>4, <2>5
<1>4. CASE UNCHANGED <<source, env>>
  BY <1>2, <1>3, <1>4, MovesKeep DEF Reaps
<1>5. CASE RecordCommand
  <2> DEFINE c == [submission |-> sub.current, frame |-> frames.current]
  <2>1. c \in Commands /\ c.submission = sub.current /\ c.frame = frames.current
    BY <1>1 DEF SubStates, FrameStates, Commands
  <2>2. source' = Append(source, c)
    BY <1>5 DEF RecordCommand
  <2> HIDE DEF c
  <2>3. ToSet(source') = ToSet(source) \union {c}
    BY <1>1, <2>1, <2>2, ToSetAppend
  <2>4. env'.profile = env.profile
    <3>1. env' = [env EXCEPT !.draws = env.draws + 1]
      BY <1>5 DEF RecordCommand
    <3> QED BY <1>1, <3>1 DEF EnvStates
  <2>5. QueueFrames' = QueueFrames
    BY <2>4 DEF QueueFrames, Profile
  <2>6. ListInv' /\ PastInv'
    BY <1>2, ApartLists DEF FrameInv, Reaps
  <2>7. SourceInv'
    <3>1. cp'.pc \notin {"end_swap", "notify"} /\ ~HandedOver /\ cp.pc # "notify"
      BY <1>2, <1>3 DEF Moves, Leaves, HandedOver
    <3>2. (sub'.open /\ (HandedOver' => sub'.chunk # NoAllocator)) => AllOf(source', sub.current)
      <4>1. sub.open => AllOf(source, sub.current)
        BY <1>1, <3>1 DEF SourceInv, Returning
      <4>2. sub.open => AllOf(source', sub.current)
        BY <1>1, <2>1, <2>2, <4>1, AllOfAppend
      <4> QED BY <1>2, <4>2
    <3> QED BY <1>1, <1>2, <3>1, <3>2 DEF SourceInv, Returning, AllOf
  <2>8. AwaitInv'
    BY <1>1, <1>3, StepsAwait DEF Moves
  <2>9. RingInv'
    BY <1>1, <1>2, <1>3, <2>5 DEF RingInv, Moves, Leaves
  <2>10. MarksInv'
    <3>1. \A x \in Recorded' : x \in Recorded \/ (x = c /\ sub.open)
      BY <1>2, <2>3 DEF Recorded, Ran
    <3>2. \A x : Marked(x)' <=> Marked(x)
      BY <1>2, <2>5 DEF Marked, Closed
    <3>3. sub.open => Marked(c)
      BY <1>1, <2>1 DEF Marked, RingInv, SubStates, FrameStates
    <3> QED BY <1>1, <3>1, <3>2, <3>3 DEF MarksInv
  <2> QED BY <2>6, <2>7, <2>8, <2>9, <2>10 DEF FrameInv
<1> QED BY <1>4, <1>5 DEF Record, RecordReadback

LEMMA RemainderIs ==
  ASSUME NEW n \in Int, NEW m \in Nat \ {0}, NEW q \in Int, NEW r \in 0 .. m - 1, n = m * q + r
  PROVE  n % m = r
OBVIOUS

LEMMA RemainderBelow ==
  ASSUME NEW n \in Nat, NEW m \in Nat \ {0} PROVE (n - m) % m = n % m
<1> DEFINE q == n \div m
           r == n % m
<1>1. q \in Int /\ r \in 0 .. m - 1
  OBVIOUS
<1>2. n = m * q + r
  OBVIOUS
<1>3. n % m = r
  OBVIOUS
<1> HIDE DEF q, r
<1>4. n - m = m * (q - 1) + r
  BY <1>1, <1>2
<1>5. n - m \in Int /\ q - 1 \in Int
  BY <1>1
<1>6. (n - m) % m = r
  BY <1>1, <1>4, <1>5, RemainderIs
<1> QED BY <1>3, <1>6

(* A command of a frame that BeginSubmission now counts as completed is of  *)
(* a submission that the GPU is done with.                                  *)
LEMMA CompletedFrameMarks ==
  ASSUME IInv, FrameInv, cp.pc = "begin", ~lost, Opening,
         NEW c \in Recorded, c.submission > sub.completed
  PROVE  c.frame > CompletedFrame
<1> DEFINE base == Max({frames.current, QueueFrames}) - QueueFrames
<1>1. /\ Types /\ AwaitInv /\ RingInv /\ Marked(c)
      /\ frames.current \in Nat \ {0} /\ frames.completed \in Nat /\ sub.completed \in Nat
      /\ sub.current \in Nat
      /\ QueueFrames \in Nat \ {0} /\ c \in Commands
  BY RingSize, RecordedCommands DEF IInv, FrameInv, MarksInv, Types, FrameStates, SubStates
<1>2. c.submission \in Nat /\ c.frame \in Nat /\ c.frame > 0
  BY <1>1 DEF Commands, Marked
<1>3. /\ CompletedFrame \in Nat /\ CompletedFrame <= frames.current - 1
      /\ base \in Nat /\ base <= CompletedFrame
      /\ \A g \in base + 1 .. CompletedFrame : Closed(g) <= sub.completed
  BY <1>1, CompletedFrameState DEF Closed
<1>4. base > 0 => base = frames.current - QueueFrames
  BY <1>1, MaxOfPair
<1> HIDE DEF base
<1>5. SUFFICES ASSUME c.frame <= CompletedFrame PROVE FALSE
  BY <1>2, <1>3
<1>6. c.frame > frames.completed /\ c.submission <= Closed(c.frame)
  BY <1>1, <1>2, <1>3, <1>5 DEF Marked
<1>7. Closed(c.frame) \in Nat /\ Closed(frames.current) \in Nat
  BY <1>1, <1>2, ClosedBounds
<1>8. CASE c.frame > base
  <2>1. Closed(c.frame) <= sub.completed
    BY <1>2, <1>3, <1>5, <1>8
  <2> QED BY <1>1, <1>2, <1>6, <1>7, <2>1
<1>9. CASE c.frame = base
  <2>1. c.frame = frames.current - QueueFrames
    BY <1>2, <1>4, <1>9
  <2>2. c.frame % QueueFrames = frames.current % QueueFrames
    BY <1>1, <2>1, RemainderBelow
  <2>3. Closed(c.frame) = Closed(frames.current)
    BY <2>2 DEF Closed
  <2>4. Closed(frames.current) <= sub.completed
    BY <1>1 DEF AwaitInv
  <2> QED BY <1>1, <1>2, <1>6, <1>7, <2>3, <2>4
<1>10. CASE c.frame < base
  <2>1. base = frames.current - QueueFrames
    BY <1>2, <1>3, <1>4, <1>10
  <2>2. frames.completed + QueueFrames + 1 >= frames.current
    BY <1>1 DEF RingInv
  <2> QED BY <1>1, <1>2, <1>3, <1>6, <1>10, <2>1, <2>2
<1> QED BY <1>2, <1>3, <1>8, <1>9, <1>10

LEMMA BeginOpenFrames ==
  ASSUME IInv, IInv', FrameInv, BeginOpen PROVE FrameInv'
<1>1. /\ Types /\ AwaitInv /\ RingInv /\ SourceInv /\ MarksInv
      /\ cp \in CpStates /\ sub \in SubStates /\ frames \in FrameStates /\ source \in Seq(Commands)
  BY DEF IInv, FrameInv, Types
<1>2. /\ cp.pc = "begin" /\ UNCHANGED <<slotVars, stream, list, replay_state, wpc, whr, queue, env>>
      /\ UNCHANGED <<state, session_active, job, result, lost>>
  BY DEF BeginOpen, At, slotVars
<1>3. ASSUME NEW pc \in {"idle", "record"}, Goto(pc) PROVE Moves /\ cp'.pc = pc
  <2>1. pc \in (CpPcs \ Promised) \union {"idle"} /\ pc # "end_close"
    BY DEF CpPcs, Promised, FencePcs, DirectPcs
  <2> QED BY <1>1, <1>2, <1>3, <2>1, GotoMoves, GotoSteps
<1>4. CASE UNCHANGED <<source, sub, frames>> /\ Goto("idle")
  BY <1>2, <1>3, <1>4, MovesKeep DEF Reaps
<1>5. CASE /\ ~lost
           /\ sub' = [sub EXCEPT !.open = TRUE]
           /\ source' = IF sub.open THEN source ELSE <<>>
           /\ frames' = IF Opening
                        THEN [frames EXCEPT !.completed = CompletedFrame, !.open = TRUE]
                        ELSE frames
           /\ Goto("record")
  <2>1. /\ sub'.open /\ sub'.current = sub.current /\ sub'.chunk = sub.chunk
        /\ sub'.completed = sub.completed
    BY <1>1, <1>5 DEF SubStates
  <2>2. Moves /\ cp'.pc = "record" /\ cp' # cp
    BY <1>2, <1>3, <1>5
  <2>3. QueueFrames' = QueueFrames
    BY <1>2 DEF QueueFrames, Profile
  <2>4. /\ frames'.current = frames.current /\ frames'.closed = frames.closed
        /\ Opening => frames'.completed = CompletedFrame
        /\ ~Opening => frames' = frames
    BY <1>1, <1>5 DEF FrameStates
  <2>5. ToSet(source') \subseteq (IF sub.open THEN ToSet(source) ELSE {})
    <3>1. ToSet(<<>>) = {}
      BY DEF ToSet
    <3> QED BY <1>5, <3>1
  <2>6. ListInv' /\ PastInv'
    BY <1>2, ApartLists DEF FrameInv, Reaps
  <2>7. SourceInv'
    <3>1. sub.open => AllOf(source, sub.current)
      BY <1>1, <1>2 DEF SourceInv, HandedOver, Returning
    <3>2. AllOf(source', sub.current)
      BY <2>5, <3>1 DEF AllOf
    <3> QED BY <1>1, <1>2, <2>1, <2>2, <3>2 DEF SourceInv, Returning, AllOf
  <2>8. AwaitInv'
    BY <1>1, <2>2, StepsAwait DEF Moves
  <2>9. RingInv'
    <3> DEFINE base == Max({frames.current, QueueFrames}) - QueueFrames
    <3>1. frames.current \in Nat \ {0} /\ QueueFrames \in Nat \ {0} /\ frames.completed \in Nat
      BY <1>1, RingSize DEF Types, FrameStates
    <3>2. /\ CompletedFrame \in Nat /\ CompletedFrame <= frames.current - 1
          /\ base \in Nat /\ base <= CompletedFrame
      BY <1>1, CompletedFrameState
    <3>3. base + QueueFrames >= frames.current
      BY <3>1, MaxOfPair
    <3> HIDE DEF base
    <3>4. CASE Opening
      BY <1>1, <2>1, <2>2, <2>3, <2>4, <3>1, <3>2, <3>3, <3>4 DEF RingInv
    <3>5. CASE ~Opening
      BY <1>1, <2>1, <2>2, <2>3, <2>4, <3>1, <3>5 DEF RingInv
    <3> QED BY <3>4, <3>5
  <2>10. MarksInv'
    <3>1. \A x \in Recorded' : x \in Recorded
      BY <1>2, <2>1, <2>5 DEF Recorded, Ran
    <3>2. ASSUME NEW x \in Recorded PROVE Marked(x)'
      <4>1. Marked(x)
        BY <1>1 DEF MarksInv
      <4>2. x.submission > sub.completed /\ Opening => x.frame > CompletedFrame
        BY <1>2, <1>5, CompletedFrameMarks
      <4> QED BY <2>1, <2>3, <2>4, <4>1, <4>2 DEF Marked, Closed
    <3> QED BY <3>1, <3>2 DEF MarksInv
  <2> QED BY <2>6, <2>7, <2>8, <2>9, <2>10 DEF FrameInv
<1> QED BY <1>4, <1>5 DEF BeginOpen

-----------------------------------------------------------------------------
(* The notifications, and the books of a submission and of a frame. *)

LEMMA KeptAwait ==
  ASSUME AwaitInv, cp'.pc \notin {"idle", "begin"} \union FencePcs \union DirectPcs,
         cp'.ret = cp.ret, cp'.end_ret = cp.end_ret
  PROVE  AwaitInv'
BY DEF AwaitInv

LEMMA NotifyFrames ==
  ASSUME IInv, IInv', FrameInv, Notify \/ DestroyStop PROVE FrameInv'
<1>1. /\ Types /\ AwaitInv /\ RingInv /\ SourceInv /\ MarksInv
      /\ cp \in CpStates /\ sub \in SubStates
  BY DEF IInv, FrameInv, Types
<1>2. /\ UNCHANGED <<state, session_active, job, wpc, whr, result, stream, list, queue>>
      /\ UNCHANGED <<sub, frames, env>>
  BY DEF Notify, DestroyStop, RequestStop
<1>3. QueueFrames' = QueueFrames
  BY <1>2 DEF QueueFrames, Profile
<1>4. ListInv' /\ PastInv'
  BY <1>2, ApartLists DEF FrameInv, Reaps
<1>5. /\ cp'.pc \notin {"idle", "begin", "end_close"} \union FencePcs \union DirectPcs
      /\ cp'.ret = cp.ret /\ cp'.end_ret = cp.end_ret /\ SourceInv'
      /\ ToSet(source') \subseteq ToSet(source)
  <2>1. CASE Notify
    <3>1. /\ cp.pc = "notify" /\ Goto(cp.next)
          /\ cp.next \in {"chunk_result", "end_swap", "end_books", "destroy_join"}
          /\ source' = IF cp.next = "chunk_result" THEN <<>> ELSE source
      BY <2>1 DEF Notify, At, IInv, PcInv
    <3>2. cp' = [cp EXCEPT !.pc = cp.next]
      BY <3>1 DEF Goto
    <3>3. /\ cp'.pc = cp.next /\ cp'.ret = cp.ret /\ cp'.end_ret = cp.end_ret
      BY <1>1, <3>2 DEF CpStates
    <3>4. ToSet(<<>>) = {}
      BY DEF ToSet
    <3>5. SourceInv'
      <4>1. CASE cp.next = "chunk_result"
        <5>1. AllOf(source', sub.current)
          BY <3>1, <3>4, <4>1 DEF AllOf
        <5> QED BY <1>1, <1>2, <3>3, <4>1, <5>1 DEF SourceInv, Returning, AllOf
      <4>2. CASE cp.next # "chunk_result"
        <5>1. (HandedOver' <=> HandedOver) /\ source' = source
          BY <3>1, <3>3, <4>2 DEF HandedOver
        <5> QED BY <1>1, <1>2, <3>1, <3>3, <4>2, <5>1 DEF SourceInv, Returning, AllOf
      <4> QED BY <4>1, <4>2
    <3> QED BY <3>1, <3>3, <3>4, <3>5 DEF FencePcs, DirectPcs
  <2>2. CASE DestroyStop
    <3>1. /\ cp.pc = "destroy_stop" /\ source' = source
          /\ cp' = [cp EXCEPT !.pc = "notify", !.next = "destroy_join"]
      BY <2>2 DEF DestroyStop, At, NotifyThen, RequestStop
    <3>2. cp'.pc = "notify" /\ cp'.next = "destroy_join" /\ cp'.ret = cp.ret /\ cp'.end_ret = cp.end_ret
      BY <1>1, <3>1 DEF CpStates
    <3>3. SourceInv'
      BY <1>1, <1>2, <3>1, <3>2 DEF SourceInv, Returning, HandedOver, AllOf
    <3> QED BY <3>1, <3>2, <3>3 DEF FencePcs, DirectPcs
  <2> QED BY <2>1, <2>2
<1>6. AwaitInv'
  BY <1>1, <1>5, KeptAwait
<1>7. RingInv'
  BY <1>1, <1>2, <1>3, <1>5 DEF RingInv
<1>8. MarksInv'
  <2>1. \A c \in Recorded' : c \in Recorded
    BY <1>2, <1>5 DEF Recorded, Ran
  <2>2. \A c : Marked(c)' <=> Marked(c)
    BY <1>2, <1>3 DEF Marked, Closed
  <2> QED BY <1>1, <2>1, <2>2 DEF MarksInv
<1> QED BY <1>4, <1>5, <1>6, <1>7, <1>8 DEF FrameInv

LEMMA EndBooksFrames ==
  ASSUME IInv, IInv', FrameInv, EndBooks PROVE FrameInv'
<1>1. /\ Types /\ AwaitInv /\ RingInv /\ MarksInv
      /\ cp \in CpStates /\ sub \in SubStates /\ frames \in FrameStates
  BY DEF IInv, FrameInv, Types
<1>2. /\ UNCHANGED <<state, session_active, job, wpc, whr, result, stream, source, list, queue>>
      /\ UNCHANGED <<frames, env>> /\ Goto("end_close")
      /\ sub' = [sub EXCEPT !.open = FALSE, !.current = sub.current + 1, !.chunk = NoAllocator,
                            !.direct = FALSE]
  BY DEF EndBooks, workerVars
<1>3. /\ ~sub'.open /\ sub'.current = sub.current + 1 /\ sub'.chunk = NoAllocator
      /\ sub'.completed = sub.completed
  BY <1>1, <1>2 DEF SubStates
<1>4. cp'.pc = "end_close" /\ cp'.ret = cp.ret /\ cp'.end_ret = cp.end_ret
  <2>1. cp' = [cp EXCEPT !.pc = "end_close"]
    BY <1>2 DEF Goto
  <2> QED BY <1>1, <2>1 DEF CpStates
<1>5. QueueFrames' = QueueFrames
  BY <1>2 DEF QueueFrames, Profile
<1>6. ListInv' /\ PastInv'
  BY <1>2, ApartLists DEF FrameInv, Reaps
<1>7. SourceInv'
  BY <1>3, <1>4 DEF SourceInv, Returning
<1>8. AwaitInv'
  BY <1>1, <1>4, KeptAwait DEF FencePcs, DirectPcs
<1>9. sub.current \in Nat /\ sub.completed \in Nat /\ QueueFrames \in Nat \ {0}
      /\ \A i \in 0 .. QueueFrames - 1 : frames.closed[i] \in Nat
  BY <1>1, RingSize DEF Types, SubStates, FrameStates
<1>10. RingInv'
  BY <1>1, <1>2, <1>3, <1>4, <1>5, <1>9 DEF RingInv
<1>11. MarksInv'
  <2>1. \A c \in Recorded' : c \in Recorded
    BY <1>2, <1>3 DEF Recorded, Ran
  <2>2. ASSUME NEW c \in Recorded PROVE Marked(c)'
    <3>1. Marked(c) /\ c.submission \in Nat
      BY <1>1, RecordedCommands DEF MarksInv, Commands
    <3> QED BY <1>2, <1>3, <1>5, <1>9, <3>1 DEF Marked, Closed
  <2> QED BY <2>1, <2>2 DEF MarksInv
<1> QED BY <1>6, <1>7, <1>8, <1>10, <1>11 DEF FrameInv

LEMMA EndCloseFrames ==
  ASSUME IInv, IInv', FrameInv, EndClose PROVE FrameInv'
<1>1. /\ Types /\ AwaitInv /\ RingInv /\ SourceInv /\ MarksInv
      /\ cp \in CpStates /\ sub \in SubStates /\ frames \in FrameStates
  BY DEF IInv, FrameInv, Types
<1>2. /\ UNCHANGED <<workerVars, sub, env, lost>> /\ cp.pc = "end_close" /\ ~sub.open
      /\ Await("clear") \/ ReturnFromEnd(TRUE)
  BY <1>1 DEF EndClose, At, RingInv
<1>3. UNCHANGED <<state, session_active, job, wpc, whr, result, stream, source, list, queue>>
  BY <1>2 DEF workerVars
<1>4. Moves /\ cp'.pc \in {"idle", "fence_direct", "await", "fence"}
  BY <1>1, <1>2, AwaitMoves, ReturnMoves, AwaitSteps, ReturnSteps
<1>5. CASE frames' = frames
  BY <1>2, <1>4, <1>5, StillMoves
<1>6. CASE frames' # frames
  <2> DEFINE place == frames.current % QueueFrames
             last == sub.current - 1
             next == frames.current + 1
  <2>1. /\ place \in 0 .. QueueFrames - 1 /\ last \in Nat /\ last < sub.current /\ next \in Nat \ {0}
        /\ frames.current \in Nat /\ QueueFrames \in Nat \ {0} /\ sub.current \in Nat
        /\ frames.completed \in Nat /\ next = frames.current + 1
    BY <1>1, RingIndex, RingSize DEF Types, SubStates, FrameStates
  <2>2. frames' = [frames EXCEPT !.open = FALSE, !.current = next, !.closed[place] = last] /\ frames.open
    BY <1>6, <2>1 DEF EndClose
  <2>3. \A f \in Nat : f % QueueFrames \in 0 .. QueueFrames - 1
    <3>1. \A n \in Nat, m \in Nat \ {0} : n % m \in 0 .. m - 1
      OBVIOUS
    <3> QED BY <2>1, <3>1
  <2>4. \A f \in Nat : f % QueueFrames # place => f # frames.current
    OBVIOUS
  <2> HIDE DEF place, last, next
  <2>5. /\ ~frames'.open /\ frames'.current = next /\ frames'.completed = frames.completed
        /\ \A i \in 0 .. QueueFrames - 1 :
             frames'.closed[i] = IF i = place THEN last ELSE frames.closed[i]
    BY <1>1, <2>1, <2>2 DEF FrameStates
  <2>6. QueueFrames' = QueueFrames
    BY <1>2 DEF QueueFrames, Profile
  <2>7. ListInv' /\ PastInv'
    BY <1>3, ApartLists DEF FrameInv, Reaps
  <2>8. SourceInv'
    BY <1>1, <1>2, <1>3, <1>4 DEF SourceInv, Returning, AllOf
  <2>9. AwaitInv'
    BY <1>1, <1>2, <1>4, StepsAwait DEF Moves
  <2>10. RingInv'
    <3>1. \A i \in 0 .. QueueFrames - 1 : frames'.closed[i] < sub.current
      BY <1>1, <2>1, <2>5 DEF RingInv
    <3>2. frames.completed + QueueFrames + 1 >= next /\ frames.completed < next
      BY <1>1, <2>1, <2>2 DEF RingInv
    <3> QED BY <1>1, <1>2, <1>4, <2>5, <2>6, <3>1, <3>2 DEF RingInv
  <2>11. MarksInv'
    <3>1. \A c \in Recorded' : c \in Recorded
      BY <1>2, <1>3 DEF Recorded, Ran
    <3>2. ASSUME NEW c \in Recorded PROVE Marked(c)'
      <4>1. Marked(c) /\ c.submission \in Nat /\ c.frame \in Nat /\ c.submission <= last
        <5>1. Marked(c) /\ c.submission \in Nat /\ c.frame \in Nat
          BY <1>1, RecordedCommands DEF MarksInv, Commands
        <5> QED BY <1>2, <2>1, <5>1 DEF Marked, last
      <4>2. Closed(c.frame)' = IF c.frame % QueueFrames = place THEN last ELSE Closed(c.frame)
        BY <2>3, <2>5, <2>6, <4>1 DEF Closed
      <4>3. c.frame % QueueFrames # place /\ c.frame < next => c.frame < frames.current
        BY <2>1, <2>4, <4>1, SMTT(30)
      <4>4. c.frame <= next
        BY <2>1, <4>1 DEF Marked
      <4>5. c.submission > sub.completed /\ c.frame < next => c.submission <= Closed(c.frame)'
        BY <4>1, <4>2, <4>3 DEF Marked
      <4> QED BY <1>2, <2>5, <4>1, <4>4, <4>5 DEF Marked
    <3> QED BY <3>1, <3>2 DEF MarksInv
  <2> QED BY <2>7, <2>8, <2>9, <2>10, <2>11 DEF FrameInv
<1> QED BY <1>5, <1>6

-----------------------------------------------------------------------------
(* The exchange of the source with the worker's stream. *)

Exchanges ==
  /\ cp.pc \in {"chunk", "end_submit"} /\ state \in {"Idle", "Complete"}
  /\ UNCHANGED <<result, wpc, whr, list, queue, env, frames>>
  /\ stream' = source /\ source' = stream /\ state' = "Queued"
  /\ job'.operation \in Operations /\ job'.fence_value = sub.current
  /\ sub'.open = sub.open /\ sub'.current = sub.current /\ sub'.completed = sub.completed
  /\ job'.operation \in {"Whole", "Begin"} => ~session_active /\ state = "Idle"
  /\ job'.operation \in {"Append", "Finish"} =>
       session_active /\ session_active' /\ sub.chunk # NoAllocator /\ sub'.chunk = sub.chunk
  /\ cp'.pc = "notify" /\ cp'.ret = cp.ret /\ cp'.end_ret = cp.end_ret
  /\ job'.operation \in {"Begin", "Append"} => cp'.next = "chunk_result"
  /\ job'.operation = "Whole" => cp'.next = "end_books" /\ sub'.chunk = NoAllocator
  /\ job'.operation = "Finish" => cp'.next \in {"end_swap", "end_books"}

LEMMA ExchangesFrames ==
  ASSUME IInv, IInv', FrameInv, Exchanges PROVE FrameInv'
<1>1. /\ Types /\ ListInv /\ PastInv /\ AwaitInv /\ RingInv /\ SourceInv /\ MarksInv
      /\ cp \in CpStates /\ sub \in SubStates
  BY DEF IInv, FrameInv, Types
<1>2. sub.open /\ ~HandedOver /\ ~Failed(result) /\ wpc \notin ExecutePCs /\ ~Broken
  <2>1. sub.open /\ ~HandedOver /\ wpc \notin ExecutePCs
    BY DEF IInv, PcInv, HandedOver, SlotOwned, Exchanges
  <2>2. ~Failed(result)
    BY DEF IInv, LatchSettled, Exchanges
  <2> QED BY <2>1, <2>2 DEF Broken, ExecutePCs
<1>3. QueueFrames' = QueueFrames
  BY DEF QueueFrames, Profile, Exchanges
<1>4. Ran' = Ran /\ (\A c : Unsignalled(c)' <=> Unsignalled(c))
  BY DEF Ran, Unsignalled, IsSignal, Exchanges
<1>5. AllOf(source, sub.current)
  BY <1>1, <1>2 DEF SourceInv, Returning, Exchanges
<1>6. \A c \in ToSet(source) : Unsignalled(c)
  <2>1. \A i \in 1 .. Len(queue) : IsSignal(i) => queue[i].value < sub.current
    BY <1>2 DEF IInv, OrderInv
  <2> QED BY <1>5, <2>1 DEF AllOf, Unsignalled
<1>7. ListInv'
  <2>1. \A c \in ToSet(list'.commands) : c \in Ran' \/ Unsignalled(c)'
    BY <1>1, <1>4 DEF ListInv, Exchanges
  <2>2. ASSUME ~InHand' \/ ListIsOld' PROVE \A c \in ToSet(list'.commands) : c \in Ran'
    <3>1. ListIsOld'
      BY <2>2 DEF InHand, Exchanges
    <3>2. job'.operation \in {"Whole", "Begin"}
      BY <1>2, <3>1 DEF ListIsOld, ExecutePCs, Exchanges
    <3>3. ~InHand
      BY <1>2, <3>2 DEF InHand, Executing, Exchanges
    <3> QED BY <1>1, <1>2, <1>4, <3>3 DEF ListInv, Exchanges
  <2>3. \A c \in ToSet(stream') : c \in Ran' \/ Unsignalled(c)'
    BY <1>4, <1>6 DEF Exchanges
  <2>4. wpc' \notin {"close", "execute", "signal"}
    BY <1>2 DEF ExecutePCs, Exchanges
  <2> QED BY <2>1, <2>2, <2>3, <2>4 DEF ListInv
<1>8. PastInv'
  BY <1>1 DEF PastInv, IsSignal, Exchanges
<1>9. SourceInv'
  <2>1. AllOf(stream', job'.fence_value)
    BY <1>5 DEF Exchanges
  <2>2. CASE job'.operation \in {"Begin", "Append"}
    BY <2>1, <2>2 DEF SourceInv, Returning, Exchanges
  <2>3. CASE job'.operation = "Whole"
    BY <2>1, <2>3 DEF SourceInv, Returning, HandedOver, Exchanges
  <2>4. CASE job'.operation = "Finish"
    <3>1. session_active /\ sub.chunk # NoAllocator /\ sub'.chunk # NoAllocator
      BY <2>4 DEF Exchanges
    <3>2. AllOf(stream, job.fence_value) /\ job.fence_value = sub.current
      BY <1>1, <3>1 DEF SourceInv, IInv, JobInv
    <3>3. AllOf(source', sub'.current)
      BY <3>2 DEF Exchanges
    <3> QED BY <2>1, <3>1, <3>3 DEF SourceInv, Returning, Exchanges
  <2> QED BY <2>2, <2>3, <2>4 DEF Exchanges, Operations
<1>10. AwaitInv'
  BY <1>1, KeptAwait DEF FencePcs, DirectPcs, Exchanges
<1>11. RingInv'
  BY <1>1, <1>3 DEF RingInv, Exchanges
<1>12. MarksInv'
  <2>1. \A c \in Recorded' : c \in Recorded
    BY <1>2, <1>4 DEF Recorded, Exchanges
  <2>2. \A c : Marked(c)' <=> Marked(c)
    BY <1>3 DEF Marked, Closed, Exchanges
  <2> QED BY <1>1, <2>1, <2>2 DEF MarksInv
<1> QED BY <1>7, <1>8, <1>9, <1>10, <1>11, <1>12 DEF FrameInv

LEMMA NotifyThenFields ==
  ASSUME Types, NEW next, NotifyThen(next)
  PROVE  cp'.pc = "notify" /\ cp'.next = next /\ cp'.ret = cp.ret /\ cp'.end_ret = cp.end_ret
<1>1. cp \in CpStates /\ cp' = [cp EXCEPT !.pc = "notify", !.next = next]
  BY DEF Types, NotifyThen
<1> QED BY <1>1 DEF CpStates

LEMMA ChunkFrames ==
  ASSUME IInv, IInv', FrameInv, AppendChunk \/ BeginChunks PROVE FrameInv'
<1>1. /\ Types /\ AwaitInv /\ cp \in CpStates /\ sub \in SubStates /\ cp.pc = "chunk"
      /\ UNCHANGED <<frames, env, lost>>
  BY DEF IInv, FrameInv, Types, AppendChunk, BeginChunks, At
<1>2. ASSUME NEW pc \in {"idle", "chunk_result"}, Goto(pc) PROVE Moves
  <2>1. pc \in (CpPcs \ Promised) \union {"idle"} /\ pc # "end_close"
    BY DEF CpPcs, Promised, FencePcs, DirectPcs
  <2> QED BY <1>1, <1>2, <2>1, GotoMoves
<1>3. CASE AppendChunk /\ ~CanAppend
  <2>1. /\ Reaps /\ UNCHANGED <<stream, source, wpc, whr, result, list, queue, sub>>
        /\ Goto("chunk_result")
    BY <1>3 DEF AppendChunk, TryAppendChunk, Reaps
  <2> QED BY <1>1, <1>2, <2>1, MovesKeep
<1>4. CASE AppendChunk /\ CanAppend
  <2>1. state \in {"Idle", "Complete"} /\ session_active /\ sub.chunk # NoAllocator
    BY <1>1, <1>4 DEF AppendChunk, CanAppend, SlotOpen, ReapedState, ReapedSession, Reaping, Types
  <2>2. /\ job' = [ReapedJob EXCEPT !.operation = "Append"] /\ stream' = source /\ source' = stream
        /\ state' = "Queued" /\ session_active' = ReapedSession
        /\ UNCHANGED <<result, wpc, whr, list, queue, sub>> /\ NotifyThen("chunk_result")
    BY <1>4 DEF AppendChunk, TryAppendChunk, SwapStorage
  <2>3. ReapedJob \in Jobs /\ ReapedJob.fence_value = job.fence_value /\ job.fence_value = sub.current
    BY <1>1, <2>1 DEF ReapedJob, Jobs, Types, IInv, JobInv
  <2>4. job'.operation = "Append" /\ job'.fence_value = sub.current
    BY <2>2, <2>3 DEF Jobs
  <2>5. session_active'
    BY <1>4, <2>2, Zenon DEF CanAppend
  <2>6. cp'.pc = "notify" /\ cp'.next = "chunk_result" /\ cp'.ret = cp.ret /\ cp'.end_ret = cp.end_ret
    BY <1>1, <2>2, NotifyThenFields
  <2>7. Exchanges
    BY <1>1, <2>1, <2>2, <2>4, <2>5, <2>6 DEF Exchanges, Operations
  <2> QED BY <2>7, ExchangesFrames
<1>5. CASE BeginChunks
  <2>1. PICK writable \in Writable :
          \/ Goto("idle") /\ UNCHANGED <<workerVars, sub>>
          \/ /\ writable # <<>> /\ Start(Head(writable), sub.current, TRUE)
             /\ sub' = [sub EXCEPT !.chunk = Head(writable)] /\ NotifyThen("chunk_result")
          \/ Goto("chunk_result") /\ UNCHANGED <<workerVars, sub>>
    BY <1>5 DEF BeginChunks
  <2>2. CASE (Goto("idle") \/ Goto("chunk_result")) /\ UNCHANGED <<workerVars, sub>>
    BY <1>1, <1>2, <2>2, StillMoves
  <2>3. CASE /\ writable # <<>> /\ Start(Head(writable), sub.current, TRUE)
             /\ sub' = [sub EXCEPT !.chunk = Head(writable)] /\ NotifyThen("chunk_result")
    <3>1. Head(writable) \in Allocators
      BY <1>1, <2>3, WritableAllocator
    <3>2. /\ sub'.open = sub.open /\ sub'.current = sub.current /\ sub'.completed = sub.completed
      BY <1>1, <2>3 DEF SubStates
    <3>3. cp'.pc = "notify" /\ cp'.next = "chunk_result" /\ cp'.ret = cp.ret /\ cp'.end_ret = cp.end_ret
      BY <1>1, <2>3, NotifyThenFields
    <3>4. /\ state = "Idle" /\ UNCHANGED <<result, wpc, whr, list, queue>>
          /\ stream' = source /\ source' = stream /\ state' = "Queued"
          /\ job'.fence_value = sub.current /\ job'.operation = "Begin"
      BY <1>1, <2>3, <3>1, StartState
    <3>5. ~session_active
      BY <2>3 DEF Start, CanStart
    <3>6. Exchanges
      BY <1>1, <3>2, <3>3, <3>4, <3>5 DEF Exchanges, Operations
    <3> QED BY <3>6, ExchangesFrames
  <2> QED BY <2>1, <2>2, <2>3
<1> QED BY <1>3, <1>4, <1>5

LEMMA EndFrames ==
  ASSUME IInv, IInv', FrameInv, EndFinishChunks \/ EndSubmit PROVE FrameInv'
<1>1. /\ Types /\ AwaitInv /\ cp \in CpStates /\ sub \in SubStates /\ cp.pc = "end_submit"
      /\ UNCHANGED <<sub, frames, env>>
  BY DEF IInv, FrameInv, Types, EndFinishChunks, EndSubmit, At
<1>2. CASE ReturnFromEnd(FALSE) /\ UNCHANGED workerVars /\ (lost => lost')
  BY <1>1, <1>2, ReturnMoves, StillMoves
<1>3. CASE EndFinishChunks
  <2>1. \/ FinishChunks /\ NotifyThen(IF cp.swap THEN "end_swap" ELSE "end_books")
        \/ ReturnFromEnd(FALSE) /\ UNCHANGED workerVars /\ lost' = TRUE
    BY <1>3 DEF EndFinishChunks
  <2>2. CASE FinishChunks /\ NotifyThen(IF cp.swap THEN "end_swap" ELSE "end_books")
    <3>1. /\ state = "Idle" /\ session_active /\ session_active' = session_active
          /\ sub.chunk # NoAllocator
      BY <1>3, <2>2 DEF EndFinishChunks, FinishChunks, CanFinish, SlotOpen
    <3>2. /\ job' = [job EXCEPT !.operation = "Finish"] /\ stream' = source /\ source' = stream
          /\ state' = "Queued" /\ UNCHANGED <<result, wpc, whr, list, queue>>
      BY <2>2 DEF FinishChunks, SwapStorage
    <3>3. job \in Jobs /\ job.fence_value = sub.current
      BY <1>1, <3>1 DEF Types, IInv, JobInv
    <3>4. job'.operation = "Finish" /\ job'.fence_value = sub.current
      BY <3>2, <3>3 DEF Jobs
    <3>5. /\ cp'.pc = "notify" /\ cp'.next \in {"end_swap", "end_books"}
          /\ cp'.ret = cp.ret /\ cp'.end_ret = cp.end_ret
      BY <1>1, <2>2, NotifyThenFields
    <3>6. Exchanges
      BY <1>1, <3>1, <3>2, <3>4, <3>5 DEF Exchanges, Operations
    <3> QED BY <3>6, ExchangesFrames
  <2> QED BY <1>2, <2>1, <2>2
<1>4. CASE EndSubmit
  <2>1. PICK writable \in Writable :
          \/ ReturnFromEnd(FALSE) /\ UNCHANGED workerVars
          \/ /\ writable # <<>> /\ Start(Head(writable), sub.current, FALSE)
             /\ NotifyThen("end_books")
          \/ Goto("end_replay") /\ UNCHANGED workerVars
    BY <1>4 DEF EndSubmit
  <2>2. sub.chunk = NoAllocator /\ lost' = lost
    BY <1>4 DEF EndSubmit
  <2>3. CASE writable # <<>> /\ Start(Head(writable), sub.current, FALSE) /\ NotifyThen("end_books")
    <3>1. Head(writable) \in Allocators
      BY <1>1, <2>3, WritableAllocator
    <3>2. cp'.pc = "notify" /\ cp'.next = "end_books" /\ cp'.ret = cp.ret /\ cp'.end_ret = cp.end_ret
      BY <1>1, <2>3, NotifyThenFields
    <3>3. /\ state = "Idle" /\ UNCHANGED <<result, wpc, whr, list, queue>>
          /\ stream' = source /\ source' = stream /\ state' = "Queued"
          /\ job'.fence_value = sub.current /\ job'.operation = "Whole"
      BY <1>1, <2>3, <3>1, StartState
    <3>4. ~session_active
      BY <2>3 DEF Start, CanStart
    <3>5. Exchanges
      BY <1>1, <2>2, <3>2, <3>3, <3>4 DEF Exchanges, Operations
    <3> QED BY <3>5, ExchangesFrames
  <2>4. CASE Goto("end_replay") /\ UNCHANGED workerVars
    <3>1. "end_replay" \in CpPcs \ Promised
      BY DEF CpPcs, Promised, FencePcs, DirectPcs
    <3>2. Moves
      BY <1>1, <2>4, <3>1, GotoMoves
    <3> QED BY <1>1, <2>2, <2>4, <3>2, StillMoves
  <2> QED BY <1>2, <2>1, <2>2, <2>3, <2>4
<1> QED BY <1>3, <1>4

-----------------------------------------------------------------------------
(* The CP's own use of the queue. *)

(* An entry that executes nothing and is no submission's signal. *)
LEMMA AddedFrames ==
  ASSUME IInv, IInv', FrameInv, Moves, cp' # cp,
         UNCHANGED <<state, session_active, job, wpc, whr, result, stream, source, list, frames, env>>,
         sub'.open = sub.open, sub'.current = sub.current, sub'.chunk = sub.chunk,
         sub'.completed = sub.completed,
         NEW e \in Entries, e.kind # "signal", e.commands = <<>>, queue' = Append(queue, e)
  PROVE  FrameInv'
<1>1. /\ Types /\ AwaitInv /\ RingInv /\ SourceInv /\ MarksInv /\ ListInv /\ PastInv
      /\ cp \in CpStates /\ sub \in SubStates
  BY DEF IInv, FrameInv, Types
<1> DEFINE n == Len(queue)
<1>2. /\ n \in Nat /\ Len(queue') = n + 1 /\ \A i \in 1 .. n : queue'[i] = queue[i]
      /\ queue'[n + 1] = e
  BY <1>1, QueueGrows
<1> HIDE DEF n
<1>3. \A i \in 1 .. Len(queue') : i \in 1 .. n \/ i = n + 1
  BY <1>2
<1>4. \A i \in 1 .. n : i \in 1 .. Len(queue') /\ i \in 1 .. Len(queue)
  BY <1>2 DEF n
<1>5. ToSet(<<>>) = {}
  BY DEF ToSet
<1>6. Ran' = Ran
  <2>1. \A c : c \in Ran' => c \in Ran
    <3>1. SUFFICES ASSUME NEW c, NEW i \in 1 .. Len(queue'), c \in ToSet(queue'[i].commands)
                   PROVE  c \in Ran
      BY DEF Ran
    <3>2. i \in 1 .. n
      BY <1>2, <1>3, <1>5, <3>1
    <3> QED BY <1>2, <1>4, <3>1, <3>2 DEF Ran
  <2>2. \A c : c \in Ran => c \in Ran'
    <3>1. SUFFICES ASSUME NEW c, NEW i \in 1 .. n, c \in ToSet(queue[i].commands)
                   PROVE  c \in Ran'
      BY DEF Ran, n
    <3> QED BY <1>2, <1>4, <3>1 DEF Ran
  <2> QED BY <2>1, <2>2
<1>7. \A c : Unsignalled(c)' <=> Unsignalled(c)
  BY <1>2, <1>3, <1>4 DEF Unsignalled, IsSignal, n
<1>8. (InHand' <=> InHand) /\ (ListIsOld' <=> ListIsOld) /\ (Holding' <=> Holding)
      /\ (Broken' <=> Broken)
  BY DEF InHand, Executing, ListIsOld, Holding, Broken
<1>9. ListInv'
  BY <1>1, <1>6, <1>7, <1>8 DEF ListInv
<1>10. PastInv'
  <2>1. SUFFICES ASSUME NEW i \in 1 .. Len(queue'), NEW c \in ToSet(queue'[i].commands),
                        NEW j \in 1 .. i - 1, IsSignal(j)'
                 PROVE  queue'[j].value < c.submission
    BY DEF PastInv
  <2>2. i \in 1 .. n
    BY <1>2, <1>3, <1>5
  <2>3. j \in 1 .. n
    BY <1>2, <2>2
  <2> QED BY <1>1, <1>2, <1>4, <2>1, <2>2, <2>3 DEF PastInv, IsSignal
<1>11. cp.pc \notin {"notify", "end_books"} /\ cp'.pc \notin {"end_swap", "notify"}
       /\ (cp'.pc = "end_close" => ~sub.open)
  BY DEF Moves, Leaves
<1>12. SourceInv'
  BY <1>1, <1>11 DEF SourceInv, HandedOver, Returning, AllOf
<1>13. AwaitInv'
  BY <1>1, StepsAwait DEF Moves
<1>14. QueueFrames' = QueueFrames
  BY DEF QueueFrames, Profile
<1>15. RingInv'
  BY <1>1, <1>11, <1>14 DEF RingInv
<1>16. MarksInv'
  <2>1. Recorded' = Recorded
    BY <1>6 DEF Recorded
  <2>2. \A c : Marked(c)' <=> Marked(c)
    BY <1>14 DEF Marked, Closed
  <2> QED BY <1>1, <2>1, <2>2 DEF MarksInv
<1> QED BY <1>9, <1>10, <1>12, <1>13, <1>15, <1>16 DEF FrameInv

LEMMA DirectFrames ==
  ASSUME IInv, IInv', FrameInv, UpdateTileMappings \/ FenceDirectSignal PROVE FrameInv'
<1>1. /\ Types /\ AwaitInv /\ cp \in CpStates /\ sub \in SubStates
  BY DEF IInv, FrameInv, Types
<1>2. UNCHANGED <<state, session_active, job, wpc, whr, result, stream, source, list, frames, env>>
  BY DEF UpdateTileMappings, FenceDirectSignal, slotVars
<1>3. <<>> \in Seq(Commands)
  OBVIOUS
<1>4. CASE UpdateTileMappings
  <2>1. /\ cp.pc = "direct" /\ cp.next \in {"record", "copy"} /\ Goto(cp.next)
        /\ sub' = [sub EXCEPT !.direct = TRUE] /\ queue' = Append(queue, DirectEntry)
    BY <1>4 DEF UpdateTileMappings, At, IInv, PcInv
  <2>2. DirectEntry \in Entries /\ DirectEntry.kind # "signal" /\ DirectEntry.commands = <<>>
    BY <1>1, <1>3 DEF DirectEntry, Entries, SubStates
  <2>3. cp.next \in CpPcs \ Promised /\ cp.next # "end_close"
    BY <2>1 DEF CpPcs, Promised, FencePcs, DirectPcs
  <2>4. Moves /\ cp'.pc = cp.next
    BY <1>1, <2>1, <2>3, GotoMoves, GotoSteps
  <2>5. cp' # cp
    BY <2>1, <2>4
  <2>6. /\ sub'.open = sub.open /\ sub'.current = sub.current /\ sub'.chunk = sub.chunk
        /\ sub'.completed = sub.completed
    BY <1>1, <2>1 DEF SubStates
  <2> HIDE DEF DirectEntry
  <2> QED BY <1>2, <2>1, <2>2, <2>4, <2>5, <2>6, AddedFrames
<1>5. CASE FenceDirectSignal
  <2> DEFINE last == sub.direct_last + 1
             e == DirectSignalEntry(last)
  <2>1. cp.pc = "fence_direct_signal" /\ cp.ret = "await" /\ last \in Nat
    BY <1>1, <1>5 DEF FenceDirectSignal, At, AwaitInv, DirectPcs, SubStates
  <2>2. sub' = [sub EXCEPT !.direct_last = last]
    BY <1>5 DEF FenceDirectSignal
  <2>3. /\ sub'.open = sub.open /\ sub'.current = sub.current /\ sub'.chunk = sub.chunk
        /\ sub'.completed = sub.completed /\ sub'.direct_last = last
    BY <1>1, <2>2 DEF SubStates
  <2>4. e \in Entries /\ e.kind # "signal" /\ e.commands = <<>>
    BY <1>3, <2>1 DEF DirectSignalEntry, Entries
  <2>5. queue' = queue \/ queue' = Append(queue, e)
    BY <1>5, <2>3 DEF FenceDirectSignal
  <2>6. cp'.pc \in {"fence_direct_wait", "fence_check"} /\ cp'.ret = "await"
    <3>1. \/ cp' = [cp EXCEPT !.pc = "fence_direct_wait"]
          \/ cp' = [cp EXCEPT !.pc = "fence_check", !.await = sub.current - 1]
      BY <1>5 DEF FenceDirectSignal, Goto, AwaitLastSubmission
    <3> QED BY <1>1, <2>1, <3>1 DEF CpStates
  <2>7. Moves /\ cp' # cp
    BY <2>1, <2>6 DEF Moves, Steps, Leaves
  <2> HIDE DEF e, last
  <2>8. CASE queue' = queue
    BY <1>2, <2>3, <2>7, <2>8, MovesKeep DEF Reaps
  <2>9. CASE queue' = Append(queue, e)
    BY <1>2, <2>3, <2>4, <2>7, <2>9, AddedFrames
  <2> QED BY <2>5, <2>8, <2>9
<1> QED BY <1>4, <1>5

LEMMA EndReplayFrames ==
  ASSUME IInv, IInv', FrameInv, EndReplay PROVE FrameInv'
<1> DEFINE n == Len(queue)
           x == ExecuteEntry(source, Head(pools.writable))
           e == SignalEntry(sub.current)
<1>1. /\ Types /\ AwaitInv /\ RingInv /\ SourceInv /\ MarksInv /\ ListInv /\ PastInv
      /\ cp \in CpStates /\ sub \in SubStates /\ env \in EnvStates /\ queue \in Seq(Entries)
      /\ n \in Nat
  BY DEF IInv, FrameInv, Types
<1>2. /\ cp.pc = "end_replay" /\ Goto("end_books") /\ sub.open /\ sub.chunk = NoAllocator
      /\ UNCHANGED <<state, session_active, job, wpc, whr, result, stream, source, list, frames, sub,
                     lost>>
  BY DEF EndReplay, At, IInv, PcInv, slotVars
<1>3. Moves /\ cp'.pc = "end_books" /\ cp'.ret = cp.ret /\ cp'.end_ret = cp.end_ret
  <2>1. "end_books" \in CpPcs \ Promised
    BY DEF CpPcs, Promised, FencePcs, DirectPcs
  <2>2. cp' = [cp EXCEPT !.pc = "end_books"]
    BY <1>2 DEF Goto
  <2>3. cp'.ret = cp.ret /\ cp'.end_ret = cp.end_ret
    BY <1>1, <2>2 DEF CpStates
  <2> QED BY <1>1, <1>2, <2>1, <2>3, GotoMoves, GotoSteps
<1>4. CASE queue' = queue /\ env' = [env EXCEPT !.removed = TRUE]
  <2>1. env'.profile = env.profile /\ cp' # cp
    BY <1>1, <1>2, <1>3, <1>4 DEF EnvStates
  <2> QED BY <1>2, <1>3, <1>4, <2>1, MovesKeep DEF Reaps
<1>5. CASE queue' = queue \o <<x, e>> /\ env' = env
  <2>1. state = "Idle" /\ wpc \notin ExecutePCs /\ ~Failed(result) /\ ~Broken
        /\ \A i \in 1 .. n : IsSignal(i) => queue[i].value < sub.current
    BY <1>2, NothingUnderway DEF Flushed
  <2>2. ~session_active
    BY <1>2, <2>1 DEF IInv, JobInv, FinalOperations
  <2>3. /\ x.kind = "execute" /\ x.commands = source
        /\ e.kind = "signal" /\ e.commands = <<>> /\ e.value = sub.current
    BY DEF ExecuteEntry, SignalEntry
  <2>4. /\ Len(queue') = n + 2 /\ \A i \in 1 .. n : queue'[i] = queue[i]
        /\ queue'[n + 1] = x /\ queue'[n + 2] = e
    <3> HIDE DEF x, e
    <3> QED BY <1>1, <1>5
  <2> HIDE DEF n, x, e
  <2>5. \A i \in 1 .. Len(queue') : i \in 1 .. n \/ i = n + 1 \/ i = n + 2
    BY <1>1, <2>4
  <2>6. \A i \in 1 .. n : i \in 1 .. Len(queue') /\ i \in 1 .. Len(queue)
    BY <1>1, <2>4 DEF n
  <2>7. ToSet(<<>>) = {}
    BY DEF ToSet
  <2>8. Ran \subseteq Ran' /\ Ran' \subseteq Ran \union ToSet(source)
    <3>1. \A c : c \in Ran => c \in Ran'
      <4>1. SUFFICES ASSUME NEW c, NEW i \in 1 .. n, c \in ToSet(queue[i].commands)
                     PROVE  c \in Ran'
        BY DEF Ran, n
      <4> QED BY <2>4, <2>6, <4>1 DEF Ran
    <3>2. \A c : c \in Ran' => c \in Ran \union ToSet(source)
      <4>1. SUFFICES ASSUME NEW c, NEW i \in 1 .. Len(queue'), c \in ToSet(queue'[i].commands)
                     PROVE  c \in Ran \union ToSet(source)
        BY DEF Ran
      <4>2. CASE i \in 1 .. n
        BY <2>4, <2>6, <4>1, <4>2 DEF Ran
      <4>3. CASE i = n + 1
        BY <2>3, <2>4, <4>1, <4>3
      <4>4. CASE i = n + 2
        BY <2>3, <2>4, <2>7, <4>1, <4>4
      <4> QED BY <2>5, <4>2, <4>3, <4>4
    <3> QED BY <3>1, <3>2
  <2>9. \A c \in ToSet(list.commands) : c \in Ran
    BY <1>1, <2>1, <2>2 DEF ListInv, InHand, Executing
  <2>10. ListInv'
    <3>1. wpc' \notin {"close", "execute", "signal"} /\ ~Holding'
      BY <1>2, <2>1, <2>2 DEF ExecutePCs, Holding
    <3> QED BY <1>2, <2>8, <2>9, <3>1 DEF ListInv
  <2>11. AllOf(source, sub.current)
    BY <1>1, <1>2 DEF SourceInv, HandedOver, Returning
  <2>12. PastInv'
    <3>1. SUFFICES ASSUME NEW i \in 1 .. Len(queue'), NEW c \in ToSet(queue'[i].commands),
                          NEW j \in 1 .. i - 1, IsSignal(j)'
                   PROVE  queue'[j].value < c.submission
      BY DEF PastInv
    <3>2. CASE i \in 1 .. n
      <4>1. j \in 1 .. n
        BY <1>1, <3>2
      <4> QED BY <1>1, <2>4, <2>6, <3>1, <3>2, <4>1 DEF PastInv, IsSignal
    <3>3. CASE i = n + 1
      <4>1. j \in 1 .. n
        BY <1>1, <3>3
      <4>2. c.submission = sub.current
        BY <2>3, <2>4, <2>11, <3>3 DEF AllOf
      <4> QED BY <2>1, <2>4, <3>1, <4>1, <4>2 DEF IsSignal
    <3>4. CASE i = n + 2
      BY <2>3, <2>4, <2>7, <3>4
    <3> QED BY <2>5, <3>2, <3>3, <3>4
  <2>13. SourceInv'
    BY <1>2, <1>3 DEF SourceInv, HandedOver, Returning
  <2>14. AwaitInv'
    BY <1>1, <1>3, KeptAwait DEF FencePcs, DirectPcs
  <2>15. QueueFrames' = QueueFrames
    BY <1>5 DEF QueueFrames, Profile
  <2>16. RingInv'
    BY <1>1, <1>2, <1>3, <2>15 DEF RingInv
  <2>17. MarksInv'
    <3>1. \A c \in Recorded' : c \in Recorded
      BY <1>2, <2>8 DEF Recorded
    <3>2. \A c : Marked(c)' <=> Marked(c)
      BY <1>2, <2>15 DEF Marked, Closed
    <3> QED BY <1>1, <3>1, <3>2 DEF MarksInv
  <2> QED BY <2>10, <2>12, <2>13, <2>14, <2>16, <2>17 DEF FrameInv
<1> QED BY <1>4, <1>5 DEF EndReplay

-----------------------------------------------------------------------------
(* What the worker does to the list and the queue.                          *)

LEMMA ToSetConcat ==
  ASSUME NEW S, NEW s \in Seq(S), NEW t \in Seq(S)
  PROVE  ToSet(s \o t) = ToSet(s) \union ToSet(t)
<1>1. s \o t \in Seq(S) /\ Len(s \o t) = Len(s) + Len(t) /\ Len(s) \in Nat /\ Len(t) \in Nat
  BY ConcatProperties
<1>2. ASSUME NEW x \in ToSet(s \o t) PROVE x \in ToSet(s) \union ToSet(t)
  <2>1. PICK i \in 1 .. Len(s \o t) : (s \o t)[i] = x
    BY <1>1, <1>2, InToSet
  <2>2. CASE i <= Len(s)
    BY <1>1, <2>1, <2>2, ConcatProperties, InToSet
  <2>3. CASE i > Len(s)
    <3>1. i - Len(s) \in 1 .. Len(t) /\ t[i - Len(s)] = x
      BY <1>1, <2>1, <2>3, ConcatProperties
    <3> QED BY <3>1, InToSet
  <2> QED BY <1>1, <2>1, <2>2, <2>3
<1>3. ASSUME NEW x \in ToSet(s) PROVE x \in ToSet(s \o t)
  <2>1. PICK i \in 1 .. Len(s) : s[i] = x
    BY <1>3, InToSet
  <2>2. i \in 1 .. Len(s \o t) /\ (s \o t)[i] = x
    BY <1>1, <2>1, ConcatProperties
  <2> QED BY <1>1, <2>2, InToSet
<1>4. ASSUME NEW x \in ToSet(t) PROVE x \in ToSet(s \o t)
  <2>1. PICK i \in 1 .. Len(t) : t[i] = x
    BY <1>4, InToSet
  <2>2. Len(s) + i \in 1 .. Len(s \o t) /\ (s \o t)[Len(s) + i] = x
    BY <1>1, <2>1, ConcatProperties
  <2> QED BY <1>1, <2>2, InToSet
<1> QED BY <1>2, <1>3, <1>4

LEMMA ToSetPrefix ==
  ASSUME NEW S, NEW s \in Seq(S), NEW n \in 0 .. Len(s)
  PROVE  SubSeq(s, 1, n) \in Seq(S) /\ ToSet(SubSeq(s, 1, n)) \subseteq ToSet(s)
<1>1. /\ SubSeq(s, 1, n) \in Seq(S) /\ Len(SubSeq(s, 1, n)) = n /\ Len(s) \in Nat
      /\ \A i \in 1 .. n : SubSeq(s, 1, n)[i] = s[i]
  OBVIOUS
<1>2. \A i \in 1 .. n : i \in 1 .. Len(s)
  BY <1>1
<1> DEFINE p == SubSeq(s, 1, n)
<1>3. p \in Seq(S) /\ Len(p) = n /\ \A i \in 1 .. n : p[i] = s[i]
  BY <1>1
<1> HIDE DEF p
<1>4. ToSet(p) \subseteq ToSet(s)
  <2>1. SUFFICES ASSUME NEW x \in ToSet(p) PROVE x \in ToSet(s)
    OBVIOUS
  <2>2. PICK i \in 1 .. n : p[i] = x
    BY <1>3, <2>1, InToSet
  <2>3. i \in 1 .. Len(s) /\ s[i] = x
    BY <1>2, <1>3, <2>2
  <2> QED BY <2>3, InToSet
<1> QED BY <1>3, <1>4 DEF p

(* The worker's own fields are all that its steps write. *)
LEMMA WorkerStays ==
  ASSUME IInv, WorkerStep
  PROVE  /\ UNCHANGED <<cp, sub, frames, env, lost, source, stream, session_active>>
         /\ job'.fence_value = job.fence_value /\ job'.operation = job.operation
         /\ wpc \notin {"execute", "signal"} => queue' = queue
<1>1. UNCHANGED <<cp, sub, frames, env, lost>>
  BY DEF WorkerStep, cpuVars
<1>2. UNCHANGED <<source, stream, session_active>>
  BY DEF WorkerStep, WorkerNext, ExecuteJob, RunAcquire, RunWoken, ResetAllocator, ResetList, Replay,
         Close, Execute, Signal, StoreResult, Publish, slotVars
<1>3. wpc \notin {"execute", "signal"} => queue' = queue
  BY DEF WorkerStep, WorkerNext, ExecuteJob, RunAcquire, RunWoken, ResetAllocator, ResetList, Replay,
         Close, Execute, Signal, StoreResult, Publish, slotVars
<1>4. job' = job \/ job' = [job EXCEPT !.result = whr]
  BY DEF WorkerStep, WorkerNext, ExecuteJob, RunAcquire, RunWoken, ResetAllocator, ResetList, Replay,
         Close, Execute, Signal, StoreResult, Publish, slotVars
<1>5. job'.fence_value = job.fence_value /\ job'.operation = job.operation
  BY <1>4 DEF IInv, Types, Jobs
<1> QED BY <1>1, <1>2, <1>3, <1>5

(* Steps before and after the execution, and a failed reset, leave the list *)
(* as it was.                                                               *)
LEMMA UnderwayLists ==
  ASSUME IInv, IInv', ListInv, Places, WorkerStep,
         RunAcquire \/ RunWoken \/ ResetAllocator \/ ResetList \/ StoreResult \/ Publish
  PROVE  ListInv'
<1>1. /\ stream' = stream /\ session_active' = session_active /\ queue' = queue
      /\ job'.operation = job.operation
      /\ ~Broken' => ~Broken
  BY WorkerStays, WorkerJob DEF ResetAllocator, ResetList, StoreResult, Publish, RunAcquire, RunWoken
<1>2. Ran' = Ran /\ (\A c : Unsignalled(c)' <=> Unsignalled(c))
  BY <1>1 DEF Ran, Unsignalled, IsSignal
<1>3. wpc \in ExecutePCs <=> state = "Running"
  BY DEF IInv, SlotOwned
<1>4. /\ Holding' => Holding
      /\ wpc' \notin {"close", "execute", "signal"}
      /\ ~Broken' /\ (~InHand' \/ ListIsOld') => ~InHand \/ ListIsOld \/ list'.commands = <<>>
      /\ list'.commands \in {list.commands, <<>>}
  <2>1. CASE RunAcquire \/ RunWoken
    <3>1. /\ list' = list /\ wpc \in {"lock", "waiting"}
          /\ wpc' \in {"exited", "lock", "waiting", "reset_allocator", "replay"}
          /\ state' = state \/ (state = "Queued" /\ state' = "Running")
          /\ wpc' = "reset_allocator" => state = "Queued" /\ job.operation \in {"Whole", "Begin"}
          /\ wpc' = "replay" => state = "Queued"
          /\ state = "Queued" => state' = "Queued" \/ wpc' \in {"reset_allocator", "replay"}
      BY <2>1 DEF RunAcquire, RunWoken, slotVars
    <3> QED BY <1>1, <3>1 DEF InHand, Executing, ExecutePCs, Holding, ListIsOld
  <2>2. CASE ResetAllocator
    <3>1. /\ list' = list /\ wpc = "reset_allocator" /\ state' = state
          /\ (wpc' = "reset_list" \/ (wpc' = "store_result" /\ Failed(whr')))
      BY <2>2 DEF ResetAllocator, Finishes, slotVars
    <3> QED BY <1>1, <3>1 DEF ListIsOld, ExecutePCs, Holding
  <2>3. CASE ResetList
    <3>1. /\ wpc = "reset_list" /\ state' = state
          /\ \/ wpc' = "replay" /\ list'.commands = <<>>
             \/ wpc' = "store_result" /\ Failed(whr') /\ list' = list
      BY <2>3 DEF ResetList, Finishes, slotVars
    <3> QED BY <1>1, <3>1 DEF ListIsOld, ExecutePCs, Holding
  <2>4. CASE StoreResult
    <3>1. list' = list /\ wpc = "store_result" /\ wpc' = "publish" /\ state' = state
      BY <2>4 DEF StoreResult
    <3> QED BY <1>1, <3>1 DEF InHand, Executing, ExecutePCs, Holding, ListIsOld
  <2>5. CASE Publish
    <3>1. list' = list /\ wpc = "publish" /\ wpc' \in {"exited", "waiting"} /\ state' = "Complete"
      BY <2>5 DEF Publish
    <3>2. state = "Running"
      BY <1>3, <3>1 DEF ExecutePCs
    <3> QED BY <1>1, <3>1, <3>2 DEF InHand, Executing, ExecutePCs, Holding, ListIsOld
  <2> QED BY <2>1, <2>2, <2>3, <2>4, <2>5
<1>5. ToSet(<<>>) = {}
  BY DEF ToSet
<1> QED BY <1>1, <1>2, <1>4, <1>5 DEF ListInv

(* Replaying adds commands of the stream; the list is then to be closed or  *)
(* to go on, or the failure is known.                                       *)
LEMMA ReplayLists ==
  ASSUME IInv, IInv', ListInv, Places, WorkerStep, Replay \/ Close
  PROVE  ListInv' /\ ToSet(list'.commands) \subseteq ToSet(list.commands) \union ToSet(stream)
<1>1. /\ stream' = stream /\ session_active' = session_active /\ queue' = queue
      /\ job'.operation = job.operation /\ wpc \in {"replay", "close"} /\ state' = state
  BY WorkerStays DEF Replay, Close, slotVars
<1>2. Ran' = Ran /\ (\A c : Unsignalled(c)' <=> Unsignalled(c))
  BY <1>1 DEF Ran, Unsignalled, IsSignal
<1>3. /\ state = "Running" /\ Holding /\ job.operation \in Operations
      /\ session_active <=> job.operation # "Whole"
      /\ stream \in Seq(Commands) /\ list.commands \in Seq(Commands)
      /\ list \in [allocator : Allocators \union {NoAllocator}, commands : Seq(Commands), open : BOOLEAN]
  BY <1>1 DEF IInv, SlotOwned, ExecutePCs, Holding, JobInv, Types, Jobs
<1>4. /\ ToSet(list'.commands) \subseteq ToSet(list.commands) \union ToSet(stream)
      /\ \/ wpc' \in {"close", "execute"} /\ ToSet(stream) \subseteq ToSet(list'.commands)
         \/ wpc' = "store_result" /\ Failed(whr')
         \/ wpc' = "store_result" /\ job.operation \in {"Begin", "Append"}
  <2>1. CASE Replay
    <3>1. CASE list' = [list EXCEPT !.commands = @ \o stream]
               /\ IF job.operation \in {"Begin", "Append"}
                  THEN Finishes("S_OK") ELSE wpc' = "close" /\ UNCHANGED whr
      <4>1. list'.commands = list.commands \o stream
        BY <1>3, <3>1
      <4>2. ToSet(list'.commands) = ToSet(list.commands) \union ToSet(stream)
        BY <1>3, <4>1, ToSetConcat
      <4> QED BY <3>1, <4>2 DEF Finishes
    <3>2. CASE \E n \in 0 .. Len(stream) :
                 list' = [list EXCEPT !.commands = @ \o SubSeq(stream, 1, n)] /\ Finishes("E_FAIL")
      <4>1. PICK n \in 0 .. Len(stream) :
              list' = [list EXCEPT !.commands = @ \o SubSeq(stream, 1, n)] /\ Finishes("E_FAIL")
        BY <3>2
      <4> DEFINE p == SubSeq(stream, 1, n)
      <4>2. p \in Seq(Commands) /\ ToSet(p) \subseteq ToSet(stream)
        BY <1>3, ToSetPrefix
      <4>3. list'.commands = list.commands \o p
        BY <1>3, <4>1
      <4> HIDE DEF p
      <4>4. ToSet(list'.commands) = ToSet(list.commands) \union ToSet(p)
        BY <1>3, <4>2, <4>3, ToSetConcat
      <4> QED BY <4>1, <4>2, <4>4 DEF Finishes, Failed
    <3> QED BY <2>1, <3>1, <3>2 DEF Replay
  <2>2. CASE Close
    <3>1. wpc = "close" /\ list'.commands = list.commands
          /\ (wpc' = "execute" \/ (wpc' = "store_result" /\ Failed(whr')))
      BY <1>3, <2>2 DEF Close, Finishes
    <3> QED BY <3>1 DEF ListInv
  <2> QED BY <2>1, <2>2
<1>5. ~Broken' => InHand' /\ ~ListIsOld'
  BY <1>1, <1>3, <1>4 DEF Broken, InHand, Executing, ExecutePCs, ListIsOld, FinalOperations
<1>6. wpc' # "signal" /\ (wpc' = "store_result" => wpc' \notin {"close", "execute"})
  BY <1>4
<1>7. ListInv'
  BY <1>1, <1>2, <1>3, <1>4, <1>5, <1>6 DEF ListInv
<1> QED BY <1>4, <1>7

(* ExecuteCommandLists makes the list's commands executed ones. *)
LEMMA ExecuteLists ==
  ASSUME IInv, IInv', ListInv, PastInv, Places, WorkerStep, Execute
  PROVE  ListInv' /\ PastInv' /\ Ran' \subseteq Ran \union ToSet(list.commands)
<1> DEFINE e == ExecuteEntry(list.commands, list.allocator)
           n == Len(queue)
<1>1. /\ stream' = stream /\ list' = list /\ wpc = "execute" /\ wpc' = "signal" /\ state' = state
      /\ queue' = Append(queue, e)
  BY WorkerStays DEF Execute, slotVars
<1>2. /\ \A i \in 1 .. Len(queue) : IsSignal(i) => queue[i].value < job.fence_value
      /\ AllOf(list.commands, job.fence_value) /\ ToSet(stream) \subseteq ToSet(list.commands)
      /\ state = "Running"
  BY <1>1, ExecutingFacts DEF ExecutePCs, IInv, CommandsInv, ListInv
<1>3. e \in Entries /\ e.kind = "execute" /\ e.commands = list.commands
  BY DEF IInv, Types, ExecuteEntry, Entries
<1>4. /\ n \in Nat /\ Len(queue') = n + 1 /\ \A i \in 1 .. n : queue'[i] = queue[i]
      /\ queue'[n + 1] = e
  BY <1>1, <1>3, QueueGrows DEF IInv
<1> HIDE DEF e, n
<1>5. (\A i \in 1 .. Len(queue') : i \in 1 .. n \/ i = n + 1)
      /\ (\A i \in 1 .. n : i \in 1 .. Len(queue') /\ i \in 1 .. Len(queue))
      /\ n + 1 \in 1 .. Len(queue')
  BY <1>4 DEF n
<1>6. Ran' \subseteq Ran \union ToSet(list.commands)
  <2>1. SUFFICES ASSUME NEW c, NEW i \in 1 .. Len(queue'), c \in ToSet(queue'[i].commands)
                 PROVE  c \in Ran \union ToSet(list.commands)
    BY DEF Ran
  <2> QED BY <1>3, <1>4, <1>5, <2>1 DEF Ran
<1>7. Ran \subseteq Ran' /\ ToSet(list.commands) \subseteq Ran'
  <2>1. Ran \subseteq Ran'
    <3>1. SUFFICES ASSUME NEW c, NEW i \in 1 .. n, c \in ToSet(queue[i].commands) PROVE c \in Ran'
      BY DEF Ran, n
    <3> QED BY <1>4, <1>5, <3>1 DEF Ran
  <2>2. ToSet(list.commands) \subseteq Ran'
    BY <1>3, <1>4, <1>5 DEF Ran
  <2> QED BY <2>1, <2>2
<1>8. ListInv'
  BY <1>1, <1>2, <1>7 DEF ListInv
<1>9. PastInv'
  <2>1. SUFFICES ASSUME NEW i \in 1 .. Len(queue'), NEW c \in ToSet(queue'[i].commands),
                        NEW j \in 1 .. i - 1, IsSignal(j)'
                 PROVE  queue'[j].value < c.submission
    BY DEF PastInv
  <2>2. CASE i \in 1 .. n
    <3>1. j \in 1 .. n
      BY <1>4, <2>2
    <3> QED BY <1>4, <1>5, <2>1, <2>2, <3>1 DEF PastInv, IsSignal
  <2>3. CASE i = n + 1
    <3>1. j \in 1 .. n
      BY <1>4, <2>3
    <3>2. c.submission = job.fence_value
      BY <1>2, <1>3, <1>4, <2>3 DEF AllOf
    <3> QED BY <1>2, <1>4, <1>5, <2>1, <3>1, <3>2 DEF IsSignal
  <2> QED BY <1>5, <2>2, <2>3
<1> QED BY <1>6, <1>8, <1>9

(* The signal comes when all of the submission has been executed. *)
LEMMA SignalLists ==
  ASSUME IInv, IInv', ListInv, PastInv, Places, WorkerStep, Signal
  PROVE  ListInv' /\ PastInv' /\ Ran' = Ran
<1>1. /\ stream' = stream /\ list' = list /\ wpc = "signal" /\ wpc' = "store_result"
      /\ queue' = queue \/ queue' = Append(queue, SignalEntry(job.fence_value))
  BY WorkerStays DEF Signal, Finishes
<1>2. ToSet(stream) \union ToSet(list.commands) \subseteq Ran
  BY <1>1 DEF ListInv
<1>3. Ran' = Ran /\ PastInv'
  <2>1. CASE queue' = queue
    BY <2>1 DEF Ran, PastInv, IsSignal
  <2>2. CASE queue' = Append(queue, SignalEntry(job.fence_value))
    <3> DEFINE e == SignalEntry(job.fence_value)
               n == Len(queue)
    <3>1. e \in Entries /\ e.commands = <<>>
      <4>1. <<>> \in Seq(Commands)
        OBVIOUS
      <4> QED BY <4>1, QueueTypes DEF IInv, SignalEntry, Entries
    <3>2. /\ n \in Nat /\ Len(queue') = n + 1 /\ \A i \in 1 .. n : queue'[i] = queue[i]
          /\ queue'[n + 1] = e
      BY <2>2, <3>1, QueueGrows DEF IInv
    <3> HIDE DEF e, n
    <3>3. (\A i \in 1 .. Len(queue') : i \in 1 .. n \/ i = n + 1)
          /\ (\A i \in 1 .. n : i \in 1 .. Len(queue') /\ i \in 1 .. Len(queue))
      BY <3>2 DEF n
    <3>4. ToSet(<<>>) = {}
      BY DEF ToSet
    <3>5. \A c : c \in Ran' => c \in Ran
      <4>1. SUFFICES ASSUME NEW c, NEW i \in 1 .. Len(queue'), c \in ToSet(queue'[i].commands)
                     PROVE  c \in Ran
        BY DEF Ran
      <4> QED BY <3>1, <3>2, <3>3, <3>4, <4>1 DEF Ran
    <3>6. \A c : c \in Ran => c \in Ran'
      <4>1. SUFFICES ASSUME NEW c, NEW i \in 1 .. n, c \in ToSet(queue[i].commands) PROVE c \in Ran'
        BY DEF Ran, n
      <4> QED BY <3>2, <3>3, <4>1 DEF Ran
    <3>7. PastInv'
      <4>1. SUFFICES ASSUME NEW i \in 1 .. Len(queue'), NEW c \in ToSet(queue'[i].commands),
                            NEW j \in 1 .. i - 1, IsSignal(j)'
                     PROVE  queue'[j].value < c.submission
        BY DEF PastInv
      <4>2. i \in 1 .. n
        BY <3>1, <3>2, <3>3, <3>4
      <4>3. j \in 1 .. n
        BY <3>2, <4>2
      <4> QED BY <3>2, <3>3, <4>1, <4>2, <4>3 DEF PastInv, IsSignal
    <3> QED BY <3>5, <3>6, <3>7
  <2> QED BY <1>1, <2>1, <2>2
<1>4. ListInv'
  BY <1>1, <1>2, <1>3 DEF ListInv
<1> QED BY <1>3, <1>4

(* The worker takes commands from the stream to the list and from the list  *)
(* to the queue, and adds none.                                             *)
LEMMA WorkerFrames ==
  ASSUME IInv, IInv', FrameInv, Places, WorkerStep PROVE FrameInv'
<1>1. /\ UNCHANGED <<cp, sub, frames, env, lost, source, stream, session_active>>
      /\ job'.fence_value = job.fence_value
      /\ wpc \notin {"execute", "signal"} => queue' = queue
  BY WorkerStays
<1>2. ListInv /\ PastInv /\ SourceInv /\ AwaitInv /\ RingInv /\ MarksInv
  BY DEF FrameInv
<1>3. ListInv' /\ PastInv' /\ Recorded' \subseteq Recorded
  <2>1. CASE \/ RunAcquire \/ RunWoken \/ ResetAllocator \/ ResetList \/ StoreResult \/ Publish
    <3>1. queue' = queue
      BY <1>1, <2>1 DEF RunAcquire, RunWoken, ResetAllocator, ResetList, StoreResult, Publish
    <3>2. list'.commands = list.commands \/ list'.commands = <<>>
      BY <2>1 DEF RunAcquire, RunWoken, ResetAllocator, ResetList, StoreResult, Publish
    <3>3. ToSet(<<>>) = {}
      BY DEF ToSet
    <3>4. ListInv'
      BY <1>2, <2>1, UnderwayLists
    <3> QED BY <1>1, <1>2, <3>1, <3>2, <3>3, <3>4 DEF PastInv, IsSignal, Recorded, Ran
  <2>2. CASE Replay \/ Close
    <3>1. queue' = queue
      BY <2>2 DEF Replay, Close
    <3>2. ListInv' /\ ToSet(list'.commands) \subseteq ToSet(list.commands) \union ToSet(stream)
      BY <1>2, <2>2, ReplayLists
    <3> QED BY <1>1, <1>2, <3>1, <3>2 DEF PastInv, IsSignal, Recorded, Ran
  <2>3. CASE Execute
    <3>1. list' = list
      BY <2>3 DEF Execute
    <3>2. ListInv' /\ PastInv' /\ Ran' \subseteq Ran \union ToSet(list.commands)
      BY <1>2, <2>3, ExecuteLists
    <3> QED BY <1>1, <3>1, <3>2 DEF Recorded
  <2>4. CASE Signal
    <3>1. list' = list
      BY <2>4 DEF Signal
    <3>2. ListInv' /\ PastInv' /\ Ran' = Ran
      BY <1>2, <2>4, SignalLists
    <3> QED BY <1>1, <3>1, <3>2 DEF Recorded
  <2> QED BY <2>1, <2>2, <2>3, <2>4 DEF WorkerStep, WorkerNext, ExecuteJob
<1>4. QueueFrames' = QueueFrames
  BY <1>1 DEF QueueFrames, Profile
<1>5. SourceInv'
  BY <1>1, <1>2 DEF SourceInv, HandedOver, Returning, AllOf
<1>6. AwaitInv' /\ RingInv'
  BY <1>1, <1>2, <1>4 DEF AwaitInv, RingInv, Opening, Closed
<1>7. MarksInv'
  <2>1. \A c : Marked(c)' <=> Marked(c)
    BY <1>1, <1>4 DEF Marked, Closed
  <2> QED BY <1>2, <1>3, <2>1 DEF MarksInv
<1> QED BY <1>3, <1>5, <1>6, <1>7 DEF FrameInv

-----------------------------------------------------------------------------
(* Every step keeps it where no await of BeginSubmission fails.             *)

LEMMA FrameInit == Init => FrameInv
<1> SUFFICES ASSUME Init PROVE FrameInv
  OBVIOUS
<1>1. /\ state = "Idle" /\ session_active = FALSE /\ stream = <<>> /\ source = <<>>
      /\ wpc = "lock" /\ queue = <<>> /\ list.commands = <<>> /\ cp = IdleCp
      /\ sub.open = FALSE /\ sub.current = 1 /\ sub.completed = 0
      /\ frames.open = FALSE /\ frames.current = 1 /\ frames.completed = 0
      /\ frames.closed = [i \in 0 .. QueueFrames - 1 |-> 0]
  BY DEF Init, WorkerInit
<1>2. env \in EnvStates
  BY InitEstablishes DEF IInv, Types
<1>3. QueueFrames \in Nat \ {0}
  BY <1>2, RingSize
<1>4. cp.pc = "idle" /\ cp.end_ret = "idle" /\ Len(queue) = 0
  BY <1>1 DEF IdleCp
<1>5. ToSet(<<>>) = {} /\ Ran = {}
  BY <1>4 DEF ToSet, Ran
<1>6. ListInv /\ PastInv /\ Recorded = {}
  BY <1>1, <1>4, <1>5 DEF ListInv, PastInv, Recorded
<1>7. SourceInv /\ AwaitInv
  BY <1>1, <1>4 DEF SourceInv, AwaitInv, Returning, FencePcs, DirectPcs
<1>8. RingInv
  BY <1>1, <1>3, <1>4 DEF RingInv
<1> QED BY <1>6, <1>7, <1>8 DEF FrameInv, MarksInv

LEMMA FrameNext ==
  ASSUME IInv, IInv', FrameInv, Places, [Next]_vars, ~AwaitMayFail PROVE FrameInv'
<1>1. CASE CpContinue
  <2> SUFFICES ASSUME ~FrameInv' PROVE FALSE
    OBVIOUS
  <2>1. ~(MemexportReadback \/ EndFlush \/ EndSwapFlush \/ AwaitFlush \/ Terminate \/ DestroyWait
          \/ DirectFlush \/ FenceDirectFlush)
    BY FlushSteps
  <2>2. ~(BeginReadback \/ ReplayNativeDrawBoundary \/ ChunkResult \/ AfterProof \/ AfterNoProof
          \/ DestroyJoin \/ CallDirect \/ FenceNoDirect \/ FenceDirectWait \/ CheckChunkSlot)
    BY MovingSteps
  <2>3. ~(FenceEnter \/ FenceCheck \/ FenceFlush \/ FenceWait \/ Record \/ RecordReadback
          \/ BeginOpen \/ Notify \/ DestroyStop)
    BY FenceSteps, RecordFrames, BeginOpenFrames, NotifyFrames
  <2>4. ~(EndBooks \/ EndClose \/ AppendChunk \/ BeginChunks \/ EndFinishChunks \/ EndSubmit
          \/ UpdateTileMappings \/ FenceDirectSignal \/ EndReplay)
    BY EndBooksFrames, EndCloseFrames, ChunkFrames, EndFrames, DirectFrames, EndReplayFrames
  <2> QED BY <1>1, <2>1, <2>2, <2>3, <2>4 DEF CpContinue
<1>2. CASE CpCall \/ GpuStep \/ DeviceRemoved
  BY <1>2, CallSteps
<1>3. CASE FenceWaitFails
  BY <1>3 DEF FenceWaitFails
<1>4. CASE WorkerStep
  BY <1>4, WorkerFrames
<1>5. CASE UNCHANGED vars
  <2>1. UNCHANGED <<workerVars, sub, frames, cp, env>> /\ (lost => lost')
    BY <1>5 DEF vars, cpuVars
  <2> QED BY <2>1, StayMoves, StillMoves
<1> QED BY <1>1, <1>2, <1>3, <1>4, <1>5 DEF Next

(* What has not been signalled by the time a submission is counted complete *)
(* is of a later one.                                                       *)
LEMMA FramesExecuted == IInv /\ FrameInv => CompletedFramesAreExecuted
<1> SUFFICES ASSUME IInv, FrameInv PROVE CompletedFramesAreExecuted
  OBVIOUS
<1> DEFINE held == IF state = "Queued" \/ wpc \in ExecutePCs \/ session_active
                   THEN ToSet(stream) \union ToSet(list.commands) ELSE {}
           recording == IF sub.open /\ cp.pc \notin {"notify", "end_swap", "end_books"}
                        THEN ToSet(source) ELSE {}
           executed == UNION {ToSet(e.commands) : e \in Consumed}
           queued == UNION {ToSet(e.commands) : e \in GpuPending}
<1>1. /\ Types /\ ListInv /\ PastInv /\ SourceInv /\ RingInv /\ MarksInv
      /\ Len(queue) \in Nat /\ env.gpu \in Nat /\ env.gpu <= Len(queue)
  BY QueueTypes DEF FrameInv, IInv
<1>2. ASSUME NEW c \in Recorded, c.submission > sub.completed PROVE c.frame > frames.completed
  BY <1>1, <1>2 DEF MarksInv, Marked
<1>3. ASSUME NEW c \in recording PROVE c.frame > frames.completed
  <2>1. /\ sub.open /\ cp.pc \notin {"notify", "end_swap", "end_books"} /\ c \in ToSet(source)
    BY <1>3
  <2>2. c.submission = sub.current
    BY <1>1, <2>1 DEF SourceInv, HandedOver, Returning, AllOf
  <2>3. c \in Recorded /\ sub.current \in Nat /\ sub.completed \in Nat
    BY <1>1, <2>1 DEF Recorded, Types, SubStates
  <2> QED BY <1>1, <1>2, <2>2, <2>3 DEF RingInv
<1>4. ASSUME NEW c \in Recorded, NEW i \in Nat, i > env.gpu,
             \A j \in 1 .. i - 1 : j \in 1 .. Len(queue) /\ IsSignal(j) => queue[j].value < c.submission
      PROVE  c.frame > frames.completed
  <2>1. 0 < c.submission /\ c.submission \in Nat /\ sub.completed \in Nat
    BY <1>1, RecordedCommands DEF MarksInv, Marked, Commands, Types, SubStates
  <2>2. CASE sub.completed > 0
    <3>1. PICK k \in 1 .. env.gpu : IsSignal(k) /\ queue[k].value = sub.completed
      BY <2>2 DEF IInv, FenceInv
    <3>2. k \in 1 .. i - 1 /\ k \in 1 .. Len(queue)
      BY <1>1, <1>4, <3>1
    <3> QED BY <1>2, <1>4, <2>1, <3>1, <3>2
  <2> QED BY <1>2, <2>1, <2>2
<1>5. ASSUME NEW i \in env.gpu + 1 .. Len(queue), NEW c \in ToSet(queue[i].commands)
      PROVE  c.frame > frames.completed
  <2>1. i \in 1 .. Len(queue) /\ i \in Nat /\ i > env.gpu
    BY <1>1
  <2>2. c \in Recorded
    BY <2>1 DEF Recorded, Ran
  <2>3. \A j \in 1 .. i - 1 : IsSignal(j) => queue[j].value < c.submission
    BY <1>1, <2>1 DEF PastInv
  <2> QED BY <1>4, <2>1, <2>2, <2>3
<1>6. ASSUME NEW c \in queued PROVE c.frame > frames.completed
  <2>1. PICK i \in env.gpu + 1 .. Len(queue) : c \in ToSet(queue[i].commands)
    BY DEF GpuPending
  <2> QED BY <1>5, <2>1
<1>7. ASSUME NEW c \in held \ executed PROVE c.frame > frames.completed
  <2>1. Holding /\ c \in ToSet(stream) \union ToSet(list.commands)
    BY DEF Holding
  <2>2. c \in Recorded
    BY <2>1 DEF Recorded
  <2>3. CASE c \in Ran
    <3>1. PICK i \in 1 .. Len(queue) : c \in ToSet(queue[i].commands)
      BY <2>3 DEF Ran
    <3>2. CASE i <= env.gpu
      <4>1. queue[i] \in Consumed
        BY <1>1, <3>1, <3>2 DEF Consumed
      <4> QED BY <1>7, <3>1, <4>1
    <3>3. CASE i > env.gpu
      <4>1. i \in env.gpu + 1 .. Len(queue)
        BY <1>1, <3>1, <3>3
      <4> QED BY <1>5, <3>1, <4>1
    <3> QED BY <1>1, <3>1, <3>2, <3>3
  <2>4. CASE Unsignalled(c)
    <3>1. env.gpu + 1 \in Nat /\ env.gpu + 1 > env.gpu
      BY <1>1
    <3>2. \A j \in 1 .. (env.gpu + 1) - 1 :
            j \in 1 .. Len(queue) /\ IsSignal(j) => queue[j].value < c.submission
      BY <2>4 DEF Unsignalled
    <3> QED BY <1>4, <2>2, <3>1, <3>2
  <2> QED BY <1>1, <2>1, <2>3, <2>4 DEF ListInv
<1>8. \A c \in (held \ executed) \union recording \union queued : c.frame > frames.completed
  BY <1>3, <1>6, <1>7
<1> QED BY <1>8 DEF CompletedFramesAreExecuted

LEMMA ModeStays == ASSUME IInv, [Next]_vars PROVE AwaitMayFail' = AwaitMayFail
BY ProfileStays DEF AwaitMayFail, Profile, IInv

(* Where the fence events of BeginSubmission can be set, what a frame counted  *)
(* complete by CheckSubmissionFence (frame_completed_) recorded has been       *)
(* executed: the worker, the queue and the recorder hold nothing of it, so its *)
(* transient uploads (constant_buffer_pool_->Reclaim) are free.                *)
THEOREM RingFramesAreExecutedAlways == Spec => []RingFramesAreExecuted
<1> DEFINE Frames == ~AwaitMayFail => FrameInv
<1>1. Init => Frames
  BY FrameInit
<1>2. IInv /\ IInv' /\ Places /\ Frames /\ [Next]_vars => Frames'
  BY FrameNext, ModeStays
<1>3. IInv /\ Frames => RingFramesAreExecuted
  BY FramesExecuted DEF RingFramesAreExecuted
<1> HIDE DEF Frames
<1> QED BY <1>1, <1>2, <1>3, Invariance, PlacesAlways, PTL DEF Spec

===============================================================================
