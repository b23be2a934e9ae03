---------------------------- MODULE GpuBudgetProbe ----------------------------
(***************************************************************************)
(* The optional GPU budget capture (native_gpu_budget_probe.cpp) and the   *)
(* calls the command processor makes of it: a window of frames is chosen   *)
(* at a frame boundary, each submission of the window is bracketed by two  *)
(* timestamps, the leaf scopes of every Period-th frame are grouped, and   *)
(* the capture is published once the queue has passed its last submission. *)
(* The file says of itself whether it is valid and whether its groups are  *)
(* complete.  Kept: frames, swaps that fail at each place they can, open   *)
(* submissions that survive a failed swap, capacity, lost devices, the     *)
(* teardown.  Left out: timestamps' values, the formats' report, wording.  *)
(***************************************************************************)
EXTENDS Integers, Sequences, FiniteSets

CONSTANTS
  Captures,            \* frame_count_ and group_period_ (0: no groups) of a behaviour
  SubmissionCapacity,  \* kSubmissionCapacity
  GroupsPerFrame,      \* kGroupsPerFrame
  MaxFrames,           \* bound: swaps
  MaxSubmissions,      \* bound: submissions
  MaxScopes,           \* bound: leaf scopes
  MaxOperations,       \* bound: operations outside them
  MaxFailures          \* bound: what fails in a behaviour

GpuBudgetProbeAssumption ==
  /\ Captures \subseteq (Nat \ {0}) \X Nat
  /\ {SubmissionCapacity, GroupsPerFrame, MaxFrames, MaxSubmissions} \subseteq Nat \ {0}
  /\ {MaxScopes, MaxOperations, MaxFailures} \subseteq Nat

VARIABLES
  probe,      \* the probe's members
  commands,   \* the command processor: frame, submission, counters
  passed,     \* the submission fence's value when it was last read
  executed,   \* history: what was really submitted since the window, in order
  published   \* the files: none, or what they say of themselves

budgetVars == <<probe, commands, passed, executed, published>>

NoSlot == 0                  \* kNoSlot; slots count from one
Never == -1                  \* UINT64_MAX of observed_frame_
Removed == MaxSubmissions + 9  \* GetCompletedValue's UINT64_MAX

Idle == [number |-> 0, frame |-> 0, operations |-> 0, scopes |-> 0]

Init ==
  /\ \E capture \in Captures :
       probe = [count |-> capture[1], period |-> capture[2], observed |-> Never, first |-> 0,
                last |-> 0, closes |-> 0, selected |-> FALSE, grouped |-> FALSE,
                groups_this_frame |-> 0, truncated |-> FALSE, previous |-> 0,
                submissions |-> <<>>, groups |-> <<>>, current |-> NoSlot,
                group |-> NoSlot, scope |-> FALSE, submission_overflow |-> FALSE,
                group_overflow |-> FALSE, scope_error |-> FALSE,
                alignment_error |-> FALSE, finished |-> FALSE, proven |-> FALSE,
                queries |-> "held"]
  /\ commands = [frame |-> 1, next |-> 1, open |-> FALSE, work |-> Idle,
                 returned |-> FALSE, operations |-> 0, dumps |-> 0, frame_dumps |-> 0, lost |-> FALSE, failures |-> 0]
  /\ passed = 0
  /\ executed = <<>>
  /\ published = [valid |-> FALSE, complete |-> FALSE]

-----------------------------------------------------------------------------
(* The probe. *)

CaptureEnded(p) == p.first # 0 /\ p.observed >= p.first + p.count

(* Mutant of Misaligned: the frame's close is taken for granted.           *)
MisalignedIfOpen(p, frame) ==
  frame # p.observed + 1 \/ p.current # NoSlot

(* The boundary from one frame to the next, entering the window or inside  *)
(* it, is not that of one closed frame and its successor.                  *)
Misaligned(p, frame) ==
  frame # p.observed + 1 \/ p.closes # 1 \/ p.current # NoSlot

(* Once per frame; the window starts at the first boundary that finds the  *)
(* delay elapsed (due).                                                    *)
ObserveFrame(p, frame, due) ==
  IF frame = p.observed THEN p
  ELSE LET first == IF p.first = 0 /\ due THEN frame ELSE p.first
           checked == first # 0 /\ p.observed # Never /\ p.observed < first + p.count
           selected == ~p.finished /\ first # 0 /\ frame \in first .. first + p.count - 1
       IN [p EXCEPT !.first = first, !.observed = frame, !.closes = 0,
             !.alignment_error = @ \/ (checked /\ Misaligned(p, frame)),
             !.selected = selected,
             !.grouped = selected /\ p.period # 0 /\ (frame - first) % p.period = 0,
             !.groups_this_frame = 0, !.truncated = FALSE]

BeginProbe(p, frame, number) ==
  LET idle == [p EXCEPT !.current = NoSlot, !.group = NoSlot]
  IN IF ~p.selected THEN idle
     ELSE IF Len(p.submissions) = SubmissionCapacity
     THEN [idle EXCEPT !.submission_overflow = TRUE]
     ELSE [idle EXCEPT
             !.submissions = Append(@, [frame |-> frame, number |-> number, closes |-> FALSE,
                                        ended |-> FALSE, operations |-> 0, scopes |-> 0, dumps |-> 0]),
             !.current = Len(p.submissions) + 1, !.last = number]

EndGroup(p) ==
  IF p.group = NoSlot THEN p
  ELSE [p EXCEPT !.groups[p.group].ended = TRUE, !.group = NoSlot]

(* A closed frame's dumps are counted from the close before it, in or out  *)
(* of the window.                                                          *)
EndProbe(p, closes, dumps) ==
  LET counted == IF closes
        THEN [p EXCEPT !.closes = @ + 1, !.previous = dumps,
                       !.alignment_error = @ \/ (p.selected /\ p.closes # 0)]
        ELSE p
      ended == EndGroup([counted EXCEPT !.scope_error = @ \/ p.scope])
  IN IF p.current = NoSlot THEN counted
     ELSE [ended EXCEPT !.scope = FALSE, !.current = NoSlot,
             !.submissions[p.current] =
               [@ EXCEPT !.closes = closes, !.ended = TRUE,
                         !.dumps = IF closes THEN dumps - p.previous ELSE 0]]

(* The scope's label is one of the leaves'.                                *)
EnterScope(p) ==
  LET s == p.submissions[p.current]
      entered == [p EXCEPT !.scope = TRUE, !.submissions[p.current].scopes = @ + 1]
  IN IF p.scope THEN [p EXCEPT !.scope_error = TRUE]
     ELSE IF ~p.grouped \/ p.truncated THEN entered
     ELSE IF p.groups_this_frame = GroupsPerFrame
     THEN [entered EXCEPT !.group_overflow = TRUE, !.truncated = TRUE]
     ELSE [entered EXCEPT
             !.groups = Append(@, [frame |-> s.frame, number |-> s.number,
                                   operations |-> 0, ended |-> FALSE]),
             !.group = Len(p.groups) + 1, !.groups_this_frame = @ + 1]

LeaveScope(p) ==
  [EndGroup([p EXCEPT !.scope_error = @ \/ ~p.scope \/ p.current = NoSlot])
     EXCEPT !.scope = FALSE]

CountOperation(p) ==
  IF p.current = NoSlot THEN p
  ELSE LET counted == [p EXCEPT !.submissions[p.current].operations = @ + 1]
       IN IF p.group = NoSlot THEN counted
          ELSE [counted EXCEPT !.groups[p.group].operations = @ + 1]

(* What publication decides.  completed: what the fence reads; outcome:    *)
(* whether the device is removed by then, the readback can be read and the *)
(* files can be written.                                                   *)
Outcomes == {"fine", "removed", "unreadable", "unwritten"}
CompletionProven(p, idle, completed, outcome) ==
  idle /\ completed # Removed /\ completed >= p.last /\ outcome # "removed"
AllEnded(p) ==
  \A list \in {p.submissions, p.groups} : \A i \in DOMAIN list : list[i].ended
Valid(p, idle, completed, outcome) ==
  /\ CompletionProven(p, idle, completed, outcome) /\ AllEnded(p) /\ CaptureEnded(p)
  /\ ~p.submission_overflow /\ ~p.alignment_error /\ p.submissions # <<>>
  /\ outcome # "unreadable"

Report(p, idle, completed, outcome) ==
  IF outcome = "unwritten" THEN published
  ELSE [valid |-> Valid(p, idle, completed, outcome),
        complete |-> /\ Valid(p, idle, completed, outcome) /\ p.period # 0
                     /\ ~p.group_overflow /\ ~p.scope_error]

(* Queries the deferred list or the queue may still use are not released.  *)
Finished(p, idle, completed, outcome) ==
  LET proven == CompletionProven(p, idle, completed, outcome) /\ AllEnded(p)
  IN [p EXCEPT !.finished = TRUE, !.proven = proven,
               !.queries = IF proven THEN @ ELSE "retained"]

Destroyed(p) ==
  [p EXCEPT !.queries =
     IF @ = "retained" \/ (~p.proven /\ p.submissions # <<>>) THEN "retained" ELSE "released"]

-----------------------------------------------------------------------------
(* The command processor. *)

(* GetCompletedValue: any submission made by now, none before those passed *)
(* at the last reading, or the mark of a removed device (a removal may also *)
(* fall after the reading).                                                *)
Read(completed, last) ==
  /\ completed \in passed .. last \cup {Removed}
  /\ passed' = IF completed = Removed THEN passed ELSE completed

(* BeginSubmission, past its early returns: a submission is opened unless  *)
(* one is.                                                                 *)
BeginSubmission(p) ==
  IF commands.open THEN p ELSE BeginProbe(p, commands.frame, commands.next)
Work ==
  IF commands.open THEN commands.work
  ELSE [Idle EXCEPT !.number = commands.next, !.frame = commands.frame]

(* The end of EndSubmission, with its attempt at publication.              *)
Publish(p) ==
  IF ~CaptureEnded(p) THEN probe' = p /\ UNCHANGED <<passed, published>>
  ELSE \E completed \in 0 .. Removed :
         /\ Read(completed, commands.next)
         /\ IF completed < p.last THEN probe' = p /\ UNCHANGED published
            ELSE \E outcome \in Outcomes :
                   /\ probe' = Finished(p, completed # Removed, completed, outcome)
                   /\ published' = Report(p, completed # Removed, completed, outcome)

(* EndSubmission of an open submission, after its early returns.           *)
Submit(p, work, closes) ==
  /\ Publish(EndProbe(p, closes, commands.dumps))
  /\ executed' = IF p.first = 0 THEN executed ELSE Append(executed,
       [number |-> work.number, frame |-> work.frame, operations |-> work.operations,
        scopes |-> work.scopes, closes |-> closes,
        dumps |-> IF closes THEN commands.frame_dumps ELSE 0])

(* Bound: a finished probe selects no frame (ObserveFrame), and only the   *)
(* teardown is followed from there.                                        *)
Running == ~commands.returned /\ ~probe.finished
CanFail == commands.failures < MaxFailures

(* A guest command: the boundary is observed even if the submission cannot *)
(* be begun.                                                               *)
Begin ==
  /\ Running
  /\ \E due, begun \in BOOLEAN :
       /\ begun => ~commands.lost /\ ~commands.open /\ commands.next <= MaxSubmissions
       /\ LET p == ObserveFrame(probe, commands.frame, due)
          IN probe' = IF begun THEN BeginSubmission(p) ELSE p
       /\ commands' = IF begun THEN [commands EXCEPT !.open = TRUE, !.work = Work] ELSE commands
  /\ UNCHANGED <<passed, executed, published>>

(* A draw, dispatch, copy or clear recorded in the deferred list, outside   *)
(* the leaves; the commands' own counts are for the bounds.                *)
Operation ==
  /\ Running /\ commands.open /\ commands.operations < MaxOperations
  /\ commands' = [commands EXCEPT !.operations = @ + 1, !.work.operations = @ + 1]
  /\ probe' = CountOperation(probe)
  /\ UNCHANGED <<passed, executed, published>>

(* A leaf of the render target cache with its operation; a dump is counted *)
(* as it is made.  Leaves neither nest nor end the submission.             *)
Leaf ==
  /\ Running /\ commands.open /\ commands.dumps < MaxScopes
  /\ commands' = [commands EXCEPT !.dumps = @ + 1, !.frame_dumps = @ + 1,
                    !.work.operations = @ + 1, !.work.scopes = @ + 1]
  /\ probe' = IF probe.current = NoSlot THEN CountOperation(probe)
              ELSE LeaveScope(CountOperation(EnterScope(probe)))
  /\ UNCHANGED <<passed, executed, published>>

(* A submission that ends inside a frame, as at the end of the primary     *)
(* buffer.                                                                 *)
EndSubmission ==
  /\ Running /\ commands.open /\ ~commands.lost
  /\ Submit(probe, commands.work, FALSE)
  /\ commands' = [commands EXCEPT !.open = FALSE, !.work = Idle, !.next = @ + 1]

(* The submission is lost between the probe's end and the queue: the       *)
(* replay refuses the list, which counts as a lost device.                 *)
LoseSubmission ==
  /\ Running /\ commands.open /\ ~commands.lost /\ CanFail
  /\ probe' = EndProbe(probe, FALSE, commands.dumps)
  /\ commands' = [commands EXCEPT !.lost = TRUE, !.failures = @ + 1]
  /\ UNCHANGED <<passed, executed, published>>

NextFrame(c) == [c EXCEPT !.frame = @ + 1]

(* IssueSwap: the frame's last submission is begun if need be and closes   *)
(* the frame; the swap counter advances.                                   *)
Swap ==
  /\ Running /\ ~commands.lost /\ commands.frame <= MaxFrames
  /\ commands.next <= MaxSubmissions
  /\ \E due \in BOOLEAN :
       Submit(BeginSubmission(ObserveFrame(probe, commands.frame, due)), Work, TRUE)
  /\ commands' = NextFrame([commands EXCEPT !.open = FALSE, !.work = Idle, !.next = @ + 1,
                                            !.frame_dumps = 0])

(* A swap that presents nothing closes nothing, and the counter advances:  *)
(* there is no presenter, the submission cannot be begun, its texture is   *)
(* refused or no allocator can be had to end it.                           *)
SwapFails ==
  /\ Running /\ (CanFail \/ commands.lost) /\ commands.frame <= MaxFrames
  /\ \E step \in {"no_presenter", "not_begun", "not_ended"}, due \in BOOLEAN :
       /\ step = "not_ended" => ~commands.lost /\ commands.next <= MaxSubmissions
       /\ step = "no_presenter" => CanFail
       /\ LET p == ObserveFrame(probe, commands.frame, due)
          IN /\ probe' = CASE step = "no_presenter" -> probe
                           [] step = "not_begun" -> p
                           [] step = "not_ended" -> BeginSubmission(p)
             /\ commands' = NextFrame([commands EXCEPT
                  !.open = @ \/ step = "not_ended",
                  !.work = IF step = "not_ended" THEN Work ELSE @,
                  !.failures = IF commands.lost THEN @ ELSE @ + 1])
  /\ UNCHANGED <<passed, executed, published>>

(* ShutdownContext: idle is the outcome of the await of the whole queue,   *)
(* which first ends an open submission; what the fence reads matters only  *)
(* if it is.                                                               *)
Shutdown ==
  /\ ~commands.returned
  /\ commands' = [commands EXCEPT !.returned = TRUE]
  /\ \E idle \in BOOLEAN, completed \in {passed, commands.next - 1, Removed},
        outcome \in Outcomes :
       /\ Read(completed, commands.next - 1)
       /\ IF idle THEN completed >= commands.next - 1 /\ ~commands.lost /\ ~commands.open
          ELSE completed = passed
       /\ IF probe.finished THEN probe' = Destroyed(probe) /\ UNCHANGED published
          ELSE /\ probe' = Destroyed(Finished(probe, idle, completed, outcome))
               /\ published' = Report(probe, idle, completed, outcome)
  /\ UNCHANGED executed

Next ==
  \/ Begin \/ Operation \/ Leaf
  \/ EndSubmission \/ LoseSubmission \/ Swap \/ SwapFails
  \/ Shutdown

-----------------------------------------------------------------------------
(* The properties. *)

Window == probe.first .. probe.first + probe.count - 1
Measured == {i \in DOMAIN executed : executed[i].frame \in Window}
InOrder(list) == \A i, j \in DOMAIN list : i < j => list[i].number < list[j].number
WorkOf(s) == <<s.number, s.frame, s.closes, s.operations, s.scopes, s.dumps>>

(* The probe keeps its shape.                                              *)
TypeOK ==
  /\ probe.queries \in {"held", "retained", "released"}
  /\ probe.current \in 0 .. Len(probe.submissions)
  /\ probe.group \in 0 .. Len(probe.groups)
  /\ Len(probe.submissions) <= SubmissionCapacity
  /\ passed \in 0 .. commands.next - 1
  /\ {published.valid, published.complete} \subseteq BOOLEAN

(* A capture that calls itself valid holds every submission of its frames, *)
(* each with all its operations and leaf scopes, and nothing else; each of *)
(* its frames is closed once, by its last submission, which carries the    *)
(* frame's own dumps; and the queue has passed all of them.  Swaps may     *)
(* have failed and devices may have been lost before (Finish's `valid`).   *)
ValidIsWhole ==
  published.valid =>
    /\ InOrder(probe.submissions) /\ InOrder(executed)
    /\ {WorkOf(probe.submissions[i]) : i \in DOMAIN probe.submissions}
         = {WorkOf(executed[i]) : i \in Measured}
    /\ \A f \in Window :
         \E i \in Measured :
           /\ executed[i].frame = f
           /\ \A j \in Measured :
                executed[j].frame = f => j <= i /\ (executed[j].closes <=> j = i)
    /\ \A i \in Measured : executed[i].number <= passed

(* Groups that call themselves complete are the leaf scopes of every       *)
(* Period-th frame of the window, in order, each with its own operations   *)
(* (Finish's complete_attribution).                                        *)
Sampled == {i \in Measured : (executed[i].frame - probe.first) % probe.period = 0}
GroupsOf(number) == {g \in DOMAIN probe.groups : probe.groups[g].number = number}
CompleteIsAttributed ==
  published.complete =>
    /\ \A g, h \in DOMAIN probe.groups :
         g < h => probe.groups[g].number <= probe.groups[h].number
    /\ \A g \in DOMAIN probe.groups :
         /\ probe.groups[g].operations = 1
         /\ \E i \in Sampled : /\ executed[i].number = probe.groups[g].number
                              /\ executed[i].frame = probe.groups[g].frame
    /\ \A i \in Sampled : Cardinality(GroupsOf(executed[i].number)) = executed[i].scopes

(* Query objects are released only when nothing that names them can still  *)
(* run: each record is of a submission the queue has passed                *)
(* (RetainInFlight's comment).                                             *)
ReleasedIsIdle ==
  probe.queries = "released" =>
    \A i \in DOMAIN probe.submissions :
      /\ probe.submissions[i].ended
      /\ probe.submissions[i].number <= passed

=============================================================================
