---------------------------- MODULE PresentAspect ----------------------------
(***************************************************************************)
(* The display aspect a guest frame is rendered for and presented with     *)
(* (src/src/ultrawide/nb_ultrawide.cpp and its hooks).  The settings are   *)
(* latched once a guest frame, behind its Swap; the camera and the HUD     *)
(* read the latched state all through the next frame.  Swap queues the     *)
(* aspect of the image it presents, tagged with the frontbuffer of the     *)
(* packet it emits, and the command processor takes one entry a packet,    *)
(* some frames later.  Packets may get lost on the way; while the title    *)
(* has released the device, the D3D worker presents the last image again.  *)
(***************************************************************************)
EXTENDS Integers, Sequences

CONSTANTS
  Aspects,      (* the usable values of nb_ultrawide                        *)
  Base,         (* 16:9, the aspect while ultrawide is off                  *)
  Capacity,     (* of g_present_queue                                       *)
  MaxInFlight,  (* bound: packets between Swap and the command processor    *)
  MaxChanges    (* bound: changes of the settings                           *)

Frontbuffers == {0, 1}

(* Entries are never dropped for want of room here.  Two lost packets in a  *)
(* row, or an overflow, would leave the queue two entries out of step until *)
(* it is empty: the tags repeat with period two.                            *)
PresentAspectAssumption ==
  /\ Base \notin Aspects
  /\ {Capacity, MaxInFlight, MaxChanges} \subseteq Nat /\ MaxInFlight + 1 < Capacity

VARIABLES
  settings,  (* nb_ultrawide, nb_ultrawide_hud, g_suspended, the presenter  *)
             (* and the settings' changes so far                            *)
  latched,   (* g_present (with g_k and g_kh) and g_hud_center              *)
  title,     (* the title's thread: its place, its next frontbuffer, the    *)
             (* aspects its frame was drawn for, and whether it has released*)
             (* the device                                                  *)
  hud,       (* t_hud_pass, t_hud_squeezed, t_hud_kh and t_squeezed_view,   *)
             (* and the device's XUI view                                   *)
  worker,    (* the D3D worker's place, and the image it holds              *)
  queue,     (* g_present_queue and g_present_last_pushed                   *)
  packets,   (* the swap packets on their way, with the image's aspects     *)
  presented, (* the aspect taken and the aspects the image was drawn for    *)
  faults     (* whether packets may get lost, or Swaps emit none            *)

vars == <<settings, latched, title, hud, worker, queue, packets, presented,
          faults>>

-----------------------------------------------------------------------------
(* The settings and the latched state. *)

Usable(s) == s.aspect \in Aspects

Compute(s) ==
  [aspect |-> IF Usable(s) /\ s.available /\ ~s.suspended THEN s.aspect ELSE Base,
   center |-> s.center]

Init ==
  /\ settings \in [aspect : Aspects \union {Base}, center : BOOLEAN,
                   suspended : {FALSE}, available : BOOLEAN, changes : {0}]
  /\ latched = Compute(settings)
  /\ title = [pc |-> "render", front |-> 0, drawn |-> {}, released |-> FALSE]
  /\ hud = [pass |-> FALSE, squeezed |-> FALSE, kh |-> Base, saved |-> Base,
            in_pass |-> FALSE, view |-> Base]
  /\ worker = [pc |-> "idle", holds |-> FALSE, front |-> 0, drawn |-> {}]
  /\ queue = [entries |-> <<>>, last_pushed |-> Base, last |-> Base, taken |-> FALSE]
  /\ packets = <<>>
  /\ presented = [aspect |-> Base, drawn |-> {}]
  /\ faults \in {"losses", "silence"}

(* The settings change on the UI thread: the aspect, the HUD's mode, and    *)
(* the F9 key, which does nothing without a usable aspect but clear an old  *)
(* suspension.                                                              *)
ToggledByF9(s) ==
  IF ~s.available \/ ~Usable(s) THEN [s EXCEPT !.suspended = FALSE]
  ELSE [s EXCEPT !.suspended = ~@]

ChangeSettings ==
  /\ settings.changes < MaxChanges
  /\ \E s \in {ToggledByF9(settings), [settings EXCEPT !.center = ~@]}
              \union {[settings EXCEPT !.aspect = a] : a \in Aspects \union {Base}} :
       settings' = [s EXCEPT !.changes = @ + 1]
  /\ UNCHANGED <<latched, title, hud, worker, queue, packets, presented, faults>>

-----------------------------------------------------------------------------
(* A frame of the title's thread. *)

Rendering == title.pc = "render" /\ ~title.released

(* The camera's aspect getters are scaled by the latched k. *)
RenderCamera ==
  /\ Rendering
  /\ title' = [title EXCEPT !.drawn = @ \union {latched.aspect}]
  /\ UNCHANGED <<settings, latched, hud, worker, queue, packets, presented, faults>>

(* The XUI pass sets its view, squeezed when the HUD is to be centred.      *)
BeginHudPass ==
  /\ Rendering /\ ~hud.in_pass
  /\ LET squeezes == latched.center /\ latched.aspect # Base
     IN hud' = [pass |-> squeezes, squeezed |-> squeezes,
                kh |-> IF squeezes THEN latched.aspect ELSE hud.kh,
                saved |-> IF squeezes THEN latched.aspect ELSE hud.saved,
                in_pass |-> TRUE,
                view |-> IF squeezes THEN latched.aspect ELSE Base]
  /\ title' = [title EXCEPT !.drawn = @ \union {latched.aspect}]
  /\ UNCHANGED <<settings, latched, worker, queue, packets, presented, faults>>

(* Mutant of FollowsView: the whole pass counts as squeezed. *)
FollowsPass(h, view) == h.pass

(* Whether the view set now is the squeezed one, in a pass that squeezed.   *)
FollowsView(h, view) == h.pass /\ view = h.saved

(* RenderTopmostObjects sets an element's view and the pass's view again.   *)
SetOtherView ==
  /\ Rendering /\ hud.in_pass
  /\ \E view \in {Base} \union (IF hud.pass THEN {hud.saved} ELSE {}) :
       hud' = [hud EXCEPT !.view = view, !.squeezed = FollowsView(hud, view)]
  /\ UNCHANGED <<settings, latched, title, worker, queue, packets, presented, faults>>

(* The pass restores the view it found, which ends it. *)
EndHudPass ==
  /\ Rendering /\ hud.in_pass
  /\ hud' = [hud EXCEPT !.pass = FALSE, !.view = Base, !.in_pass = FALSE,
               !.squeezed = FollowsView([hud EXCEPT !.pass = FALSE], Base)]
  /\ UNCHANGED <<settings, latched, title, worker, queue, packets, presented, faults>>

ReleaseDevice ==
  /\ title.pc = "render" /\ ~hud.in_pass /\ worker.pc = "idle"
  /\ title' = [title EXCEPT !.released = ~@]
  /\ UNCHANGED <<settings, latched, hud, worker, queue, packets, presented, faults>>

-----------------------------------------------------------------------------
(* Swap: the entry is queued, the packet emitted, the settings latched. *)

(* PushPresent drops the oldest entry of a full queue. *)
PushPresent(front, aspect) ==
  LET kept == IF Len(queue.entries) = Capacity THEN Tail(queue.entries)
              ELSE queue.entries
  IN queue' = [queue EXCEPT !.entries = Append(kept, [front |-> front, aspect |-> aspect]),
                            !.last_pushed = aspect]

(* A Swap that will not emit a packet queues nothing. *)
SwapEnter ==
  /\ Rendering /\ ~hud.in_pass
  /\ Len(packets) < MaxInFlight
  /\ \/ /\ PushPresent(title.front, latched.aspect)
        /\ title' = [title EXCEPT !.pc = "emit"]
     \/ /\ faults = "silence"
        /\ title' = [title EXCEPT !.pc = "latch"]
        /\ UNCHANGED queue
  /\ UNCHANGED <<settings, latched, hud, worker, packets, presented, faults>>

(* The original Swap: the device keeps a copy of the frontbuffer's header.  *)
EmitPacket ==
  /\ title.pc = "emit"
  /\ packets' = Append(packets, [front |-> title.front, drawn |-> title.drawn])
  /\ worker' = [worker EXCEPT !.holds = TRUE, !.front = title.front, !.drawn = title.drawn]
  /\ title' = [title EXCEPT !.pc = "latch"]
  /\ UNCHANGED <<settings, latched, hud, queue, presented, faults>>

(* OnGuestSwap, behind the original: the next frame's state. *)
Latch ==
  /\ title.pc = "latch"
  /\ latched' = Compute(settings)
  /\ title' = [pc |-> "render", front |-> 1 - title.front, drawn |-> {}, released |-> FALSE]
  /\ UNCHANGED <<settings, hud, worker, queue, packets, presented, faults>>

(* OnGuestRepresent repeats the aspect of the image held, whatever has been *)
(* latched since, and latches nothing.                                      *)
RepresentedAspect == queue.last_pushed

Represent ==
  /\ title.released /\ worker.pc = "idle" /\ worker.holds
  /\ Len(packets) < MaxInFlight
  /\ PushPresent(worker.front, RepresentedAspect)
  /\ worker' = [worker EXCEPT !.pc = "emit"]
  /\ UNCHANGED <<settings, latched, title, hud, packets, presented, faults>>

EmitRepresent ==
  /\ worker.pc = "emit"
  /\ packets' = Append(packets, [front |-> worker.front, drawn |-> worker.drawn])
  /\ worker' = [worker EXCEPT !.pc = "idle"]
  /\ UNCHANGED <<settings, latched, title, hud, queue, presented, faults>>

-----------------------------------------------------------------------------
(* The packets' way and the command processor. *)

Emitting == title.pc = "emit" \/ worker.pc = "emit"

(* A packet never reaches the command processor.  The title's frontbuffers  *)
(* alternate, and no further packet is lost before this loss has shown.     *)
LosePacket ==
  /\ faults = "losses" /\ packets # <<>>
  /\ Len(queue.entries) = Len(packets) + (IF Emitting THEN 1 ELSE 0)
  /\ \E i \in 1 .. Len(packets) :
       packets' = SubSeq(packets, 1, i - 1) \o SubSeq(packets, i + 1, Len(packets))
  /\ UNCHANGED <<settings, latched, title, hud, worker, queue, presented, faults>>

(* Mutant of Resynchronised: the tags are not looked at. *)
AsTheyCome(entries, front) == entries

(* The entries before the first one with this packet's frontbuffer belong   *)
(* to packets that never arrived.                                           *)
Resynchronised(entries, front) ==
  LET matches == {i \in 1 .. Len(entries) : entries[i].front = front}
      first == CHOOSE i \in matches : \A j \in matches : i <= j
  IN IF matches = {} THEN entries ELSE SubSeq(entries, first, Len(entries))

(* NbUltrawideTakePresentAspect2 for the packet IssueSwap handles. *)
TakePresentAspect ==
  /\ packets # <<>>
  /\ LET packet == Head(packets)
         entries == Resynchronised(queue.entries, packet.front)
         aspect == IF entries # <<>> THEN Head(entries).aspect
                   ELSE IF queue.taken THEN queue.last ELSE latched.aspect
     IN /\ presented' = [aspect |-> aspect, drawn |-> packet.drawn]
        /\ queue' = IF entries = <<>> THEN queue
                    ELSE [queue EXCEPT !.entries = Tail(entries),
                                       !.last = aspect, !.taken = TRUE]
  /\ packets' = Tail(packets)
  /\ UNCHANGED <<settings, latched, title, hud, worker, faults>>

Next ==
  \/ ChangeSettings
  \/ RenderCamera \/ BeginHudPass \/ SetOtherView \/ EndHudPass \/ ReleaseDevice
  \/ SwapEnter \/ EmitPacket \/ Latch
  \/ Represent \/ EmitRepresent
  \/ LosePacket \/ TakePresentAspect

Spec == Init /\ [][Next]_vars

-----------------------------------------------------------------------------
(* Properties. *)

TypeOK ==
  /\ settings.aspect \in Aspects \union {Base}
  /\ latched.aspect \in Aspects \union {Base}
  /\ title.front \in Frontbuffers /\ worker.front \in Frontbuffers
  /\ Len(queue.entries) <= Capacity /\ Len(packets) <= MaxInFlight + 1
  /\ presented.aspect \in Aspects \union {Base}

(* An image is presented with the aspect its cameras and its HUD were drawn *)
(* for, and these were drawn for one, however late the packet is taken,     *)
(* whatever was set or presented again in the meantime, also when the       *)
(* packet before it was lost.                                               *)
PresentedAsRendered == presented.drawn \subseteq {presented.aspect}

(* Icon scissors are squeezed exactly while the device's XUI view is the    *)
(* squeezed one, by that view's own factor.                                 *)
ScissorFollowsView ==
  /\ hud.squeezed = (hud.view # Base)
  /\ hud.squeezed => hud.kh = hud.view

=============================================================================
