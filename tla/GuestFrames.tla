------------------------------ MODULE GuestFrames ------------------------------
(***************************************************************************)
(* What a guest frame goes through besides its pipelines, in one run: the  *)
(* frame's schedule, the display aspect, the draws' shaders and textures,  *)
(* the notices of written textures and the GPU budget's capture.  These    *)
(* share no state, so a behaviour is one of a single component, chosen at  *)
(* first, and the others rest in an initial state.                         *)
(***************************************************************************)
EXTENDS FrameSchedule

CONSTANTS
  Aspects, Base, Capacity, MaxInFlight, MaxChanges,
  Addresses, Ucodes, Objects, Nothing, ShaderTextures, Samplers, Reads, Fetches, Overrides,
  MaxShaderWrites, MaxEpochs,
  Textures, MaxWrites,
  Captures, SubmissionCapacity, GroupsPerFrame, MaxFrames, MaxSubmissions, MaxScopes, MaxOperations,
  MaxFailures

VARIABLES
  component,
  settings, latched, title, hud, worker, queue, packets, presented, faults,
  memory, shaders, object, load_memo, epoch, plan, register, draw,
  guest, page, texture, in_sync, raised, guest_thread, request, missed,
  probe, commands, passed, executed, published

-----------------------------------------------------------------------------
Aspect == INSTANCE PresentAspect
Bindings == INSTANCE NativeBindings WITH
  MaxWrites <- MaxShaderWrites, Textures <- ShaderTextures, memo <- load_memo, cp <- draw
Notices == INSTANCE TextureNotices WITH cp <- request
Budget == INSTANCE GpuBudgetProbe

ASSUME GuestFramesAssumption ==
  /\ Aspect!PresentAspectAssumption
  /\ Bindings!NativeBindingsAssumption
  /\ Notices!TextureNoticesAssumption
  /\ Budget!GpuBudgetProbeAssumption

aspectVars == <<settings, latched, title, hud, worker, queue, packets, presented, faults>>
bindingsVars == <<memory, shaders, object, load_memo, epoch, plan, register, draw>>
noticesVars == <<guest, page, texture, in_sync, raised, guest_thread, request, missed>>
budgetVars == <<probe, commands, passed, executed, published>>
allVars == <<component, vars, aspectVars, bindingsVars, noticesVars, budgetVars>>

AllInit ==
  /\ component \in {"schedule", "aspect", "bindings", "notices", "budget"}
  /\ Init /\ (component # "schedule" =>
       config.benchmark = "none" /\ ~config.trace /\ ~config.records)
  /\ Aspect!Init /\ (component # "aspect" =>
       settings.aspect = Base /\ settings.center /\ settings.available /\ faults = "losses")
  /\ Bindings!Init /\ (component # "bindings" =>
       memory.words = [a \in Addresses |-> CHOOSE words \in Ucodes : TRUE])
  /\ Notices!Init
  /\ Budget!Init /\ (component # "budget" => probe.count = 1)

AllNext ==
  \/ /\ component = "schedule" /\ Next
     /\ UNCHANGED <<component, aspectVars, bindingsVars, noticesVars, budgetVars>>
  \/ /\ component = "aspect" /\ Aspect!Next
     /\ UNCHANGED <<component, vars, bindingsVars, noticesVars, budgetVars>>
  \/ /\ component = "bindings" /\ Bindings!Next
     /\ UNCHANGED <<component, vars, aspectVars, noticesVars, budgetVars>>
  \/ /\ component = "notices" /\ Notices!Next
     /\ UNCHANGED <<component, vars, aspectVars, bindingsVars, budgetVars>>
  \/ /\ component = "budget" /\ Budget!Next
     /\ UNCHANGED <<component, vars, aspectVars, bindingsVars, noticesVars>>

AllSpec == AllInit /\ [][AllNext]_allVars

-----------------------------------------------------------------------------
(* The other components' properties. *)

(* Key presses take effect as often as they were made; and every component  *)
(* keeps its shape.                                                         *)
FramesInv ==
  /\ component = "schedule" => TypeOK /\ KeysAreCounted
  /\ component = "aspect" => Aspect!TypeOK
  /\ component = "bindings" => Bindings!TypeOK
  /\ component = "notices" => Notices!TypeOK
  /\ component = "budget" => Budget!TypeOK

(* What a measurement or a debug option shows is of the frames it names: a  *)
(* valid GPU budget holds all of its frames' work, and its query objects are *)
(* released when nothing uses them.                                         *)
MeasuresAreOfTheirFrames ==
  /\ component = "schedule" => DiagnosticsAreOfTheirFrames
  /\ component = "budget" =>
       Budget!ValidIsWhole /\ Budget!CompleteIsAttributed /\ Budget!ReleasedIsIdle

(* An image is presented at the aspect it was rendered for.                 *)
PresentedAsRendered == component = "aspect" => Aspect!PresentedAsRendered

(* A HUD pass's scissor is squeezed exactly as its view is.                 *)
ScissorFollowsView == component = "aspect" => Aspect!ScissorFollowsView

(* A draw's shader is the one in guest memory when it was looked up, and    *)
(* its slots are those of the shader and the registers of this draw.        *)
BindingsAreGuests ==
  component = "bindings" => Bindings!HitIsCurrent /\ Bindings!BindingsAreGuests

(* A requested texture holds what the guest stored before the request.      *)
TextureIsFresh == component = "notices" => Notices!TextureIsFresh

=============================================================================
