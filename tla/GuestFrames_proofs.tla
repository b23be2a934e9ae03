-------------------------- MODULE GuestFrames_proofs --------------------------
(*****************************************************************************)
(* A guest frame's schedule, aspect, bindings, notices and GPU budget, for   *)
(* every number of textures, shaders, aspects, settings, frames, submissions *)
(* and scopes.  The components share no state: a behaviour of the            *)
(* composition is one of each of them.                                       *)
(*****************************************************************************)
EXTENDS GuestFrames, FiniteSetTheorems, SequenceTheorems, TLAPS

LEMMA ComponentsInit ==
  AllInit => Init /\ Aspect!Init /\ Bindings!Init /\ Notices!Init /\ Budget!Init
BY DEF AllInit

LEMMA ComponentsStep ==
  ASSUME [AllNext]_allVars
  PROVE  /\ [Next]_vars /\ [Aspect!Next]_aspectVars /\ [Bindings!Next]_bindingsVars
         /\ [Notices!Next]_noticesVars /\ [Budget!Next]_budgetVars
<1>1. CASE component = "schedule" /\ Next
           /\ UNCHANGED <<component, aspectVars, bindingsVars, noticesVars, budgetVars>>
  BY <1>1
<1>2. CASE component = "aspect" /\ Aspect!Next
           /\ UNCHANGED <<component, vars, bindingsVars, noticesVars, budgetVars>>
  BY <1>2
<1>3. CASE component = "bindings" /\ Bindings!Next
           /\ UNCHANGED <<component, vars, aspectVars, noticesVars, budgetVars>>
  BY <1>3
<1>4. CASE component = "notices" /\ Notices!Next
           /\ UNCHANGED <<component, vars, aspectVars, bindingsVars, budgetVars>>
  BY <1>4
<1>5. CASE component = "budget" /\ Budget!Next
           /\ UNCHANGED <<component, vars, aspectVars, bindingsVars, noticesVars>>
  BY <1>5
<1>6. CASE UNCHANGED allVars
  BY <1>6 DEF allVars
<1> QED BY <1>1, <1>2, <1>3, <1>4, <1>5, <1>6 DEF AllNext

(***************************************************************************)
(* The notices of written textures.                                        *)
(***************************************************************************)
Versions == -1 .. MaxWrites

NoticeTypes ==
  /\ guest \in [Textures -> 0 .. MaxWrites]
  /\ page \in [Textures -> [protected : BOOLEAN, buffer : Versions]]
  /\ texture \in [Textures -> [outdated : BOOLEAN, watch : BOOLEAN, loaded : Versions]]
  /\ in_sync \subseteq Textures /\ missed \subseteq Textures
  /\ raised \in BOOLEAN
  /\ guest_thread = [pc |-> guest_thread.pc, t |-> guest_thread.t]
  /\ guest_thread.pc \in {"idle", "store", "notify"}
  /\ guest_thread.pc # "idle" => guest_thread.t \in Textures
                                 /\ guest[guest_thread.t] < MaxWrites
  /\ request \in [pc : {"idle", "exchange", "sync", "request", "requested", "returned"},
                  used : SUBSET Textures, loads : SUBSET Textures,
                  since : [Textures -> 0 .. MaxWrites]]
  /\ request.loads \subseteq request.used

(* A protected page is in the buffer as the guest has it; a texture that    *)
(* is watched, unless it missed a store, was loaded from it.                *)
WatchIsHonest(t) ==
  /\ texture[t].outdated <=> ~texture[t].watch
  /\ page[t].protected => page[t].buffer = guest[t]
  /\ texture[t].watch /\ t \notin missed => page[t].protected /\ texture[t].loaded = guest[t]

(* An outdated texture that is still bound has the flag raised, or about to *)
(* be, with the store still to come, or is being loaded.                    *)
Loading == request.pc \in {"request", "requested"}

NoticeArrives(t) ==
  t \in in_sync /\ texture[t].outdated =>
    \/ raised
    \/ /\ guest_thread.pc = "notify" /\ guest_thread.t = t
       /\ texture[t].loaded = guest[t] \/ t \in missed
    \/ Loading /\ t \in request.loads

Fresh(t) == texture[t].loaded >= request.since[t] \/ t \in missed

(* The request's textures that are not loaded are fresh as they are, and    *)
(* those requested will be.                                                 *)
RequestHolds(t) ==
  /\ request.since[t] <= guest[t]
  /\ t \in request.loads => Loading /\ texture[t].outdated
  /\ request.pc = "sync" /\ t \in request.used \intersect in_sync => Fresh(t)
  /\ request.pc \in {"request", "requested", "returned"} /\ t \in request.used \ request.loads
       => Fresh(t)
  /\ request.pc = "requested" /\ t \in request.loads =>
       /\ page[t].buffer >= request.since[t]
       /\ t \notin missed => page[t].protected

NoticesInv ==
  /\ NoticeTypes
  /\ \A t \in Textures : WatchIsHonest(t) /\ NoticeArrives(t) /\ RequestHolds(t)

LEMMA NoticesInit == Notices!Init => NoticesInv
<1> SUFFICES ASSUME Notices!Init PROVE NoticesInv
  OBVIOUS
<1> USE DEF Notices!Init, Notices!IdleCp
<1>1. MaxWrites \in Nat
  BY GuestFramesAssumption DEF Notices!TextureNoticesAssumption
<1>a. /\ guest_thread = [pc |-> guest_thread.pc, t |-> guest_thread.t]
      /\ guest_thread.pc = "idle"
  OBVIOUS
<1>b. /\ guest \in [Textures -> 0 .. MaxWrites]
      /\ page \in [Textures -> [protected : BOOLEAN, buffer : Versions]]
      /\ texture \in [Textures -> [outdated : BOOLEAN, watch : BOOLEAN, loaded : Versions]]
  BY <1>1 DEF Versions
<1>c. /\ request.pc = "idle" /\ request.used = {} /\ request.loads = {}
      /\ request.since = [t \in Textures |-> 0]
      /\ request = [pc |-> "idle", used |-> {}, loads |-> {}, since |-> request.since]
      /\ request.since \in [Textures -> 0 .. MaxWrites]
  BY <1>1
<1>2. NoticeTypes
  BY <1>a, <1>b, <1>c DEF NoticeTypes
<1>3. ASSUME NEW t \in Textures
      PROVE  WatchIsHonest(t) /\ NoticeArrives(t) /\ RequestHolds(t)
  <2>1. /\ texture[t].outdated /\ ~texture[t].watch /\ ~page[t].protected /\ guest[t] = 0
        /\ request.since[t] = 0 /\ in_sync = {}
    BY <1>c
  <2>2. WatchIsHonest(t)
    BY <2>1 DEF WatchIsHonest
  <2>3. NoticeArrives(t)
    BY <2>1 DEF NoticeArrives
  <2>4. RequestHolds(t)
    BY <2>1, <1>c DEF RequestHolds
  <2> QED BY <2>2, <2>3, <2>4
<1> QED BY <1>2, <1>3 DEF NoticesInv

LEMMA NoticesGuestStep ==
  ASSUME NoticesInv,
         (\E t \in Textures : Notices!BeginWrite(t)) \/ Notices!Fault \/ Notices!Notify
           \/ Notices!Store
  PROVE  NoticesInv'
<1> USE DEF NoticesInv, NoticeTypes
<1>0. MaxWrites \in Nat
  BY GuestFramesAssumption DEF Notices!TextureNoticesAssumption
<1>1. ASSUME NEW u \in Textures, Notices!BeginWrite(u)
      PROVE  NoticesInv'
  <2>1. NoticeTypes'
    BY <1>1 DEF Notices!BeginWrite
  <2>2. ASSUME NEW t \in Textures
        PROVE  (WatchIsHonest(t) /\ NoticeArrives(t) /\ RequestHolds(t))'
    BY <1>1 DEF Notices!BeginWrite, WatchIsHonest, NoticeArrives, RequestHolds, Loading, Fresh
  <2> QED BY <2>1, <2>2
<1>2. CASE Notices!Fault
  <2> DEFINE u == guest_thread.t
  <2>0. /\ u \in Textures /\ guest_thread.pc = "store" /\ page[u].protected
        /\ page' = [page EXCEPT ![u].protected = FALSE]
        /\ UNCHANGED <<guest, in_sync, raised, request>>
    BY <1>2 DEF Notices!Fault
  <2>1. /\ page' \in [Textures -> [protected : BOOLEAN, buffer : Versions]]
        /\ \A t \in Textures : /\ page'[t].buffer = page[t].buffer
                              /\ page'[t].protected = (page[t].protected /\ t # u)
    <3>1. ASSUME NEW t \in Textures
          PROVE  page[t] \in [protected : BOOLEAN, buffer : Versions]
      BY <3>1
    <3> QED BY <2>0, <3>1
  <2>2. CASE texture[u].watch
    <3>1. /\ texture' = [texture EXCEPT ![u].outdated = TRUE, ![u].watch = FALSE]
          /\ guest_thread' = [guest_thread EXCEPT !.pc = "notify"] /\ UNCHANGED missed
      BY <1>2, <2>2 DEF Notices!Fault, Notices!Goto
    <3>2. /\ guest_thread'.pc = "notify" /\ guest_thread'.t = u
          /\ guest_thread' = [pc |-> "notify", t |-> u]
      BY <3>1
    <3>3. /\ texture' \in [Textures -> [outdated : BOOLEAN, watch : BOOLEAN, loaded : Versions]]
          /\ \A t \in Textures : /\ t # u => texture'[t] = texture[t]
                                /\ texture'[t].loaded = texture[t].loaded
          /\ texture'[u].outdated = TRUE /\ texture'[u].watch = FALSE
      <4>1. ASSUME NEW t \in Textures
            PROVE  texture[t] \in [outdated : BOOLEAN, watch : BOOLEAN, loaded : Versions]
        OBVIOUS
      <4> QED BY <2>0, <3>1, <4>1
    <3>4. NoticeTypes'
      BY <2>0, <2>1, <3>1, <3>2, <3>3
    <3>5. ASSUME NEW t \in Textures
          PROVE  (WatchIsHonest(t) /\ NoticeArrives(t) /\ RequestHolds(t))'
      <4>1. WatchIsHonest(t)'
        BY <2>0, <2>1, <3>1, <3>3 DEF WatchIsHonest
      <4>2. texture[u].loaded = guest[u] \/ u \in missed
        BY <2>0, <2>2 DEF WatchIsHonest
      <4>3. NoticeArrives(t)'
        BY <2>0, <3>1, <3>2, <3>3, <4>2 DEF NoticeArrives, Loading
      <4>4. RequestHolds(t)'
        BY <2>0, <2>1, <2>2, <3>1, <3>3 DEF RequestHolds, WatchIsHonest, Loading, Fresh
      <4> QED BY <4>1, <4>3, <4>4
    <3> QED BY <3>4, <3>5
  <2>3. CASE ~texture[u].watch
    <3>1. /\ missed' = IF request.pc = "requested" /\ u \in request.loads
                       THEN missed \union {u} ELSE missed
          /\ UNCHANGED <<texture, guest_thread>>
      BY <1>2, <2>3 DEF Notices!Fault
    <3>2. NoticeTypes'
      BY <2>0, <2>1, <3>1
    <3>3. ASSUME NEW t \in Textures
          PROVE  (WatchIsHonest(t) /\ NoticeArrives(t) /\ RequestHolds(t))'
      BY <2>0, <2>1, <2>3, <3>1
         DEF WatchIsHonest, NoticeArrives, RequestHolds, Loading, Fresh
    <3> QED BY <3>2, <3>3
  <2> QED BY <2>2, <2>3
<1>3. CASE Notices!Notify
  <2>1. NoticeTypes'
    BY <1>3 DEF Notices!Notify, Notices!Goto
  <2>2. ASSUME NEW t \in Textures
        PROVE  (WatchIsHonest(t) /\ NoticeArrives(t) /\ RequestHolds(t))'
    BY <1>3 DEF Notices!Notify, Notices!Goto, WatchIsHonest, NoticeArrives, RequestHolds,
                Loading, Fresh
  <2> QED BY <2>1, <2>2
<1>4. CASE Notices!Store
  <2> USE <1>4 DEF Notices!Store, Notices!Goto
  <2>0. guest_thread.t \in Textures /\ guest[guest_thread.t] < MaxWrites
    OBVIOUS
  <2>1. NoticeTypes'
    BY <2>0, <1>0
  <2>2. ASSUME NEW t \in Textures
        PROVE  (WatchIsHonest(t) /\ NoticeArrives(t) /\ RequestHolds(t))'
    BY <2>0, <1>0 DEF WatchIsHonest, NoticeArrives, RequestHolds, Loading, Fresh
  <2> QED BY <2>1, <2>2
<1> QED BY <1>1, <1>2, <1>3, <1>4

LEMMA NoticesRequestStep ==
  ASSUME NoticesInv,
         \/ \E used \in SUBSET Textures, load_first \in BOOLEAN :
              Notices!RequestTextures(used, load_first)
         \/ Notices!Exchange \/ Notices!Sync \/ Notices!RequestRanges
         \/ Notices!CommitLoads \/ Notices!Drawn
  PROVE  NoticesInv'
<1> USE DEF NoticesInv, NoticeTypes
<1>0. MaxWrites \in Nat
  BY GuestFramesAssumption DEF Notices!TextureNoticesAssumption
<1>1. ASSUME NEW used \in SUBSET Textures, NEW load_first \in BOOLEAN,
             Notices!RequestTextures(used, load_first)
      PROVE  NoticesInv'
  <2>1. /\ request.pc = "idle"
        /\ request'.pc = (IF load_first /\ ~raised THEN "sync" ELSE "exchange")
        /\ request'.used = used /\ request'.since = guest /\ request'.loads = request.loads
        /\ request' \in [pc : {"idle", "exchange", "sync", "request", "requested", "returned"},
                         used : SUBSET Textures, loads : SUBSET Textures,
                         since : [Textures -> 0 .. MaxWrites]]
        /\ UNCHANGED <<guest, page, texture, in_sync, raised, guest_thread, missed>>
    BY <1>1 DEF Notices!RequestTextures
  <2>2. request.loads = {}
    BY <2>1 DEF RequestHolds, Loading
  <2>3. NoticeTypes'
    BY <2>1, <2>2
  <2>4. ASSUME NEW t \in Textures
        PROVE  (WatchIsHonest(t) /\ NoticeArrives(t) /\ RequestHolds(t))'
    <3>1. (WatchIsHonest(t) /\ NoticeArrives(t))'
      BY <2>1, <2>2 DEF WatchIsHonest, NoticeArrives, Loading
    <3>2. guest[t] \in Int /\ texture[t].loaded \in Int
      BY DEF Versions
    <3>3. RequestHolds(t)'
      BY <2>1, <2>2, <3>2 DEF WatchIsHonest, NoticeArrives, RequestHolds, Loading, Fresh
    <3> QED BY <3>1, <3>3
  <2> QED BY <2>3, <2>4
<1>2. CASE Notices!Exchange
  <2>1. /\ request.pc = "exchange" /\ raised' = FALSE
        /\ in_sync' = (IF raised THEN {} ELSE in_sync)
        /\ request'.pc = "sync"
        /\ request'.used = request.used /\ request'.since = request.since
        /\ request'.loads = request.loads
        /\ request' \in [pc : {"idle", "exchange", "sync", "request", "requested", "returned"},
                         used : SUBSET Textures, loads : SUBSET Textures,
                         since : [Textures -> 0 .. MaxWrites]]
        /\ UNCHANGED <<guest, page, texture, guest_thread, missed>>
    BY <1>2 DEF Notices!Exchange, Notices!Rebound
  <2>2. request.loads = {}
    BY <2>1 DEF RequestHolds, Loading
  <2>3. NoticeTypes'
    BY <2>1, <2>2
  <2>4. ASSUME NEW t \in Textures
        PROVE  (WatchIsHonest(t) /\ NoticeArrives(t) /\ RequestHolds(t))'
    <3>1. guest[t] \in Int /\ texture[t].loaded \in Int /\ request.since[t] \in Int
      BY DEF Versions
    <3> QED BY <2>1, <2>2, <3>1
            DEF WatchIsHonest, NoticeArrives, RequestHolds, Loading, Fresh
  <2> QED BY <2>3, <2>4
<1>3. CASE Notices!Sync
  <2> DEFINE loads == {t \in request.used \ in_sync : texture[t].outdated}
  <2>1. /\ request.pc = "sync" /\ in_sync' = in_sync \union request.used
        /\ request'.pc = (IF loads = {} THEN "returned" ELSE "request")
        /\ request'.used = request.used /\ request'.since = request.since
        /\ request'.loads = (IF loads = {} THEN request.loads ELSE loads)
        /\ request' \in [pc : {"idle", "exchange", "sync", "request", "requested", "returned"},
                         used : SUBSET Textures, loads : SUBSET Textures,
                         since : [Textures -> 0 .. MaxWrites]]
        /\ UNCHANGED <<guest, page, texture, raised, guest_thread, missed>>
    BY <1>3 DEF Notices!Sync
  <2>2. request.loads = {}
    BY <2>1 DEF RequestHolds, Loading
  <2>3. NoticeTypes'
    BY <2>1, <2>2
  <2>4. ASSUME NEW t \in Textures
        PROVE  (WatchIsHonest(t) /\ NoticeArrives(t) /\ RequestHolds(t))'
    <3>1. guest[t] \in Int /\ texture[t].loaded \in Int /\ request.since[t] \in Int
      BY DEF Versions
    <3>2. t \in request'.loads <=> t \in request.used \ in_sync /\ texture[t].outdated
      BY <2>1, <2>2
    <3>3. t \in request'.loads => request'.pc = "request"
      BY <2>1, <2>2
    <3> HIDE DEF loads
    <3> QED BY <2>1, <2>2, <3>1, <3>2, <3>3
            DEF WatchIsHonest, NoticeArrives, RequestHolds, Loading, Fresh
  <2> QED BY <2>3, <2>4
<1>4. CASE Notices!RequestRanges
  <2>1. /\ request.pc = "request" /\ request'.pc = "requested"
        /\ missed' = missed \ request.loads
        /\ request'.used = request.used /\ request'.since = request.since
        /\ request'.loads = request.loads
        /\ request' \in [pc : {"idle", "exchange", "sync", "request", "requested", "returned"},
                         used : SUBSET Textures, loads : SUBSET Textures,
                         since : [Textures -> 0 .. MaxWrites]]
        /\ UNCHANGED <<guest, texture, in_sync, raised, guest_thread>>
        /\ guest_thread.pc # "notify"
    BY <1>4 DEF Notices!RequestRanges, Notices!Free
  <2>2. /\ page' \in [Textures -> [protected : BOOLEAN, buffer : Versions]]
        /\ \A t \in Textures :
             /\ t \in request.loads /\ ~page[t].protected
                  => page'[t].protected = TRUE /\ page'[t].buffer = guest[t]
             /\ ~(t \in request.loads /\ ~page[t].protected) => page'[t] = page[t]
    BY <1>4, <1>0 DEF Notices!RequestRanges, Versions
  <2>3. NoticeTypes'
    BY <2>1, <2>2
  <2>4. ASSUME NEW t \in Textures
        PROVE  (WatchIsHonest(t) /\ NoticeArrives(t) /\ RequestHolds(t))'
    <3>1. /\ guest[t] \in Int /\ texture[t].loaded \in Int /\ request.since[t] \in Int
          /\ page[t].buffer \in Int
      BY DEF Versions
    <3> QED BY <2>1, <2>2, <3>1
            DEF WatchIsHonest, NoticeArrives, RequestHolds, Loading, Fresh
  <2> QED BY <2>3, <2>4
<1>5. CASE Notices!CommitLoads
  <2>1. /\ request.pc = "requested" /\ request'.pc = "returned"
        /\ request'.used = request.used /\ request'.since = request.since
        /\ request'.loads = {}
        /\ request' \in [pc : {"idle", "exchange", "sync", "request", "requested", "returned"},
                         used : SUBSET Textures, loads : SUBSET Textures,
                         since : [Textures -> 0 .. MaxWrites]]
        /\ UNCHANGED <<guest, page, in_sync, raised, guest_thread, missed>>
        /\ guest_thread.pc # "notify"
    BY <1>5 DEF Notices!CommitLoads, Notices!Free
  <2>2. /\ texture' \in [Textures -> [outdated : BOOLEAN, watch : BOOLEAN, loaded : Versions]]
        /\ \A t \in Textures :
             /\ t \in request.loads => texture'[t].outdated = FALSE /\ texture'[t].watch = TRUE
                                       /\ texture'[t].loaded = page[t].buffer
             /\ t \notin request.loads => texture'[t] = texture[t]
    BY <1>5 DEF Notices!CommitLoads, Notices!UpToDate
  <2>3. NoticeTypes'
    BY <2>1, <2>2
  <2>4. ASSUME NEW t \in Textures
        PROVE  (WatchIsHonest(t) /\ NoticeArrives(t) /\ RequestHolds(t))'
    <3>1. /\ guest[t] \in Int /\ texture[t].loaded \in Int /\ request.since[t] \in Int
          /\ page[t].buffer \in Int
      BY DEF Versions
    <3> QED BY <2>1, <2>2, <3>1
            DEF WatchIsHonest, NoticeArrives, RequestHolds, Loading, Fresh
  <2> QED BY <2>3, <2>4
<1>6. CASE Notices!Drawn
  <2>1. /\ request.pc = "returned" /\ request' = Notices!IdleCp
        /\ UNCHANGED <<guest, page, texture, in_sync, raised, guest_thread, missed>>
    BY <1>6 DEF Notices!Drawn
  <2>2. /\ request'.pc = "idle" /\ request'.used = {} /\ request'.loads = {}
        /\ request'.since = [t \in Textures |-> 0]
        /\ request' \in [pc : {"idle", "exchange", "sync", "request", "requested", "returned"},
                         used : SUBSET Textures, loads : SUBSET Textures,
                         since : [Textures -> 0 .. MaxWrites]]
    BY <2>1, <1>0 DEF Notices!IdleCp
  <2>3. NoticeTypes'
    BY <2>1, <2>2
  <2>4. ASSUME NEW t \in Textures
        PROVE  (WatchIsHonest(t) /\ NoticeArrives(t) /\ RequestHolds(t))'
    BY <2>1, <2>2 DEF WatchIsHonest, NoticeArrives, RequestHolds, Loading, Fresh
  <2> QED BY <2>3, <2>4
<1> QED BY <1>1, <1>2, <1>3, <1>4, <1>5, <1>6

LEMMA NoticesInvariant == AllSpec => []NoticesInv
<1>1. NoticesInv /\ [AllNext]_allVars => NoticesInv'
  <2> SUFFICES ASSUME NoticesInv, [AllNext]_allVars PROVE NoticesInv'
    OBVIOUS
  <2>1. Notices!Next \/ UNCHANGED noticesVars
    BY ComponentsStep
  <2>2. CASE Notices!Next
    BY <2>2, NoticesGuestStep, NoticesRequestStep DEF Notices!Next
  <2>3. CASE UNCHANGED noticesVars
    BY <2>3 DEF noticesVars, NoticesInv, NoticeTypes, WatchIsHonest, NoticeArrives,
                RequestHolds, Loading, Fresh
  <2> QED BY <2>1, <2>2, <2>3
<1> QED BY <1>1, ComponentsInit, NoticesInit, PTL DEF AllSpec

(* A texture a draw has requested holds whatever the guest had stored when   *)
(* the request began, for any number of textures and stores and in every     *)
(* order of faults, flags, polls and loads: no notice of a written texture   *)
(* is lost but that of a store between RequestRanges and                     *)
(* MakeUpToDateAndWatch (texture cache RequestTextures, WatchCallback).      *)
THEOREM RequestedTextureIsFresh == AllSpec => []TextureIsFresh
<1>1. NoticesInv => TextureIsFresh
  <2> SUFFICES ASSUME NoticesInv, request.pc = "returned", NEW t \in request.used
               PROVE  Fresh(t)
    BY DEF TextureIsFresh, Notices!TextureIsFresh, Fresh
  <2>1. t \in Textures /\ t \notin request.loads
    BY DEF NoticesInv, NoticeTypes, RequestHolds, Loading
  <2> QED BY <2>1 DEF NoticesInv, RequestHolds
<1> QED BY <1>1, NoticesInvariant, PTL

(***************************************************************************)
(* The display aspect.                                                     *)
(***************************************************************************)
AllAspects == Aspects \union {Base}
Titles == [pc : {"render", "emit", "latch"}, front : {0, 1}, drawn : SUBSET AllAspects,
           released : BOOLEAN]
Huds == [pass : BOOLEAN, squeezed : BOOLEAN, kh : AllAspects, saved : AllAspects,
         in_pass : BOOLEAN, view : AllAspects]
Workers == [pc : {"idle", "emit"}, holds : BOOLEAN, front : {0, 1}, drawn : SUBSET AllAspects]
Entries == [front : {0, 1}, aspect : AllAspects]
SwapPackets == [front : {0, 1}, drawn : SUBSET AllAspects]

AspectTypes ==
  /\ settings \in [aspect : AllAspects, center : BOOLEAN, suspended : BOOLEAN,
                   available : BOOLEAN, changes : Nat]
  /\ latched \in [aspect : AllAspects, center : BOOLEAN]
  /\ title \in Titles /\ hud \in Huds /\ worker \in Workers
  /\ queue \in [entries : Seq(Entries), last_pushed : AllAspects, last : AllAspects,
                taken : BOOLEAN]
  /\ packets \in Seq(SwapPackets)
  /\ presented \in [aspect : AllAspects, drawn : SUBSET AllAspects]
  /\ faults \in {"losses", "silence"}

(* In a pass that squeezes, the view is the pass's own or the unsqueezed    *)
(* one; elsewhere there is no squeezed view.                                *)
HudFollows ==
  /\ hud.pass => /\ hud.in_pass /\ hud.saved # Base /\ hud.kh = hud.saved
                 /\ hud.view \in {Base, hud.saved}
  /\ ~hud.pass => hud.view = Base
  /\ hud.squeezed <=> hud.pass /\ hud.view # Base

(* What has been drawn so far is drawn for the aspect latched, then for the *)
(* one last queued, which the image the worker holds was drawn for too.     *)
DrawnForOne ==
  /\ title.released => title.pc = "render"
  /\ worker.pc = "emit" => title.released /\ worker.holds
  /\ title.pc = "render" => title.drawn \subseteq {latched.aspect}
  /\ title.pc = "emit" => title.drawn \subseteq {queue.last_pushed}
  /\ worker.holds /\ title.pc # "emit" => worker.drawn \subseteq {queue.last_pushed}

(* The packets on their way and the one that is about to be.                *)
InFlight == Len(packets) + (IF Aspect!Emitting THEN 1 ELSE 0)
Emitted ==
  IF title.pc = "emit" THEN [front |-> title.front, drawn |-> title.drawn]
  ELSE [front |-> worker.front, drawn |-> worker.drawn]
Coming(i) == IF i <= Len(packets) THEN packets[i] ELSE Emitted

Matches(i, j) ==
  /\ queue.entries[i].front = Coming(j).front
  /\ Coming(j).drawn \subseteq {queue.entries[i].aspect}

(* Every packet has its entry, in order, or there is one entry more, of a   *)
(* packet that was lost.                                                    *)
InStep == Len(queue.entries) = InFlight /\ \A i \in 1 .. InFlight : Matches(i, i)
OneLost ==
  /\ faults = "losses" /\ Len(queue.entries) = InFlight + 1
  /\ \E k \in 1 .. InFlight + 1 : /\ \A i \in 1 .. k - 1 : Matches(i, i)
                                  /\ \A i \in k .. InFlight : Matches(i + 1, i)

(* Without silent swaps two entries in a row have the same frontbuffer only *)
(* if the second presents the first's image again.                          *)
LastFront ==
  queue.entries # <<>> =>
    /\ queue.entries[Len(queue.entries)].front
         = IF title.pc = "render" THEN 1 - title.front ELSE title.front
    /\ queue.entries[Len(queue.entries)].aspect = queue.last_pushed
TagsTell ==
  faults = "losses" =>
    /\ LastFront
    /\ worker.holds /\ title.pc # "emit" =>
         worker.front = IF title.pc = "render" THEN 1 - title.front ELSE title.front
    /\ \A i \in 1 .. Len(queue.entries) - 1 :
         queue.entries[i].front = queue.entries[i + 1].front
           => queue.entries[i].aspect = queue.entries[i + 1].aspect

QueueInv ==
  /\ InFlight <= MaxInFlight
  /\ InStep \/ OneLost
  /\ TagsTell

PresentedInv == presented.drawn \subseteq {presented.aspect}

AspectInv == AspectTypes /\ HudFollows /\ DrawnForOne /\ QueueInv /\ PresentedInv

LEMMA AspectConstants ==
  Base \notin Aspects /\ Capacity \in Nat /\ MaxInFlight \in Nat /\ MaxInFlight + 1 < Capacity
BY GuestFramesAssumption DEF Aspect!PresentAspectAssumption

LEMMA ComputedAspect ==
  ASSUME AspectTypes
  PROVE  Aspect!Compute(settings) \in [aspect : AllAspects, center : BOOLEAN]
BY DEF AspectTypes, Aspect!Compute, Aspect!Usable, AllAspects

LEMMA AspectInit == Aspect!Init => AspectInv
<1> SUFFICES ASSUME Aspect!Init PROVE AspectInv
  OBVIOUS
<1>1. settings \in [aspect : AllAspects, center : BOOLEAN, suspended : BOOLEAN,
                    available : BOOLEAN, changes : Nat]
  <2>1. settings \in [aspect : AllAspects, center : BOOLEAN, suspended : {FALSE},
                      available : BOOLEAN, changes : {0}]
    BY DEF Aspect!Init, AllAspects
  <2>2. {FALSE} \subseteq BOOLEAN /\ {0} \subseteq Nat
    OBVIOUS
  <2> QED BY <2>1, <2>2
<1>2. latched \in [aspect : AllAspects, center : BOOLEAN]
  BY <1>1 DEF Aspect!Init, Aspect!Compute, Aspect!Usable, AllAspects
<1>3. /\ title \in Titles /\ hud \in Huds /\ worker \in Workers
      /\ presented \in [aspect : AllAspects, drawn : SUBSET AllAspects]
  BY DEF Aspect!Init, Titles, Huds, Workers, AllAspects
<1>4. /\ queue.entries = <<>> /\ packets = <<>>
      /\ queue \in [entries : Seq(Entries), last_pushed : AllAspects, last : AllAspects,
                    taken : BOOLEAN]
      /\ packets \in Seq(SwapPackets)
  BY DEF Aspect!Init, AllAspects
<1>5. AspectTypes
  BY <1>1, <1>2, <1>3, <1>4 DEF Aspect!Init, AspectTypes
<1>6. HudFollows
  BY DEF Aspect!Init, HudFollows
<1>7. DrawnForOne
  BY DEF Aspect!Init, DrawnForOne
<1>8. InFlight = 0
  BY <1>4 DEF Aspect!Init, InFlight, Aspect!Emitting
<1>9. InStep
  BY <1>4, <1>8 DEF InStep
<1>10. TagsTell
  BY <1>4 DEF Aspect!Init, TagsTell, LastFront
<1> QED BY <1>5, <1>6, <1>7, <1>8, <1>9, <1>10, AspectConstants
        DEF Aspect!Init, AspectInv, QueueInv, PresentedInv

LEMMA InFlightInt == AspectTypes => Len(packets) \in Nat /\ InFlight \in Nat
                                    /\ Len(queue.entries) \in Nat
<1> SUFFICES ASSUME AspectTypes
             PROVE  Len(packets) \in Nat /\ InFlight \in Nat /\ Len(queue.entries) \in Nat
  OBVIOUS
<1>1. Len(packets) \in Nat
  BY DEF AspectTypes
<1>2. Len(queue.entries) \in Nat
  BY DEF AspectTypes
<1> QED BY <1>1, <1>2 DEF InFlight

(* The steps that queue nothing and send nothing. *)
LEMMA QueueStays ==
  ASSUME AspectTypes, InStep \/ OneLost, UNCHANGED <<queue, packets, faults>>,
         Aspect!Emitting' <=> Aspect!Emitting, Aspect!Emitting => Emitted' = Emitted
  PROVE  InFlight' = InFlight /\ (InStep \/ OneLost)'
<1>1. InFlight' = InFlight
  BY DEF InFlight
<1>2. InFlight \in Nat /\ Len(packets) \in Nat
  BY InFlightInt
<1>3. ASSUME NEW i, NEW j \in 1 .. InFlight
      PROVE  Matches(i, j)' <=> Matches(i, j)
  <2>1. Coming(j)' = Coming(j)
    BY <1>2 DEF Coming, InFlight
  <2> QED BY <2>1 DEF Matches
<1>4. CASE InStep
  BY <1>1, <1>3, <1>4 DEF InStep
<1>5. CASE OneLost
  <2>1. PICK k \in 1 .. InFlight + 1 : /\ \A i \in 1 .. k - 1 : Matches(i, i)
                                       /\ \A i \in k .. InFlight : Matches(i + 1, i)
    BY <1>5 DEF OneLost
  <2>2. \A i \in 1 .. k - 1 : i \in 1 .. InFlight
    BY <1>2
  <2>3. \A i \in k .. InFlight : i \in 1 .. InFlight
    BY <1>2
  <2>4. \A i \in 1 .. k - 1 : Matches(i, i)'
    BY <2>1, <2>2, <1>3
  <2>5. \A i \in k .. InFlight : Matches(i + 1, i)'
    BY <2>1, <2>3, <1>3
  <2> QED BY <1>1, <2>1, <2>4, <2>5, <1>5 DEF OneLost
<1> QED BY <1>1, <1>4, <1>5

(* The queued entry and the packet about to be emitted belong together. *)
LEMMA QueuePushed ==
  ASSUME AspectTypes, InStep \/ OneLost, UNCHANGED <<packets, faults>>,
         ~Aspect!Emitting, Aspect!Emitting', NEW entry \in Entries,
         queue'.entries = Append(queue.entries, entry),
         Emitted'.front = entry.front, Emitted'.drawn \subseteq {entry.aspect}
  PROVE  InFlight' = InFlight + 1 /\ (InStep \/ OneLost)'
<1>1. InFlight' = InFlight + 1 /\ InFlight = Len(packets)
  <2>1. Len(packets) \in Nat
    BY InFlightInt
  <2> QED BY <2>1 DEF InFlight
<1>2. InFlight \in Nat /\ Len(packets) \in Nat /\ Len(queue.entries) \in Nat
  BY InFlightInt
<1>3. /\ Len(queue'.entries) = Len(queue.entries) + 1
      /\ \A i \in 1 .. Len(queue.entries) : queue'.entries[i] = queue.entries[i]
      /\ queue'.entries[Len(queue.entries) + 1] = entry
  BY DEF AspectTypes
<1>4. ASSUME NEW i \in 1 .. Len(queue.entries), NEW j \in 1 .. InFlight, Matches(i, j)
      PROVE  Matches(i, j)'
  <2>1. Coming(j)' = Coming(j)
    BY <1>1, <1>2 DEF Coming
  <2> QED BY <2>1, <1>3, <1>4 DEF Matches
<1>5. ASSUME NEW i, NEW j, i = Len(queue.entries) + 1, j = InFlight + 1
      PROVE  Matches(i, j)'
  <2>1. Coming(j)' = Emitted'
    BY <1>1, <1>2, <1>5 DEF Coming
  <2> QED BY <2>1, <1>3, <1>5 DEF Matches
<1>6. CASE InStep
  <2>1. ASSUME NEW i \in 1 .. InFlight + 1 PROVE Matches(i, i)'
    <3>1. CASE i <= InFlight
      BY <3>1, <1>2, <1>4, <1>6 DEF InStep
    <3>2. CASE i = InFlight + 1
      BY <3>2, <1>5, <1>6 DEF InStep
    <3> QED BY <3>1, <3>2, <1>2
  <2> QED BY <2>1, <1>1, <1>3, <1>6 DEF InStep
<1>7. CASE OneLost
  <2>1. PICK k \in 1 .. InFlight + 1 : /\ \A i \in 1 .. k - 1 : Matches(i, i)
                                       /\ \A i \in k .. InFlight : Matches(i + 1, i)
    BY <1>7 DEF OneLost
  <2>2. Len(queue.entries) = InFlight + 1
    BY <1>7 DEF OneLost
  <2>3. \A i \in 1 .. k - 1 : Matches(i, i)'
    BY <2>1, <2>2, <1>2, <1>4
  <2>4. \A i \in k .. InFlight + 1 : Matches(i + 1, i)'
    <3>1. ASSUME NEW i \in k .. InFlight + 1 PROVE Matches(i + 1, i)'
      <4>1. CASE i <= InFlight
        BY <4>1, <2>1, <2>2, <1>2, <1>4
      <4>2. CASE i = InFlight + 1
        BY <4>2, <2>2, <1>5
      <4> QED BY <4>1, <4>2, <1>2
    <3> QED BY <3>1
  <2>5. k \in 1 .. InFlight' + 1 /\ Len(queue'.entries) = InFlight' + 1
    BY <1>1, <1>2, <1>3, <2>2
  <2> QED BY <1>1, <2>3, <2>4, <2>5, <1>7 DEF OneLost
<1> QED BY <1>1, <1>6, <1>7

(* A packet emitted is the one that was about to be. *)
LEMMA QueueEmits ==
  ASSUME AspectTypes, InStep \/ OneLost, UNCHANGED <<queue, faults>>,
         Aspect!Emitting, ~Aspect!Emitting', packets' = Append(packets, Emitted)
  PROVE  InFlight' = InFlight /\ (InStep \/ OneLost)'
<1>2. InFlight \in Nat /\ Len(packets) \in Nat
  BY InFlightInt
<1>3. /\ Len(packets') = Len(packets) + 1 /\ packets'[Len(packets) + 1] = Emitted
      /\ \A i \in 1 .. Len(packets) : packets'[i] = packets[i]
  BY DEF AspectTypes
<1>1. InFlight' = InFlight /\ InFlight = Len(packets) + 1
  BY <1>2, <1>3 DEF InFlight
<1>4. ASSUME NEW i, NEW j \in 1 .. InFlight
      PROVE  Matches(i, j)' <=> Matches(i, j)
  <2>1. Coming(j)' = Coming(j)
    BY <1>1, <1>2, <1>3 DEF Coming
  <2> QED BY <2>1 DEF Matches
<1>5. CASE InStep
  BY <1>1, <1>4, <1>5 DEF InStep
<1>6. CASE OneLost
  <2>1. PICK k \in 1 .. InFlight + 1 : /\ \A i \in 1 .. k - 1 : Matches(i, i)
                                       /\ \A i \in k .. InFlight : Matches(i + 1, i)
    BY <1>6 DEF OneLost
  <2>2. \A i \in 1 .. k - 1 : i \in 1 .. InFlight
    BY <1>2
  <2>3. \A i \in k .. InFlight : i \in 1 .. InFlight
    BY <1>2
  <2>4. \A i \in 1 .. k - 1 : Matches(i, i)'
    BY <2>1, <2>2, <1>4
  <2>5. \A i \in k .. InFlight : Matches(i + 1, i)'
    BY <2>1, <2>3, <1>4
  <2> QED BY <1>1, <2>1, <2>4, <2>5, <1>6 DEF OneLost
<1> QED BY <1>1, <1>5, <1>6

(* A packet is only lost while none is missing: its entry is the one more.  *)
LEMMA QueueLoses ==
  ASSUME AspectTypes, InStep \/ OneLost, Aspect!LosePacket
  PROVE  /\ InFlight' <= InFlight /\ (InStep \/ OneLost)'
         /\ packets' \in Seq(SwapPackets)
<1> DEFINE N == Len(packets)
<1>1. InFlight \in Nat /\ N \in Nat /\ packets \in Seq(SwapPackets)
  BY InFlightInt DEF AspectTypes
<1>2. Len(queue.entries) = InFlight /\ InStep
  <2>1. Len(queue.entries) = InFlight
    BY DEF Aspect!LosePacket, InFlight
  <2> QED BY <2>1, <1>1 DEF OneLost
<1>3. PICK l \in 1 .. N : packets' = SubSeq(packets, 1, l - 1) \o SubSeq(packets, l + 1, N)
  BY DEF Aspect!LosePacket
<1>4. /\ packets' \in Seq(SwapPackets) /\ Len(packets') = N - 1
      /\ \A i \in 1 .. N - 1 : packets'[i] = packets[IF i < l THEN i ELSE i + 1]
  <2> DEFINE front == SubSeq(packets, 1, l - 1)
             back == SubSeq(packets, l + 1, N)
  <2>1. /\ front \in Seq(SwapPackets) /\ Len(front) = l - 1
        /\ \A i \in 1 .. l - 1 : front[i] = packets[i]
    BY <1>1
  <2>2. /\ back \in Seq(SwapPackets) /\ Len(back) = N - l
        /\ \A i \in 1 .. N - l : back[i] = packets[i + l]
    BY <1>1
  <2> HIDE DEF front, back
  <2>3. packets' = front \o back
    BY <1>3 DEF front, back
  <2>4. /\ packets' \in Seq(SwapPackets) /\ Len(packets') = N - 1
        /\ \A i \in 1 .. N - 1 : packets'[i] = IF i <= l - 1 THEN front[i] ELSE back[i - (l - 1)]
    <3>1. /\ packets' \in Seq(SwapPackets) /\ Len(packets') = Len(front) + Len(back)
          /\ \A i \in 1 .. Len(front) + Len(back) :
               packets'[i] = IF i <= Len(front) THEN front[i] ELSE back[i - Len(front)]
      BY <2>1, <2>2, <2>3, ConcatProperties
    <3>2. Len(front) = l - 1 /\ Len(front) + Len(back) = N - 1
      BY <2>1, <2>2, <1>1
    <3> QED BY <3>1, <3>2
  <2>5. ASSUME NEW i \in 1 .. N - 1
        PROVE  packets'[i] = packets[IF i < l THEN i ELSE i + 1]
    <3>1. CASE i < l
      BY <3>1, <2>1, <2>4, <1>1
    <3>2. CASE ~(i < l)
      <4>1. i - (l - 1) \in 1 .. N - l /\ i - (l - 1) + l = i + 1
        BY <3>2, <1>1
      <4> QED BY <4>1, <3>2, <2>2, <2>4, <1>1
    <3> QED BY <3>1, <3>2
  <2> QED BY <2>4, <2>5
<1>5. /\ UNCHANGED <<queue, faults>> /\ faults = "losses" /\ Emitted' = Emitted
      /\ (Aspect!Emitting' <=> Aspect!Emitting)
  BY DEF Aspect!LosePacket, Emitted, Aspect!Emitting
<1>6. InFlight' = InFlight - 1 /\ InFlight' \in Nat /\ l \in 1 .. InFlight
  BY <1>1, <1>4, <1>5 DEF InFlight
<1>7. ASSUME NEW j \in 1 .. InFlight - 1
      PROVE  Coming(j)' = Coming(IF j < l THEN j ELSE j + 1)
  <2>1. CASE j <= N - 1
    BY <2>1, <1>1, <1>4 DEF Coming
  <2>2. CASE ~(j <= N - 1)
    BY <2>2, <1>1, <1>4, <1>5 DEF Coming
  <2> QED BY <2>1, <2>2
<1>8. \A i \in 1 .. l - 1 : Matches(i, i)'
  <2>1. ASSUME NEW i \in 1 .. l - 1 PROVE Matches(i, i)'
    <3>1. Coming(i)' = Coming(i) /\ Matches(i, i)
      BY <1>1, <1>2, <1>6, <1>7 DEF InStep
    <3> QED BY <3>1, <1>5 DEF Matches
  <2> QED BY <2>1
<1>9. \A i \in l .. InFlight - 1 : Matches(i + 1, i)'
  <2>1. ASSUME NEW i \in l .. InFlight - 1 PROVE Matches(i + 1, i)'
    <3>1. i \in 1 .. InFlight - 1 /\ ~(i < l) /\ i + 1 \in 1 .. InFlight
      BY <1>1, <1>6
    <3>2. Coming(i)' = Coming(i + 1) /\ Matches(i + 1, i + 1)
      BY <3>1, <1>2, <1>7 DEF InStep
    <3> QED BY <3>2, <1>5 DEF Matches
  <2> QED BY <2>1
<1>10. OneLost'
  <2>1. l \in 1 .. InFlight' + 1 /\ Len(queue'.entries) = InFlight' + 1
    BY <1>1, <1>2, <1>5, <1>6
  <2> QED BY <2>1, <1>5, <1>6, <1>8, <1>9 DEF OneLost
<1> QED BY <1>4, <1>6, <1>1, <1>10

LEMMA ResynchronisedAt ==
  ASSUME NEW entries \in Seq(Entries), NEW front, NEW m \in 1 .. Len(entries),
         entries[m].front = front, \A i \in 1 .. m - 1 : entries[i].front # front
  PROVE  Aspect!Resynchronised(entries, front) = SubSeq(entries, m, Len(entries))
<1> DEFINE matches == {i \in 1 .. Len(entries) : entries[i].front = front}
           first == CHOOSE i \in matches : \A j \in matches : i <= j
<1>1. m \in matches /\ \A j \in matches : m <= j
  <2>1. ASSUME NEW j \in matches, ~(m <= j) PROVE FALSE
    <3>1. j \in 1 .. m - 1
      BY <2>1
    <3> QED BY <3>1
  <2> QED BY <2>1
<1>2. first \in matches /\ \A j \in matches : first <= j
  BY <1>1
<1>3. first = m
  <2>1. first \in Int /\ m \in Int /\ first <= m /\ m <= first
    BY <1>1, <1>2
  <2> QED BY <2>1
<1>4. Aspect!Resynchronised(entries, front)
        = IF matches = {} THEN entries ELSE SubSeq(entries, first, Len(entries))
  BY DEF Aspect!Resynchronised
<1> QED BY <1>1, <1>3, <1>4

(* What the command processor takes for a packet, m being 2 if the packet   *)
(* before it was lost and its entry has another frontbuffer.                *)
LEMMA QueueTaken ==
  ASSUME AspectTypes, InStep \/ OneLost, TagsTell, Aspect!TakePresentAspect
  PROVE  /\ InFlight' = InFlight - 1 /\ (InStep \/ OneLost)'
         /\ packets' \in Seq(SwapPackets) /\ queue'.entries \in Seq(Entries)
         /\ presented' \in [aspect : AllAspects, drawn : SUBSET AllAspects]
         /\ queue' \in [entries : Seq(Entries), last_pushed : AllAspects, last : AllAspects,
                        taken : BOOLEAN]
         /\ queue'.last_pushed = queue.last_pushed
         /\ PresentedInv' /\ TagsTell'
<1> DEFINE Q == queue.entries
           L == Len(queue.entries)
           N == InFlight
<1>1. /\ N \in Nat /\ L \in Nat /\ Len(packets) \in Nat
      /\ packets \in Seq(SwapPackets) /\ Q \in Seq(Entries)
  BY InFlightInt DEF AspectTypes
<1>2. packets # <<>> /\ Len(packets) >= 1 /\ N >= 1
  BY <1>1 DEF Aspect!TakePresentAspect, InFlight
<1>3. /\ packets' = Tail(packets) /\ packets' \in Seq(SwapPackets)
      /\ Len(packets') = Len(packets) - 1
      /\ \A i \in 1 .. Len(packets) - 1 : packets'[i] = packets[i + 1]
      /\ Head(packets) = packets[1] /\ packets[1] \in SwapPackets
  BY <1>1, <1>2 DEF Aspect!TakePresentAspect
<1>4. /\ UNCHANGED <<settings, latched, title, hud, worker, faults>>
      /\ Emitted' = Emitted /\ (Aspect!Emitting' <=> Aspect!Emitting)
  BY DEF Aspect!TakePresentAspect, Emitted, Aspect!Emitting
<1>5. InFlight' = N - 1
  BY <1>1, <1>3, <1>4 DEF InFlight
<1>6. Coming(1) = packets[1]
  BY <1>1, <1>2 DEF Coming
<1>7. ASSUME NEW j \in 1 .. N - 1
      PROVE  Coming(j)' = Coming(j + 1)
  <2>1. CASE j <= Len(packets) - 1
    BY <2>1, <1>1, <1>3 DEF Coming
  <2>2. CASE ~(j <= Len(packets) - 1)
    BY <2>2, <1>1, <1>3, <1>4 DEF Coming
  <2> QED BY <2>1, <2>2
<1>8. PICK m \in {1, 2} :
        /\ m <= L /\ Q[m].front = packets[1].front /\ packets[1].drawn \subseteq {Q[m].aspect}
        /\ \A i \in 1 .. m - 1 : Q[i].front # packets[1].front
        /\ \/ L - m = N - 1 /\ \A i \in 1 .. N - 1 : Matches(i + m, i + 1)
           \/ /\ L - m = N /\ faults = "losses"
              /\ \E k \in 1 .. N : /\ \A i \in 1 .. k - 1 : Matches(i + m, i + 1)
                                   /\ \A i \in k .. N - 1 : Matches(i + 1 + m, i + 1)
  <2>1. CASE InStep
    <3>1. L = N /\ \A i \in 1 .. N : Matches(i, i)
      BY <2>1 DEF InStep
    <3>2. Matches(1, 1)
      BY <3>1, <1>1, <1>2
    <3>3. \A i \in 1 .. N - 1 : Matches(i + 1, i + 1)
      BY <3>1, <1>1
    <3>4. Q[1].front = packets[1].front /\ packets[1].drawn \subseteq {Q[1].aspect}
      BY <3>2, <1>6 DEF Matches
    <3> QED BY <3>1, <3>3, <3>4, <1>1, <1>2
  <2>2. CASE OneLost
    <3>1. PICK k \in 1 .. N + 1 : /\ \A i \in 1 .. k - 1 : Matches(i, i)
                                  /\ \A i \in k .. N : Matches(i + 1, i)
      BY <2>2 DEF OneLost
    <3>2. faults = "losses" /\ L = N + 1
      BY <2>2 DEF OneLost
    <3>3. CASE k > 1
      <4>1. Matches(1, 1)
        BY <3>1, <3>3, <1>1
      <4>2. Q[1].front = packets[1].front /\ packets[1].drawn \subseteq {Q[1].aspect}
        BY <4>1, <1>6 DEF Matches
      <4>3. k - 1 \in 1 .. N /\ \A i \in 1 .. (k - 1) - 1 : Matches(i + 1, i + 1)
        BY <3>1, <3>3, <1>1
      <4>4. \A i \in k - 1 .. N - 1 : Matches(i + 1 + 1, i + 1)
        BY <3>1, <3>3, <1>1
      <4>5. \E l \in 1 .. N : /\ \A i \in 1 .. l - 1 : Matches(i + 1, i + 1)
                             /\ \A i \in l .. N - 1 : Matches(i + 1 + 1, i + 1)
        BY <4>3, <4>4
      <4>6. 1 <= L /\ L - 1 = N /\ \A i \in 1 .. 1 - 1 : FALSE
        BY <3>2, <1>1
      <4> QED BY <4>2, <4>5, <4>6, <3>2
    <3>4. CASE k = 1
      <4>1. \A i \in 1 .. N : Matches(i + 1, i)
        BY <3>1, <3>4
      <4>2. Matches(2, 1)
        <5>1. Matches(1 + 1, 1)
          BY <4>1, <1>1, <1>2
        <5> QED BY <5>1
      <4>3. Q[2].front = packets[1].front /\ packets[1].drawn \subseteq {Q[2].aspect}
        BY <4>2, <1>6 DEF Matches
      <4>4. CASE Q[1].front = packets[1].front
        <5>1. 1 \in 1 .. L - 1 /\ Q[1].front = Q[1 + 1].front
          BY <4>3, <4>4, <3>2, <1>1, <1>2
        <5>2. Q[1].aspect = Q[2].aspect
          BY <5>1, <3>2 DEF TagsTell
        <5>3. \A i \in 1 .. N - 1 : Matches(i + 1 + 1, i + 1)
          BY <4>1, <1>1
        <5>4. 1 \in 1 .. N /\ \A i \in 1 .. 1 - 1 : FALSE
          BY <1>1, <1>2
        <5> QED BY <4>3, <4>4, <5>2, <5>3, <5>4, <3>2, <1>1, <1>2
      <4>5. CASE Q[1].front # packets[1].front
        <5>1. \A i \in 1 .. N - 1 : Matches(i + 2, i + 1)
          <6>1. ASSUME NEW i \in 1 .. N - 1 PROVE Matches(i + 2, i + 1)
            <7>1. Matches((i + 1) + 1, i + 1) /\ (i + 1) + 1 = i + 2
              BY <4>1, <1>1
            <7> QED BY <7>1
          <6> QED BY <6>1
        <5>2. \A i \in 1 .. 2 - 1 : i = 1
          OBVIOUS
        <5>3. 2 <= L /\ L - 2 = N - 1
          BY <3>2, <1>1, <1>2
        <5> QED BY <4>3, <4>5, <5>1, <5>2, <5>3
      <4> QED BY <4>4, <4>5, Zenon
    <3>5. k > 1 \/ k = 1
      BY <1>1
    <3> QED BY <3>3, <3>4, <3>5, Zenon
  <2> QED BY <2>1, <2>2
<1> DEFINE taken == SubSeq(Q, m, L)
<1>9. Aspect!Resynchronised(Q, packets[1].front) = taken
  <2>1. m \in 1 .. Len(Q)
    BY <1>8, <1>1
  <2> QED BY <2>1, <1>1, <1>8, ResynchronisedAt
<1>10. /\ taken \in Seq(Entries) /\ Len(taken) = L - m + 1 /\ taken # <<>>
       /\ \A i \in 1 .. L - m + 1 : taken[i] = Q[i + m - 1]
  <2>1. /\ m \in 1 .. L + 1 /\ L \in m - 1 .. Len(Q)
    BY <1>1, <1>8
  <2>2. /\ SubSeq(Q, m, L) \in Seq(Entries) /\ Len(SubSeq(Q, m, L)) = L - m + 1
        /\ \A i \in 1 .. L - m + 1 : SubSeq(Q, m, L)[i] = Q[m + i - 1]
    BY <1>1, <2>1, <1>8, SubSeqProperties
  <2>3. L - m + 1 >= 1
    BY <1>1, <1>8
  <2>4. SubSeq(Q, m, L) # <<>>
    <3> DEFINE s == SubSeq(Q, m, L)
    <3>1. Len(s) >= 1
      BY <2>2, <2>3
    <3> HIDE DEF s
    <3>2. s # <<>>
      BY <3>1
    <3> QED BY <3>2 DEF s
  <2>5. \A i \in 1 .. L - m + 1 : m + i - 1 = i + m - 1
    BY <1>1
  <2> QED BY <2>2, <2>4, <2>5
<1>11. Head(taken) = Q[m] /\ Q[m] \in Entries
  BY <1>1, <1>8, <1>10
<1>12. /\ Tail(taken) \in Seq(Entries) /\ Len(Tail(taken)) = L - m
       /\ \A i \in 1 .. L - m : Tail(taken)[i] = Q[i + m]
  <2>1. /\ Tail(taken) \in Seq(Entries) /\ Len(Tail(taken)) = L - m
        /\ \A i \in 1 .. L - m : Tail(taken)[i] = taken[i + 1]
    <3> HIDE DEF taken
    <3> QED BY <1>1, <1>8, <1>10
  <2>2. ASSUME NEW i \in 1 .. L - m PROVE taken[i + 1] = Q[i + m]
    <3>1. i + 1 \in 1 .. L - m + 1 /\ (i + 1) + m - 1 = i + m
      BY <1>1
    <3> QED BY <3>1, <1>10
  <2> QED BY <2>1, <2>2
<1> HIDE DEF taken
<1>13. /\ presented' = [aspect |-> Q[m].aspect, drawn |-> packets[1].drawn]
       /\ queue' = [queue EXCEPT !.entries = Tail(taken), !.last = Q[m].aspect, !.taken = TRUE]
  BY <1>3, <1>9, <1>10, <1>11 DEF Aspect!TakePresentAspect
<1>14. /\ queue'.entries = Tail(taken) /\ queue'.last_pushed = queue.last_pushed
       /\ queue' \in [entries : Seq(Entries), last_pushed : AllAspects, last : AllAspects,
                      taken : BOOLEAN]
  BY <1>11, <1>12, <1>13 DEF AspectTypes, Entries
<1>15. /\ presented' \in [aspect : AllAspects, drawn : SUBSET AllAspects] /\ PresentedInv'
  BY <1>3, <1>8, <1>11, <1>13 DEF Entries, SwapPackets, PresentedInv
<1>16. ASSUME NEW i \in 1 .. L - m, NEW j \in 1 .. N - 1, Matches(i + m, j + 1)
       PROVE  Matches(i, j)'
  BY <1>7, <1>12, <1>14, <1>16 DEF Matches
<1>17. (InStep \/ OneLost)'
  <2>1. CASE L - m = N - 1 /\ \A i \in 1 .. N - 1 : Matches(i + m, i + 1)
    BY <2>1, <1>5, <1>12, <1>14, <1>16 DEF InStep
  <2>2. ASSUME L - m = N, faults = "losses", NEW k \in 1 .. N,
               \A i \in 1 .. k - 1 : Matches(i + m, i + 1),
               \A i \in k .. N - 1 : Matches(i + 1 + m, i + 1)
        PROVE  OneLost'
    <3>1. \A i \in 1 .. k - 1 : Matches(i, i)'
      <4>1. ASSUME NEW i \in 1 .. k - 1 PROVE Matches(i, i)'
        <5>1. i \in 1 .. L - m /\ i \in 1 .. N - 1
          BY <2>2, <1>1
        <5> QED BY <5>1, <2>2, <1>16
      <4> QED BY <4>1
    <3>2. \A i \in k .. N - 1 : Matches(i + 1, i)'
      <4>1. ASSUME NEW i \in k .. N - 1 PROVE Matches(i + 1, i)'
        <5>1. i + 1 \in 1 .. L - m /\ i \in 1 .. N - 1
          BY <2>2, <1>1
        <5> QED BY <5>1, <2>2, <1>16
      <4> QED BY <4>1
    <3>3. k \in 1 .. InFlight' + 1 /\ Len(queue'.entries) = InFlight' + 1 /\ faults' = "losses"
      BY <2>2, <1>1, <1>4, <1>5, <1>12, <1>14
    <3> QED BY <3>1, <3>2, <3>3, <1>5 DEF OneLost
  <2> QED BY <1>8, <2>1, <2>2
<1>18. TagsTell'
  <2> SUFFICES ASSUME faults = "losses"
               PROVE  /\ LastFront'
                      /\ (worker.holds /\ title.pc # "emit" =>
                            worker.front = IF title.pc = "render" THEN 1 - title.front
                                           ELSE title.front)'
                      /\ \A i \in 1 .. Len(queue'.entries) - 1 :
                           queue'.entries[i].front = queue'.entries[i + 1].front
                             => queue'.entries[i].aspect = queue'.entries[i + 1].aspect
    BY <1>4 DEF TagsTell
  <2>1. LastFront'
    <3> SUFFICES ASSUME queue'.entries # <<>>
                 PROVE  LastFront'
      BY DEF LastFront
    <3>1. L - m >= 1
      <4>1. L - m # 0
        BY <1>12, <1>14
      <4> QED BY <4>1, <1>1, <1>8
    <3>2. Len(queue'.entries) = L - m /\ queue'.entries[L - m] = Q[L]
      <4>1. L - m \in 1 .. L - m /\ L - m + m = L
        BY <3>1, <1>1
      <4> QED BY <4>1, <1>12, <1>14
    <3>3. Q # <<>> /\ LastFront
      <4>1. Q # <<>>
        BY <3>1, <1>1
      <4> QED BY <4>1 DEF TagsTell
    <3> QED BY <3>2, <3>3, <1>4, <1>14 DEF LastFront
  <2>2. ASSUME NEW i \in 1 .. Len(queue'.entries) - 1
        PROVE  queue'.entries[i].front = queue'.entries[i + 1].front
                 => queue'.entries[i].aspect = queue'.entries[i + 1].aspect
    <3>1. /\ i \in 1 .. L - m /\ i + 1 \in 1 .. L - m /\ i + m \in 1 .. L - 1
          /\ (i + 1) + m = (i + m) + 1
      <4>1. Len(queue'.entries) = L - m
        BY <1>12, <1>14
      <4>2. m \in {1, 2} /\ m <= L
        BY <1>8
      <4> QED BY <1>1, <4>1, <4>2
    <3>2. queue'.entries[i] = Q[i + m] /\ queue'.entries[i + 1] = Q[(i + m) + 1]
      <4>1. queue'.entries = Tail(taken) /\ \A j \in 1 .. L - m : Tail(taken)[j] = Q[j + m]
        BY <1>12, <1>14, Zenon
      <4>2. queue'.entries[i] = Q[i + m] /\ queue'.entries[i + 1] = Q[(i + 1) + m]
        BY <3>1, <4>1, Zenon
      <4> QED BY <3>1, <4>2, Zenon
    <3> QED BY <3>1, <3>2 DEF TagsTell
  <2>3. worker.holds /\ title.pc # "emit" =>
          worker.front = IF title.pc = "render" THEN 1 - title.front ELSE title.front
    BY DEF TagsTell
  <2> QED BY <2>1, <2>2, <2>3, <1>4
<1> QED BY <1>3, <1>5, <1>12, <1>14, <1>15, <1>17, <1>18

LEMMA AspectSettingsStep ==
  ASSUME AspectInv,
         Aspect!ChangeSettings \/ Aspect!RenderCamera \/ Aspect!BeginHudPass
           \/ Aspect!SetOtherView \/ Aspect!EndHudPass \/ Aspect!ReleaseDevice \/ Aspect!Latch
  PROVE  AspectInv'
<1>0. AspectTypes /\ HudFollows /\ DrawnForOne /\ QueueInv /\ PresentedInv
  BY DEF AspectInv
<1>1. /\ UNCHANGED <<queue, packets, presented, faults, worker>>
      /\ title' \in Titles /\ hud' \in Huds
      /\ latched' \in [aspect : AllAspects, center : BOOLEAN]
      /\ settings' \in [aspect : AllAspects, center : BOOLEAN, suspended : BOOLEAN,
                        available : BOOLEAN, changes : Nat]
      /\ (title.pc # "emit" /\ title'.pc # "emit") \/ title' = title
      /\ title' # title => \/ title'.front = title.front /\ (title'.pc = "render" <=> title.pc = "render")
                           \/ /\ title.pc = "latch" /\ title'.pc = "render"
                              /\ title'.front = 1 - title.front
      /\ HudFollows' /\ DrawnForOne'
  <2>1. CASE Aspect!ChangeSettings
    <3>1. UNCHANGED <<latched, title, hud, worker, queue, packets, presented, faults>>
      BY <2>1 DEF Aspect!ChangeSettings
    <3>2. settings' \in [aspect : AllAspects, center : BOOLEAN, suspended : BOOLEAN,
                         available : BOOLEAN, changes : Nat]
      <4> DEFINE S == [aspect : AllAspects, center : BOOLEAN, suspended : BOOLEAN,
                       available : BOOLEAN, changes : Nat]
      <4>1. settings \in S
        BY <1>0 DEF AspectTypes
      <4>2. Aspect!ToggledByF9(settings) \in S /\ [settings EXCEPT !.center = ~@] \in S
        <5>1. [settings EXCEPT !.suspended = FALSE] \in S
          BY <4>1
        <5>2. (~settings.suspended) \in BOOLEAN /\ (~settings.center) \in BOOLEAN
          BY <4>1
        <5>3. [settings EXCEPT !.suspended = ~@] \in S
          BY <4>1, <5>2
        <5>4. [settings EXCEPT !.center = ~@] \in S
          BY <4>1, <5>2
        <5> QED BY <5>1, <5>3, <5>4 DEF Aspect!ToggledByF9
      <4>3. \A a \in Aspects \union {Base} : [settings EXCEPT !.aspect = a] \in S
        BY <4>1 DEF AllAspects
      <4>4. PICK s \in S : settings' = [s EXCEPT !.changes = @ + 1]
        <5> HIDE DEF S
        <5> QED BY <2>1, <4>2, <4>3, Zenon DEF Aspect!ChangeSettings
      <4> QED BY <4>4
    <3> QED BY <1>0, <3>1, <3>2 DEF AspectTypes, HudFollows, DrawnForOne
  <2>2. CASE Aspect!RenderCamera
    <3>1. /\ UNCHANGED <<settings, latched, hud, worker, queue, packets, presented, faults>>
          /\ title.pc = "render" /\ title' \in Titles /\ title'.pc = "render"
          /\ title'.front = title.front /\ title'.released = title.released
          /\ title'.drawn = title.drawn \union {latched.aspect}
      BY <1>0, <2>2 DEF Aspect!RenderCamera, Aspect!Rendering, AspectTypes, Titles
    <3> QED BY <1>0, <3>1 DEF AspectTypes, HudFollows, DrawnForOne
  <2>3. CASE Aspect!BeginHudPass
    <3>1. /\ UNCHANGED <<settings, latched, worker, queue, packets, presented, faults>>
          /\ title.pc = "render" /\ title' \in Titles /\ title'.pc = "render"
          /\ title'.front = title.front /\ title'.released = title.released
          /\ title'.drawn = title.drawn \union {latched.aspect}
      BY <1>0, <2>3 DEF Aspect!BeginHudPass, Aspect!Rendering, AspectTypes, Titles
    <3>2. hud' \in Huds /\ HudFollows'
      <4> DEFINE squeezes == latched.center /\ latched.aspect # Base
      <4>1. /\ hud \in Huds /\ latched.aspect \in AllAspects /\ squeezes \in BOOLEAN
            /\ Base \in AllAspects
        BY <1>0 DEF AspectTypes, AllAspects
      <4>2. hud' = [pass |-> squeezes, squeezed |-> squeezes,
                    kh |-> IF squeezes THEN latched.aspect ELSE hud.kh,
                    saved |-> IF squeezes THEN latched.aspect ELSE hud.saved,
                    in_pass |-> TRUE, view |-> IF squeezes THEN latched.aspect ELSE Base]
        BY <2>3 DEF Aspect!BeginHudPass
      <4>3. CASE squeezes
        BY <4>1, <4>2, <4>3 DEF Huds, HudFollows
      <4>4. CASE ~squeezes
        BY <4>1, <4>2, <4>4 DEF Huds, HudFollows
      <4> QED BY <4>3, <4>4
    <3> QED BY <1>0, <3>1, <3>2 DEF AspectTypes, DrawnForOne
  <2>4. CASE Aspect!SetOtherView
    <3>1. UNCHANGED <<settings, latched, title, worker, queue, packets, presented, faults>>
      BY <2>4 DEF Aspect!SetOtherView
    <3>2. hud' \in Huds /\ HudFollows'
      <4>1. hud \in Huds /\ Base \in AllAspects
        BY <1>0 DEF AspectTypes, AllAspects
      <4>2. PICK view \in {Base} \union (IF hud.pass THEN {hud.saved} ELSE {}) :
              hud' = [hud EXCEPT !.view = view, !.squeezed = hud.pass /\ view = hud.saved]
        BY <2>4 DEF Aspect!SetOtherView, Aspect!FollowsView
      <4>3. CASE hud.pass
        BY <4>1, <4>2, <4>3, <1>0 DEF Huds, HudFollows
      <4>4. CASE ~hud.pass
        BY <4>1, <4>2, <4>4, <1>0 DEF Huds, HudFollows
      <4> QED BY <4>3, <4>4
    <3> QED BY <1>0, <3>1, <3>2 DEF AspectTypes, DrawnForOne
  <2>5. CASE Aspect!EndHudPass
    <3>1. UNCHANGED <<settings, latched, title, worker, queue, packets, presented, faults>>
      BY <2>5 DEF Aspect!EndHudPass
    <3>2. hud' \in Huds /\ HudFollows'
      <4>1. hud \in Huds /\ Base \in AllAspects
        BY <1>0 DEF AspectTypes, AllAspects
      <4>2. /\ hud' = [hud EXCEPT !.pass = FALSE, !.view = Base, !.in_pass = FALSE,
                         !.squeezed = Aspect!FollowsView([hud EXCEPT !.pass = FALSE], Base)]
            /\ ~Aspect!FollowsView([hud EXCEPT !.pass = FALSE], Base)
            /\ Aspect!FollowsView([hud EXCEPT !.pass = FALSE], Base) \in BOOLEAN
        BY <2>5, <4>1 DEF Aspect!EndHudPass, Aspect!FollowsView, Huds
      <4> QED BY <4>1, <4>2 DEF Huds, HudFollows
    <3> QED BY <1>0, <3>1, <3>2 DEF AspectTypes, DrawnForOne
  <2>6. CASE Aspect!ReleaseDevice
    <3>1. /\ UNCHANGED <<settings, latched, hud, worker, queue, packets, presented, faults>>
          /\ title.pc = "render" /\ worker.pc = "idle" /\ title' \in Titles
          /\ title'.pc = "render" /\ title'.front = title.front /\ title'.drawn = title.drawn
      BY <1>0, <2>6 DEF Aspect!ReleaseDevice, AspectTypes, Titles
    <3> QED BY <1>0, <3>1 DEF AspectTypes, HudFollows, DrawnForOne
  <2>7. CASE Aspect!Latch
    <3>1. /\ UNCHANGED <<settings, hud, worker, queue, packets, presented, faults>>
          /\ title.pc = "latch" /\ latched' = Aspect!Compute(settings)
          /\ title' = [pc |-> "render", front |-> 1 - title.front, drawn |-> {}, released |-> FALSE]
      BY <2>7 DEF Aspect!Latch
    <3>2. latched' \in [aspect : AllAspects, center : BOOLEAN]
      BY <1>0, <3>1, ComputedAspect
    <3>3. title' \in Titles
      BY <1>0, <3>1 DEF AspectTypes, Titles
    <3>4. worker.pc # "emit"
      BY <1>0, <3>1 DEF DrawnForOne, AspectTypes, Titles
    <3> QED BY <1>0, <3>1, <3>2, <3>3, <3>4 DEF AspectTypes, HudFollows, DrawnForOne
  <2> QED BY <2>1, <2>2, <2>3, <2>4, <2>5, <2>6, <2>7
<1>2. AspectTypes'
  BY <1>0, <1>1 DEF AspectTypes
<1>3. (Aspect!Emitting' <=> Aspect!Emitting) /\ (Aspect!Emitting => Emitted' = Emitted)
  BY <1>1 DEF Aspect!Emitting, Emitted
<1>4. InFlight' = InFlight /\ (InStep \/ OneLost)'
  BY <1>0, <1>1, <1>3, QueueStays DEF QueueInv
<1>5. TagsTell'
  <2>1. TagsTell /\ title.front \in {0, 1}
    BY <1>0 DEF QueueInv, AspectTypes, Titles
  <2> QED BY <2>1, <1>1 DEF TagsTell, LastFront
<1> QED BY <1>0, <1>1, <1>2, <1>4, <1>5 DEF AspectInv, QueueInv, PresentedInv

LEMMA AspectEmitStep ==
  ASSUME AspectInv, Aspect!EmitPacket \/ Aspect!EmitRepresent
  PROVE  AspectInv'
<1>0. AspectTypes /\ HudFollows /\ DrawnForOne /\ QueueInv /\ PresentedInv
  BY DEF AspectInv
<1>1. CASE Aspect!EmitPacket
  <2>1. /\ title.pc = "emit" /\ UNCHANGED <<settings, latched, hud, queue, presented, faults>>
        /\ packets' = Append(packets, [front |-> title.front, drawn |-> title.drawn])
        /\ worker' = [worker EXCEPT !.holds = TRUE, !.front = title.front, !.drawn = title.drawn]
        /\ title' = [title EXCEPT !.pc = "latch"]
    BY <1>1 DEF Aspect!EmitPacket
  <2>2. title \in Titles /\ worker \in Workers /\ packets \in Seq(SwapPackets)
    BY <1>0 DEF AspectTypes
  <2>3. /\ title' \in Titles /\ title'.pc = "latch" /\ title'.front = title.front
        /\ title'.released = title.released /\ title'.drawn = title.drawn
        /\ worker' \in Workers /\ worker'.pc = worker.pc /\ worker'.holds = TRUE
        /\ worker'.front = title.front /\ worker'.drawn = title.drawn
    BY <2>1, <2>2 DEF Titles, Workers
  <2>4. packets' \in Seq(SwapPackets)
    <3>1. [front |-> title.front, drawn |-> title.drawn] \in SwapPackets
      BY <2>2 DEF Titles, SwapPackets
    <3> QED BY <2>1, <2>2, <3>1
  <2>5. AspectTypes'
    BY <1>0, <2>1, <2>3, <2>4 DEF AspectTypes
  <2>6. worker.pc # "emit"
    BY <1>0, <2>1 DEF DrawnForOne
  <2>7. Aspect!Emitting /\ ~Aspect!Emitting' /\ packets' = Append(packets, Emitted)
    BY <2>1, <2>3, <2>6 DEF Aspect!Emitting, Emitted
  <2>8. InFlight' = InFlight /\ (InStep \/ OneLost)'
    BY <1>0, <2>1, <2>7, QueueEmits DEF QueueInv
  <2>9. DrawnForOne' /\ HudFollows'
    BY <1>0, <2>1, <2>3, <2>6 DEF DrawnForOne, HudFollows
  <2>10. TagsTell'
    BY <1>0, <2>1, <2>3 DEF QueueInv, TagsTell, LastFront
  <2> QED BY <1>0, <2>1, <2>5, <2>8, <2>9, <2>10 DEF AspectInv, QueueInv, PresentedInv
<1>2. CASE Aspect!EmitRepresent
  <2>1. /\ worker.pc = "emit"
        /\ UNCHANGED <<settings, latched, title, hud, queue, presented, faults>>
        /\ packets' = Append(packets, [front |-> worker.front, drawn |-> worker.drawn])
        /\ worker' = [worker EXCEPT !.pc = "idle"]
    BY <1>2 DEF Aspect!EmitRepresent
  <2>2. worker \in Workers /\ packets \in Seq(SwapPackets)
    BY <1>0 DEF AspectTypes
  <2>3. /\ worker' \in Workers /\ worker'.pc = "idle" /\ worker'.holds = worker.holds
        /\ worker'.front = worker.front /\ worker'.drawn = worker.drawn
    BY <2>1, <2>2 DEF Workers
  <2>4. packets' \in Seq(SwapPackets)
    <3>1. [front |-> worker.front, drawn |-> worker.drawn] \in SwapPackets
      BY <2>2 DEF Workers, SwapPackets
    <3> QED BY <2>1, <2>2, <3>1
  <2>5. AspectTypes'
    BY <1>0, <2>1, <2>3, <2>4 DEF AspectTypes
  <2>6. title.pc = "render"
    BY <1>0, <2>1 DEF DrawnForOne
  <2>7. Aspect!Emitting /\ ~Aspect!Emitting' /\ packets' = Append(packets, Emitted)
    BY <2>1, <2>3, <2>6 DEF Aspect!Emitting, Emitted
  <2>8. InFlight' = InFlight /\ (InStep \/ OneLost)'
    BY <1>0, <2>1, <2>7, QueueEmits DEF QueueInv
  <2>9. DrawnForOne' /\ HudFollows'
    BY <1>0, <2>1, <2>3 DEF DrawnForOne, HudFollows
  <2>10. TagsTell'
    BY <1>0, <2>1, <2>3 DEF QueueInv, TagsTell, LastFront
  <2> QED BY <1>0, <2>1, <2>5, <2>8, <2>9, <2>10 DEF AspectInv, QueueInv, PresentedInv
<1> QED BY <1>1, <1>2

(* The queue never has to drop an entry. *)
LEMMA PushPresentAppends ==
  ASSUME AspectTypes, QueueInv, Len(packets) < MaxInFlight, ~Aspect!Emitting,
         NEW front \in {0, 1}, NEW aspect \in AllAspects, Aspect!PushPresent(front, aspect)
  PROVE  /\ queue'.entries = Append(queue.entries, [front |-> front, aspect |-> aspect])
         /\ queue'.last_pushed = aspect
         /\ queue' \in [entries : Seq(Entries), last_pushed : AllAspects, last : AllAspects,
                        taken : BOOLEAN]
         /\ Len(queue'.entries) = Len(queue.entries) + 1
         /\ \A i \in 1 .. Len(queue.entries) : queue'.entries[i] = queue.entries[i]
         /\ queue'.entries[Len(queue.entries) + 1] = [front |-> front, aspect |-> aspect]
<1>1. Len(packets) \in Nat /\ InFlight = Len(packets) /\ Len(queue.entries) \in Nat
  BY InFlightInt DEF InFlight
<1>2. Len(queue.entries) <= InFlight + 1
  BY <1>1 DEF QueueInv, InStep, OneLost
<1>3. Len(queue.entries) # Capacity
  BY <1>1, <1>2, AspectConstants
<1>4. queue' = [queue EXCEPT !.entries = Append(queue.entries, [front |-> front, aspect |-> aspect]),
                             !.last_pushed = aspect]
  BY <1>3 DEF Aspect!PushPresent
<1>5. [front |-> front, aspect |-> aspect] \in Entries
  BY DEF Entries
<1>6. queue.entries \in Seq(Entries)
  BY DEF AspectTypes
<1>7. queue'.entries = Append(queue.entries, [front |-> front, aspect |-> aspect])
      /\ queue'.last_pushed = aspect
  BY <1>4 DEF AspectTypes
<1>8. Append(queue.entries, [front |-> front, aspect |-> aspect]) \in Seq(Entries)
  BY <1>5, <1>6
<1>9. queue' \in [entries : Seq(Entries), last_pushed : AllAspects, last : AllAspects,
                  taken : BOOLEAN]
  BY <1>4, <1>8 DEF AspectTypes
<1> QED BY <1>5, <1>6, <1>7, <1>9, AppendProperties

LEMMA AspectSwapStep ==
  ASSUME AspectInv, Aspect!SwapEnter \/ Aspect!Represent
  PROVE  AspectInv'
<1>0. AspectTypes /\ HudFollows /\ DrawnForOne /\ QueueInv /\ PresentedInv
  BY DEF AspectInv
<1>1. title \in Titles /\ worker \in Workers /\ Len(packets) \in Nat /\ Len(queue.entries) \in Nat
      /\ MaxInFlight \in Nat /\ queue.entries \in Seq(Entries)
  BY <1>0, InFlightInt, AspectConstants DEF AspectTypes
<1>2. CASE Aspect!SwapEnter
  <2>1. /\ title.pc = "render" /\ ~title.released /\ Len(packets) < MaxInFlight
        /\ UNCHANGED <<settings, latched, hud, worker, packets, presented, faults>>
    BY <1>2 DEF Aspect!SwapEnter, Aspect!Rendering
  <2>2. worker.pc # "emit" /\ ~Aspect!Emitting
    BY <1>0, <2>1 DEF DrawnForOne, Aspect!Emitting
  <2>3. CASE Aspect!PushPresent(title.front, latched.aspect) /\ title' = [title EXCEPT !.pc = "emit"]
    <3> DEFINE entry == [front |-> title.front, aspect |-> latched.aspect]
    <3>1. title.front \in {0, 1} /\ latched.aspect \in AllAspects /\ entry \in Entries
      BY <1>0, <1>1 DEF Titles, AspectTypes, Entries
    <3>2. /\ queue'.entries = Append(queue.entries, entry)
          /\ queue'.last_pushed = latched.aspect
          /\ queue' \in [entries : Seq(Entries), last_pushed : AllAspects, last : AllAspects,
                         taken : BOOLEAN]
          /\ Len(queue'.entries) = Len(queue.entries) + 1
          /\ \A i \in 1 .. Len(queue.entries) : queue'.entries[i] = queue.entries[i]
          /\ queue'.entries[Len(queue.entries) + 1] = entry
      BY <1>0, <2>1, <2>2, <2>3, <3>1, PushPresentAppends
    <3>3. /\ title' \in Titles /\ title'.pc = "emit" /\ title'.front = title.front
          /\ title'.drawn = title.drawn /\ title'.released = title.released
      BY <1>1, <2>3 DEF Titles
    <3>4. AspectTypes'
      BY <1>0, <2>1, <3>2, <3>3 DEF AspectTypes
    <3>5. DrawnForOne' /\ HudFollows'
      BY <1>0, <2>1, <2>2, <3>2, <3>3 DEF DrawnForOne, HudFollows
    <3>6. Aspect!Emitting' /\ Emitted'.front = entry.front /\ Emitted'.drawn \subseteq {entry.aspect}
      BY <1>0, <2>1, <3>3 DEF Aspect!Emitting, Emitted, DrawnForOne
    <3>7. InFlight' = InFlight + 1 /\ (InStep \/ OneLost)'
      BY <1>0, <2>1, <2>2, <3>1, <3>2, <3>6, QueuePushed DEF QueueInv
    <3>8. InFlight' <= MaxInFlight
      BY <1>1, <2>1, <2>2, <3>7 DEF InFlight
    <3>9. TagsTell'
      <4> SUFFICES ASSUME faults = "losses" PROVE TagsTell'
        BY <2>1 DEF TagsTell
      <4>1. TagsTell
        BY <1>0 DEF QueueInv
      <4>2. LastFront'
        BY <1>1, <3>2, <3>3 DEF LastFront
      <4>3. ASSUME NEW i \in 1 .. Len(queue'.entries) - 1
            PROVE  queue'.entries[i].front = queue'.entries[i + 1].front
                     => queue'.entries[i].aspect = queue'.entries[i + 1].aspect
        <5>1. CASE i < Len(queue.entries)
          <6>1. i \in 1 .. Len(queue.entries) - 1 /\ i + 1 \in 1 .. Len(queue.entries)
            BY <5>1, <1>1
          <6>2. queue'.entries[i] = queue.entries[i] /\ queue'.entries[i + 1] = queue.entries[i + 1]
            BY <6>1, <1>1, <3>2
          <6> QED BY <6>1, <6>2, <4>1 DEF TagsTell
        <5>2. CASE i = Len(queue.entries)
          <6>1. queue.entries # <<>> /\ queue.entries[i].front = 1 - title.front
            BY <5>2, <4>1, <1>1, <2>1 DEF TagsTell, LastFront
          <6>2. queue'.entries[i].front # queue'.entries[i + 1].front
            BY <5>2, <6>1, <1>1, <3>1, <3>2
          <6> QED BY <6>2
        <5> QED BY <5>1, <5>2, <1>1, <3>2
      <4> QED BY <4>2, <4>3, <3>3 DEF TagsTell
    <3> QED BY <1>0, <2>1, <3>4, <3>5, <3>7, <3>8, <3>9 DEF AspectInv, QueueInv, PresentedInv
  <2>4. CASE /\ faults = "silence" /\ title' = [title EXCEPT !.pc = "latch"] /\ UNCHANGED queue
    <3>1. /\ title' \in Titles /\ title'.pc = "latch" /\ title'.front = title.front
          /\ title'.drawn = title.drawn /\ title'.released = title.released
      BY <1>1, <2>4 DEF Titles
    <3>2. AspectTypes'
      BY <1>0, <2>1, <2>4, <3>1 DEF AspectTypes
    <3>3. DrawnForOne' /\ HudFollows'
      BY <1>0, <2>1, <2>2, <2>4, <3>1 DEF DrawnForOne, HudFollows
    <3>4. ~Aspect!Emitting'
      BY <2>1, <2>2, <3>1 DEF Aspect!Emitting
    <3>5. InFlight' = InFlight /\ (InStep \/ OneLost)'
      BY <1>0, <2>1, <2>2, <2>4, <3>4, QueueStays DEF QueueInv
    <3>6. TagsTell'
      BY <2>1, <2>4 DEF TagsTell
    <3> QED BY <1>0, <2>1, <3>2, <3>3, <3>5, <3>6 DEF AspectInv, QueueInv, PresentedInv
  <2> QED BY <1>2, <2>3, <2>4 DEF Aspect!SwapEnter
<1>3. CASE Aspect!Represent
  <2>1. /\ title.released /\ worker.pc = "idle" /\ worker.holds /\ Len(packets) < MaxInFlight
        /\ Aspect!PushPresent(worker.front, queue.last_pushed)
        /\ worker' = [worker EXCEPT !.pc = "emit"]
        /\ UNCHANGED <<settings, latched, title, hud, packets, presented, faults>>
    BY <1>3 DEF Aspect!Represent, Aspect!RepresentedAspect
  <2>2. title.pc = "render" /\ ~Aspect!Emitting
    BY <1>0, <2>1 DEF DrawnForOne, Aspect!Emitting
  <2> DEFINE entry == [front |-> worker.front, aspect |-> queue.last_pushed]
  <2>3. worker.front \in {0, 1} /\ queue.last_pushed \in AllAspects /\ entry \in Entries
    BY <1>0, <1>1 DEF Workers, AspectTypes, Entries
  <2>4. /\ queue'.entries = Append(queue.entries, entry)
        /\ queue'.last_pushed = queue.last_pushed
        /\ queue' \in [entries : Seq(Entries), last_pushed : AllAspects, last : AllAspects,
                       taken : BOOLEAN]
        /\ Len(queue'.entries) = Len(queue.entries) + 1
        /\ \A i \in 1 .. Len(queue.entries) : queue'.entries[i] = queue.entries[i]
        /\ queue'.entries[Len(queue.entries) + 1] = entry
    BY <1>0, <2>1, <2>2, <2>3, PushPresentAppends
  <2>5. /\ worker' \in Workers /\ worker'.pc = "emit" /\ worker'.front = worker.front
        /\ worker'.drawn = worker.drawn /\ worker'.holds = worker.holds
    BY <1>1, <2>1 DEF Workers
  <2>6. AspectTypes'
    BY <1>0, <2>1, <2>4, <2>5 DEF AspectTypes
  <2>7. DrawnForOne' /\ HudFollows'
    BY <1>0, <2>1, <2>2, <2>4, <2>5 DEF DrawnForOne, HudFollows
  <2>8. Aspect!Emitting' /\ Emitted'.front = entry.front /\ Emitted'.drawn \subseteq {entry.aspect}
    BY <1>0, <2>1, <2>2, <2>5 DEF Aspect!Emitting, Emitted, DrawnForOne
  <2>9. InFlight' = InFlight + 1 /\ (InStep \/ OneLost)'
    BY <1>0, <2>1, <2>2, <2>3, <2>4, <2>8, QueuePushed DEF QueueInv
  <2>10. InFlight' <= MaxInFlight
    BY <1>1, <2>1, <2>2, <2>9 DEF InFlight
  <2>11. TagsTell'
    <3> SUFFICES ASSUME faults = "losses" PROVE TagsTell'
      BY <2>1 DEF TagsTell
    <3>1. TagsTell /\ worker.front = 1 - title.front
      BY <1>0, <2>1, <2>2 DEF QueueInv, TagsTell
    <3>2. LastFront'
      BY <1>1, <2>1, <2>2, <2>4, <3>1 DEF LastFront
    <3>3. ASSUME NEW i \in 1 .. Len(queue'.entries) - 1
          PROVE  queue'.entries[i].front = queue'.entries[i + 1].front
                   => queue'.entries[i].aspect = queue'.entries[i + 1].aspect
      <4>1. CASE i < Len(queue.entries)
        BY <4>1, <3>1, <1>1, <2>4 DEF TagsTell
      <4>2. CASE i = Len(queue.entries)
        <5>1. queue.entries # <<>> /\ queue.entries[i].aspect = queue.last_pushed
          BY <4>2, <3>1, <1>1 DEF TagsTell, LastFront
        <5> QED BY <4>2, <5>1, <1>1, <2>4
      <4> QED BY <4>1, <4>2, <1>1, <2>4
    <3> QED BY <2>1, <2>5, <3>1, <3>2, <3>3 DEF TagsTell
  <2> QED BY <1>0, <2>1, <2>6, <2>7, <2>9, <2>10, <2>11 DEF AspectInv, QueueInv, PresentedInv
<1> QED BY <1>2, <1>3

LEMMA AspectPacketStep ==
  ASSUME AspectInv, Aspect!LosePacket \/ Aspect!TakePresentAspect
  PROVE  AspectInv'
<1>0. AspectTypes /\ HudFollows /\ DrawnForOne /\ QueueInv /\ PresentedInv
  BY DEF AspectInv
<1>1. InFlight \in Nat /\ MaxInFlight \in Nat /\ InFlight <= MaxInFlight
  BY <1>0, InFlightInt, AspectConstants DEF QueueInv
<1>2. CASE Aspect!LosePacket
  <2>1. UNCHANGED <<settings, latched, title, hud, worker, queue, presented, faults>>
    BY <1>2 DEF Aspect!LosePacket
  <2>2. /\ InFlight' <= InFlight /\ (InStep \/ OneLost)'
        /\ packets' \in Seq(SwapPackets)
    BY <1>0, <1>2, QueueLoses DEF QueueInv
  <2>3. AspectTypes'
    BY <1>0, <2>1, <2>2 DEF AspectTypes
  <2>4. InFlight' <= MaxInFlight
    <3>1. InFlight' \in Nat
      <4>1. Len(packets') \in Nat
        BY <2>2
      <4> QED BY <4>1 DEF InFlight
    <3> QED BY <1>1, <2>2, <3>1
  <2>5. DrawnForOne' /\ HudFollows' /\ TagsTell' /\ PresentedInv'
    BY <1>0, <2>1 DEF DrawnForOne, HudFollows, QueueInv, TagsTell, LastFront, PresentedInv
  <2> QED BY <2>2, <2>3, <2>4, <2>5 DEF AspectInv, QueueInv
<1>3. CASE Aspect!TakePresentAspect
  <2>1. UNCHANGED <<settings, latched, title, hud, worker, faults>>
    BY <1>3 DEF Aspect!TakePresentAspect
  <2>2. /\ InFlight' = InFlight - 1 /\ (InStep \/ OneLost)'
        /\ packets' \in Seq(SwapPackets) /\ queue'.entries \in Seq(Entries)
        /\ presented' \in [aspect : AllAspects, drawn : SUBSET AllAspects]
        /\ queue' \in [entries : Seq(Entries), last_pushed : AllAspects, last : AllAspects,
                       taken : BOOLEAN]
        /\ queue'.last_pushed = queue.last_pushed
        /\ PresentedInv' /\ TagsTell'
    BY <1>0, <1>3, QueueTaken DEF QueueInv
  <2>3. AspectTypes'
    BY <1>0, <2>1, <2>2 DEF AspectTypes
  <2>4. DrawnForOne' /\ HudFollows'
    BY <1>0, <2>1, <2>2 DEF DrawnForOne, HudFollows
  <2>5. InFlight' <= MaxInFlight
    BY <1>1, <2>2
  <2> QED BY <2>2, <2>3, <2>4, <2>5 DEF AspectInv, QueueInv
<1> QED BY <1>2, <1>3

LEMMA AspectInvariant == AllSpec => []AspectInv
<1>1. AspectInv /\ [AllNext]_allVars => AspectInv'
  <2> SUFFICES ASSUME AspectInv, [AllNext]_allVars PROVE AspectInv'
    OBVIOUS
  <2>1. Aspect!Next \/ UNCHANGED aspectVars
    BY ComponentsStep
  <2>2. CASE Aspect!Next
    BY <2>2, AspectSettingsStep, AspectSwapStep, AspectEmitStep, AspectPacketStep DEF Aspect!Next
  <2>3. CASE UNCHANGED aspectVars
    <3>1. UNCHANGED <<settings, latched, title, hud, worker, queue, packets, presented, faults>>
      BY <2>3 DEF aspectVars
    <3>2. InFlight' = InFlight /\ (InStep \/ OneLost)'
      BY <3>1, QueueStays DEF AspectInv, QueueInv, Aspect!Emitting, Emitted
    <3> QED BY <3>1, <3>2 DEF AspectInv, AspectTypes, HudFollows, DrawnForOne, QueueInv,
                              TagsTell, LastFront, PresentedInv
  <2> QED BY <2>1, <2>2, <2>3
<1> QED BY <1>1, ComponentsInit, AspectInit, PTL DEF AllSpec

(* An image is presented with the aspect its cameras and its HUD were drawn  *)
(* for, for every set of aspects and every depth of the queues, whatever is  *)
(* set, suspended or presented again meanwhile and whichever packet was lost *)
(* or Swap silent (OnGuestSwap, NbUltrawideTakePresentAspect2).              *)
THEOREM ImageIsPresentedAsRendered == AllSpec => []PresentedAsRendered
<1>1. AspectInv => PresentedAsRendered
  BY DEF AspectInv, PresentedInv, PresentedAsRendered, Aspect!PresentedAsRendered
<1> QED BY <1>1, AspectInvariant, PTL

(* Icon scissors are squeezed exactly while the XUI view set is a squeezed   *)
(* one, and by its own factor, whatever is latched between two passes.       *)
THEOREM ScissorIsItsViews == AllSpec => []ScissorFollowsView
<1>1. AspectInv => ScissorFollowsView
  <2> SUFFICES ASSUME AspectInv PROVE Aspect!ScissorFollowsView
    BY DEF ScissorFollowsView
  <2>1. HudFollows /\ hud.squeezed \in BOOLEAN
    BY DEF AspectInv, AspectTypes, Huds
  <2>2. hud.squeezed <=> hud.view # Base
    BY <2>1 DEF HudFollows
  <2>3. hud.squeezed = (hud.view # Base)
    BY <2>1, <2>2
  <2>4. hud.squeezed => hud.kh = hud.view
    BY <2>1 DEF HudFollows
  <2> QED BY <2>3, <2>4 DEF Aspect!ScissorFollowsView
<1> QED BY <1>1, AspectInvariant, PTL

(***************************************************************************)
(* The draws' shaders and texture slots.                                   *)
(***************************************************************************)
Constants == Bindings!FetchConstants
FetchValues == UNION {Fetches[f] : f \in Constants}

BindingTypes ==
  /\ memory \in [words : [Addresses -> Ucodes], writes : 0 .. MaxShaderWrites]
  /\ shaders \in [Ucodes -> Objects \union {Nothing}]
  /\ object \in [Objects -> Bindings!Shaders \union {Nothing}]
  /\ load_memo \in [address : Addresses \union {Nothing}, words : Ucodes \union {Nothing},
                    object : Objects \union {Nothing}]
  /\ epoch \in 0 .. MaxEpochs
  /\ register \in [fetch : [Constants -> FetchValues], override : Overrides]
  /\ \A f \in Constants : register.fetch[f] \in Fetches[f]

Live(o) == o \in Objects /\ object[o] # Nothing

(* shaders_ and the Shader objects say the same. *)
ShadersAreKept ==
  /\ \A h \in Ucodes : shaders[h] # Nothing =>
       Live(shaders[h]) /\ object[shaders[h]].hash = h
  /\ \A o \in Objects : Live(o) => shaders[object[o].hash] = o

(* The memo's shader is not a deleted one, and has the words it says.       *)
MemoIsLive ==
  load_memo.object # Nothing =>
    Live(load_memo.object) /\ object[load_memo.object].words = load_memo.words

(* A plan is of its shader's bindings, and a memoised sampler is what they  *)
(* resolve to for the fetch constant and override it was resolved with.     *)
PlanIsOf(p, o) ==
  /\ p = [object |-> o, textures |-> ShaderTextures[object[o].words],
          samplers |-> Samplers[object[o].words], memos |-> [f \in Constants |-> p.memos[f]]]
  /\ \A f \in Constants :
       p.memos[f].valid => p.memos[f].consensus = Bindings!Consensus(p.samplers, f, p.memos[f].fetch,
                                                             p.memos[f].override)

(* The plan kept is one of an epoch gone by, or of a live shader.           *)
PlanIsLive ==
  /\ plan.entry.object \in Objects \union {Nothing}
  /\ plan.entry.object # Nothing =>
       /\ plan.epoch \in 0 .. epoch
       /\ plan.epoch = epoch => Live(plan.entry.object) /\ PlanIsOf(plan.entry, plan.entry.object)

(* The draw's shader is alive and has the words it was found by.            *)
DrawHolds ==
  /\ draw.pc \in {"idle", "hashed", "loaded", "drawn"}
  /\ draw.pc = "hashed" => draw.hash \in Ucodes /\ draw.address \in Addresses
  /\ draw.pc \in {"loaded", "drawn"} =>
       Live(draw.object) /\ (draw.seen # Nothing => object[draw.object].words = draw.seen)
  /\ draw.pc = "drawn" =>
       draw.bound = Bindings!BoundDirectly(object[draw.object].hash, object[draw.object].words)

BindingsInv ==
  BindingTypes /\ ShadersAreKept /\ MemoIsLive /\ PlanIsLive /\ DrawHolds

LEMMA BindingsConstants ==
  /\ Nothing \notin Objects /\ Nothing \notin Ucodes /\ Nothing \notin Bindings!Shaders
  /\ MaxShaderWrites \in Nat /\ MaxEpochs \in Nat /\ "off" \in Overrides
  /\ \A f \in Constants : Fetches[f] # {}
  /\ \A h \in Ucodes : \A i \in DOMAIN Reads[h] : Reads[h][i].fetch \in Constants
BY GuestFramesAssumption DEF Bindings!NativeBindingsAssumption, Constants

LEMMA ShaderFields ==
  ASSUME BindingTypes, NEW o, Live(o)
  PROVE  /\ object[o] \in Bindings!Shaders
         /\ object[o].hash \in Ucodes /\ object[o].words \in Ucodes
         /\ object[o].translated \in BOOLEAN
<1>1. object[o] \in Bindings!Shaders
  BY DEF BindingTypes, Live
<1> QED BY <1>1 DEF Bindings!Shaders

(* What ResolveSampler returns is the consensus for the registers, from the *)
(* memo or not.                                                             *)
LEMMA ResolvedIsConsensus ==
  ASSUME NEW p, NEW o, PlanIsOf(p, o), NEW f \in Constants
  PROVE  /\ Bindings!ResolveSampler(p, f).consensus
              = Bindings!Consensus(p.samplers, f, register.fetch[f], register.override)
         /\ Bindings!ResolveSampler(p, f).consensus
              = Bindings!Consensus(p.samplers, f, Bindings!ResolveSampler(p, f).fetch,
                                   Bindings!ResolveSampler(p, f).override)
<1>1. CASE Bindings!SamplerHits(p.memos[f], register.fetch[f], register.override)
  <2>1. /\ p.memos[f].valid /\ p.memos[f].fetch = register.fetch[f]
        /\ p.memos[f].override = register.override
        /\ Bindings!ResolveSampler(p, f) = p.memos[f]
    BY <1>1 DEF Bindings!SamplerHits, Bindings!ResolveSampler
  <2> QED BY <2>1 DEF PlanIsOf
<1>2. CASE ~Bindings!SamplerHits(p.memos[f], register.fetch[f], register.override)
  BY <1>2 DEF Bindings!ResolveSampler
<1> QED BY <1>1, <1>2

(* Binding by a plan and binding directly agree. *)
LEMMA PlanBindsDirectly ==
  ASSUME NEW p, NEW o, PlanIsOf(p, o), NEW h \in Ucodes
  PROVE  Bindings!BoundByPlan(p, h) = Bindings!BoundDirectly(h, object[o].words)
<1> DEFINE words == object[o].words
           direct(read) == Bindings!Slot(read, register.fetch[read.fetch], ShaderTextures[words],
                             Bindings!Consensus(Samplers[words], read.fetch,
                                                register.fetch[read.fetch], register.override))
<1>1. p.textures = ShaderTextures[words] /\ p.samplers = Samplers[words]
  BY DEF PlanIsOf
<1>2. ASSUME NEW i \in DOMAIN Reads[h]
      PROVE  Bindings!PlannedSlot(p, Reads[h][i]) = direct(Reads[h][i])
  <2>1. Reads[h][i].fetch \in Constants
    BY BindingsConstants
  <2>2. Bindings!ResolveSampler(p, Reads[h][i].fetch).consensus
          = Bindings!Consensus(Samplers[words], Reads[h][i].fetch,
                               register.fetch[Reads[h][i].fetch], register.override)
    BY <2>1, <1>1, ResolvedIsConsensus
  <2> QED BY <1>1, <2>2 DEF Bindings!PlannedSlot
<1>3. [i \in DOMAIN Reads[h] |-> Bindings!PlannedSlot(p, Reads[h][i])]
        = [i \in DOMAIN Reads[h] |-> direct(Reads[h][i])]
  BY <1>2
<1> QED BY <1>3 DEF Bindings!BoundByPlan, Bindings!BoundDirectly

(* A plan prepared for a live shader is its own, also after the draw.       *)
LEMMA PreparedIsPlan ==
  ASSUME BindingsInv, NEW o, Live(o)
  PROVE  PlanIsOf(Bindings!Prepared(o), o)
<1> DEFINE entry == IF plan.epoch = epoch THEN plan.entry ELSE Bindings!NoPlan
<1>0. o # Nothing
  BY BindingsConstants DEF Live
<1>1. CASE entry.object = o
  <2>1. plan.epoch = epoch /\ entry = plan.entry /\ Bindings!Prepared(o) = plan.entry
    BY <1>0, <1>1 DEF Bindings!NoPlan, Bindings!Prepared
  <2>2. plan.entry.object = o /\ plan.entry.object # Nothing
    BY <1>0, <1>1, <2>1
  <2> QED BY <2>1, <2>2 DEF BindingsInv, PlanIsLive
<1>2. CASE entry.object # o
  <2>1. Bindings!Prepared(o) = [Bindings!NoPlan EXCEPT !.object = o,
                                  !.textures = ShaderTextures[object[o].words],
                                  !.samplers = Samplers[object[o].words]]
    BY <1>2 DEF Bindings!Prepared
  <2>2. Bindings!Prepared(o) = [object |-> o, textures |-> ShaderTextures[object[o].words],
                                samplers |-> Samplers[object[o].words],
                                memos |-> [f \in Constants |-> Bindings!NoSampler]]
    BY <2>1 DEF Bindings!NoPlan, Constants
  <2>3. \A f \in Constants : ~Bindings!Prepared(o).memos[f].valid
    BY <2>2 DEF Bindings!NoSampler
  <2> QED BY <2>2, <2>3 DEF PlanIsOf
<1> QED BY <1>1, <1>2

LEMMA DrawnIsPlan ==
  ASSUME NEW p, NEW o, PlanIsOf(p, o), NEW h
  PROVE  PlanIsOf(Bindings!AfterDraw(p, h), o)
<1> DEFINE memos == [f \in Constants |-> IF f \in Bindings!Resolved(p, h)
                                         THEN Bindings!ResolveSampler(p, f) ELSE p.memos[f]]
<1>1. p = [object |-> o, textures |-> ShaderTextures[object[o].words],
           samplers |-> Samplers[object[o].words], memos |-> [f \in Constants |-> p.memos[f]]]
  BY DEF PlanIsOf
<1>2. Bindings!AfterDraw(p, h) = [p EXCEPT !.memos = memos]
  BY DEF Bindings!AfterDraw, Constants
<1>3. Bindings!AfterDraw(p, h)
        = [object |-> o, textures |-> ShaderTextures[object[o].words],
           samplers |-> Samplers[object[o].words], memos |-> memos]
  <2> HIDE DEF memos
  <2> QED BY <1>1, <1>2
<1>4. ASSUME NEW f \in Constants, memos[f].valid
      PROVE  memos[f].consensus
               = Bindings!Consensus(Samplers[object[o].words], f, memos[f].fetch, memos[f].override)
  <2>1. p.samplers = Samplers[object[o].words]
    BY <1>1
  <2>2. CASE f \in Bindings!Resolved(p, h)
    <3>1. memos[f] = Bindings!ResolveSampler(p, f)
      BY <2>2
    <3> QED BY <2>1, <3>1, ResolvedIsConsensus
  <2>3. CASE f \notin Bindings!Resolved(p, h)
    <3>1. memos[f] = p.memos[f]
      BY <2>3
    <3> QED BY <2>1, <3>1, <1>4 DEF PlanIsOf
  <2> QED BY <2>2, <2>3
<1>5. memos = [f \in Constants |-> memos[f]]
  OBVIOUS
<1> DEFINE a == Bindings!AfterDraw(p, h)
<1> HIDE DEF memos
<1>6. a = [object |-> o, textures |-> ShaderTextures[object[o].words],
           samplers |-> Samplers[object[o].words], memos |-> memos]
  BY <1>3
<1> HIDE DEF a
<1>7. a.samplers = Samplers[object[o].words] /\ a.memos = memos
  BY <1>6
<1>8. \A f \in Constants :
        a.memos[f].valid => a.memos[f].consensus
          = Bindings!Consensus(a.samplers, f, a.memos[f].fetch, a.memos[f].override)
  BY <1>4, <1>7
<1>9. PlanIsOf(a, o)
  BY <1>5, <1>6, <1>7, <1>8, Zenon DEF PlanIsOf
<1> QED BY <1>9 DEF a

LEMMA BindingsInit == Bindings!Init => BindingsInv
<1> SUFFICES ASSUME Bindings!Init PROVE BindingsInv
  OBVIOUS
<1> USE DEF Bindings!Init
<1>1. BindingTypes
  <2>1. memory \in [words : [Addresses -> Ucodes], writes : 0 .. MaxShaderWrites]
    BY BindingsConstants
  <2>2. /\ shaders \in [Ucodes -> Objects \union {Nothing}]
        /\ object \in [Objects -> Bindings!Shaders \union {Nothing}]
        /\ epoch \in 0 .. MaxEpochs
    BY BindingsConstants
  <2>3. load_memo \in [address : Addresses \union {Nothing}, words : Ucodes \union {Nothing},
                       object : Objects \union {Nothing}]
    BY DEF Bindings!NoMemo
  <2>4. \A f \in Constants : (CHOOSE x \in Fetches[f] : TRUE) \in Fetches[f]
    BY BindingsConstants
  <2>5. /\ register.fetch = [f \in Constants |-> CHOOSE x \in Fetches[f] : TRUE]
        /\ register.override = "off"
        /\ register = [fetch |-> register.fetch, override |-> register.override]
    BY DEF Constants
  <2>6. register.fetch \in [Constants -> FetchValues]
    BY <2>4, <2>5 DEF FetchValues
  <2> QED BY <2>1, <2>2, <2>3, <2>4, <2>5, <2>6, BindingsConstants DEF BindingTypes
<1>2. ShadersAreKept
  BY DEF ShadersAreKept, Live
<1>3. MemoIsLive
  BY DEF MemoIsLive, Bindings!NoMemo
<1>4. PlanIsLive
  BY DEF PlanIsLive, Bindings!NoPlan
<1>5. DrawHolds
  BY DEF DrawHolds, Bindings!IdleCp
<1> QED BY <1>1, <1>2, <1>3, <1>4, <1>5 DEF BindingsInv

(* A step that leaves shaders and their plan alone disturbs nothing of them.*)
LEMMA ShadersStay ==
  ASSUME BindingsInv, UNCHANGED <<shaders, object, load_memo, epoch, plan>>
  PROVE  (ShadersAreKept /\ MemoIsLive /\ PlanIsLive)'
<1>1. \A o : Live(o)' <=> Live(o)
  BY DEF Live
<1>2. \A p, o : PlanIsOf(p, o)' <=> PlanIsOf(p, o)
  BY DEF PlanIsOf
<1> QED BY <1>1, <1>2 DEF BindingsInv, ShadersAreKept, MemoIsLive, PlanIsLive

LEMMA BindingsGuestStep ==
  ASSUME BindingsInv, Bindings!GuestWrites \/ Bindings!SetRegisters \/ Bindings!EndDraw
  PROVE  BindingsInv'
<1>0. BindingTypes /\ DrawHolds
  BY DEF BindingsInv
<1>1. CASE Bindings!GuestWrites
  <2>1. UNCHANGED <<shaders, object, load_memo, epoch, plan, register, draw>>
    BY <1>1 DEF Bindings!GuestWrites
  <2>2. memory' \in [words : [Addresses -> Ucodes], writes : 0 .. MaxShaderWrites]
    <3>1. PICK a \in Addresses, u \in Ucodes :
            memory' = [words |-> [memory.words EXCEPT ![a] = u], writes |-> memory.writes + 1]
      BY <1>1 DEF Bindings!GuestWrites
    <3>2. memory.words \in [Addresses -> Ucodes] /\ memory.writes \in 0 .. MaxShaderWrites
          /\ memory.writes < MaxShaderWrites /\ MaxShaderWrites \in Nat
      BY <1>0, <1>1, BindingsConstants DEF BindingTypes, Bindings!GuestWrites
    <3>3. memory.writes + 1 \in 0 .. MaxShaderWrites
      BY <3>2
    <3> QED BY <3>1, <3>2, <3>3
  <2>3. BindingTypes'
    BY <1>0, <2>1, <2>2 DEF BindingTypes
  <2>4. DrawHolds'
    BY <1>0, <2>1 DEF DrawHolds, Live, Bindings!BoundDirectly
  <2> QED BY <2>1, <2>3, <2>4, ShadersStay DEF BindingsInv
<1>2. CASE Bindings!SetRegisters
  <2>1. UNCHANGED <<memory, shaders, object, load_memo, epoch, plan, draw>> /\ draw.pc = "idle"
    BY <1>2 DEF Bindings!SetRegisters
  <2>2. /\ register' \in [fetch : [Constants -> FetchValues], override : Overrides]
        /\ \A f \in Constants : register'.fetch[f] \in Fetches[f]
    <3>1. register \in [fetch : [Constants -> FetchValues], override : Overrides]
      BY <1>0 DEF BindingTypes
    <3>2. ASSUME NEW f \in Constants, NEW x \in Fetches[f],
                 register' = [register EXCEPT !.fetch[f] = x]
          PROVE  /\ register' \in [fetch : [Constants -> FetchValues], override : Overrides]
                 /\ \A g \in Constants : register'.fetch[g] \in Fetches[g]
      <4>1. x \in FetchValues
        BY DEF FetchValues
      <4>2. /\ register'.fetch = [register.fetch EXCEPT ![f] = x]
            /\ register'.override = register.override
            /\ register' = [fetch |-> register'.fetch, override |-> register'.override]
        BY <3>1, <3>2
      <4>3. register.fetch \in [Constants -> FetchValues] /\ register.override \in Overrides
        BY <3>1
      <4>4. register'.fetch \in [Constants -> FetchValues]
        BY <4>1, <4>2, <4>3
      <4>5. \A g \in Constants : register'.fetch[g] = IF g = f THEN x ELSE register.fetch[g]
        BY <4>2, <4>3
      <4>6. \A g \in Constants : register.fetch[g] \in Fetches[g]
        BY <1>0 DEF BindingTypes
      <4> QED BY <4>2, <4>3, <4>4, <4>5, <4>6
    <3>3. ASSUME NEW x \in Overrides, register' = [register EXCEPT !.override = x]
          PROVE  /\ register' \in [fetch : [Constants -> FetchValues], override : Overrides]
                 /\ \A g \in Constants : register'.fetch[g] \in Fetches[g]
      BY <1>0, <3>1, <3>3 DEF BindingTypes
    <3> QED BY <1>2, <3>2, <3>3 DEF Bindings!SetRegisters, Constants
  <2>3. BindingTypes'
    BY <1>0, <2>1, <2>2 DEF BindingTypes
  <2>4. DrawHolds'
    BY <1>0, <2>1 DEF DrawHolds
  <2> QED BY <2>1, <2>3, <2>4, ShadersStay DEF BindingsInv
<1>3. CASE Bindings!EndDraw
  <2>1. UNCHANGED <<memory, shaders, object, load_memo, epoch, plan, register>>
        /\ draw' = Bindings!IdleCp
    BY <1>3 DEF Bindings!EndDraw
  <2>2. BindingTypes'
    BY <1>0, <2>1 DEF BindingTypes
  <2>3. DrawHolds'
    BY <2>1 DEF DrawHolds, Bindings!IdleCp
  <2> QED BY <2>1, <2>2, <2>3, ShadersStay DEF BindingsInv
<1> QED BY <1>1, <1>2, <1>3

LEMMA LoadShaderStep ==
  ASSUME BindingsInv, NEW a \in Addresses, NEW enabled \in BOOLEAN,
         Bindings!LoadShader(a, enabled)
  PROVE  BindingsInv'
<1>0. BindingTypes /\ DrawHolds /\ MemoIsLive
  BY DEF BindingsInv
<1>1. UNCHANGED <<memory, shaders, object, load_memo, epoch, plan, register>>
  BY DEF Bindings!LoadShader
<1>2. BindingTypes'
  BY <1>0, <1>1 DEF BindingTypes
<1>3. memory.words[a] \in Ucodes
  BY <1>0 DEF BindingTypes
<1>4. CASE enabled /\ Bindings!MemoHits(a)
  <2>1. /\ draw'.pc = "loaded" /\ draw'.object = load_memo.object
        /\ draw'.seen = memory.words[a]
    BY <1>4 DEF Bindings!LoadShader, Bindings!IdleCp
  <2>2. load_memo.object # Nothing /\ load_memo.words = memory.words[a]
    BY <1>4 DEF Bindings!MemoHits
  <2>3. DrawHolds'
    BY <1>0, <1>1, <2>1, <2>2 DEF DrawHolds, MemoIsLive, Live
  <2> QED BY <1>1, <1>2, <2>3, ShadersStay DEF BindingsInv
<1>5. CASE ~(enabled /\ Bindings!MemoHits(a))
  <2>1. draw'.pc = "hashed" /\ draw'.hash = memory.words[a] /\ draw'.address = a
    BY <1>5 DEF Bindings!LoadShader, Bindings!IdleCp
  <2>2. DrawHolds'
    BY <1>3, <2>1 DEF DrawHolds
  <2> QED BY <1>1, <1>2, <2>2, ShadersStay DEF BindingsInv
<1> QED BY <1>4, <1>5

(* The Shader kept under a hash or allocated for it: no other hash has its  *)
(* object, and no other object its hash.                                    *)
LEMMA PlacedShader ==
  ASSUME BindingsInv, NEW h \in Ucodes, NEW words \in Ucodes, NEW o \in Bindings!Places(h)
  PROVE  /\ o \in Objects /\ o # Nothing
         /\ Bindings!KeptShader(h, words) \in Bindings!Shaders
         /\ Bindings!KeptShader(h, words) # Nothing
         /\ Bindings!KeptShader(h, words).hash = h
         /\ Live(o) => Bindings!KeptShader(h, words) = object[o]
         /\ \A other \in Ucodes \ {h} : shaders[other] # o
         /\ \A x \in Objects \ {o} : Live(x) => object[x].hash # h
<1>0. BindingTypes /\ ShadersAreKept
  BY DEF BindingsInv
<1>1. CASE shaders[h] # Nothing
  <2>1. o = shaders[h] /\ Live(o) /\ object[o].hash = h /\ shaders[object[o].hash] = o
    BY <1>0, <1>1 DEF Bindings!Places, ShadersAreKept, Live
  <2>2. Bindings!KeptShader(h, words) = object[o]
    BY <1>1, <2>1 DEF Bindings!KeptShader
  <2>3. object[o] \in Bindings!Shaders /\ object[o] # Nothing
    BY <1>0, <2>1, ShaderFields DEF Live
  <2>4. ASSUME NEW other \in Ucodes \ {h} PROVE shaders[other] # o
    BY <1>0, <2>1, BindingsConstants DEF ShadersAreKept, Live
  <2>5. ASSUME NEW x \in Objects \ {o}, Live(x) PROVE object[x].hash # h
    BY <1>0, <2>1, <2>5 DEF ShadersAreKept
  <2> QED BY <2>1, <2>2, <2>3, <2>4, <2>5, BindingsConstants DEF Live
<1>2. CASE shaders[h] = Nothing
  <2>1. o \in Objects /\ object[o] = Nothing
    BY <1>2 DEF Bindings!Places
  <2>2. Bindings!KeptShader(h, words) = [hash |-> h, words |-> words, translated |-> FALSE]
    BY <1>2 DEF Bindings!KeptShader, Bindings!NewShader
  <2>3. Bindings!KeptShader(h, words) \in Bindings!Shaders
    BY <2>2 DEF Bindings!Shaders
  <2>4. ASSUME NEW other \in Ucodes \ {h} PROVE shaders[other] # o
    BY <1>0, <2>1, BindingsConstants DEF ShadersAreKept, Live
  <2>5. ASSUME NEW x \in Objects \ {o}, Live(x) PROVE object[x].hash # h
    <3>1. shaders[object[x].hash] = x
      BY <1>0, <2>5 DEF ShadersAreKept
    <3>2. x # Nothing
      BY BindingsConstants
    <3> QED BY <3>1, <3>2, <1>2
  <2>6. Bindings!KeptShader(h, words).hash = h /\ ~Live(o) /\ o # Nothing
    BY <2>1, <2>2, BindingsConstants DEF Live
  <2>7. Bindings!KeptShader(h, words) # Nothing
    BY <2>3, BindingsConstants
  <2> QED BY <2>1, <2>3, <2>4, <2>5, <2>6, <2>7
<1> QED BY <1>1, <1>2

(* Storing it, or removing it. *)
LEMMA ShaderReplaced ==
  ASSUME BindingsInv, NEW h \in Ucodes, NEW o \in Objects, NEW s,
         o # Nothing, s = Nothing \/ (s \in Bindings!Shaders /\ s.hash = h),
         \A other \in Ucodes \ {h} : shaders[other] # o,
         \A x \in Objects \ {o} : Live(x) => object[x].hash # h,
         shaders' = [shaders EXCEPT ![h] = IF s = Nothing THEN Nothing ELSE o],
         object' = [object EXCEPT ![o] = s]
  PROVE  /\ shaders' \in [Ucodes -> Objects \union {Nothing}]
         /\ object' \in [Objects -> Bindings!Shaders \union {Nothing}]
         /\ \A x \in Objects : object'[x] = IF x = o THEN s ELSE object[x]
         /\ ShadersAreKept'
<1>0. BindingTypes /\ ShadersAreKept
  BY DEF BindingsInv
<1>1. /\ shaders' \in [Ucodes -> Objects \union {Nothing}]
      /\ \A g \in Ucodes : shaders'[g] = IF g = h THEN (IF s = Nothing THEN Nothing ELSE o)
                                         ELSE shaders[g]
  BY <1>0 DEF BindingTypes
<1>2. /\ object' \in [Objects -> Bindings!Shaders \union {Nothing}]
      /\ \A x \in Objects : object'[x] = IF x = o THEN s ELSE object[x]
  BY <1>0 DEF BindingTypes
<1>3. ASSUME NEW g \in Ucodes, shaders'[g] # Nothing
      PROVE  Live(shaders[g])' /\ object'[shaders'[g]].hash = g
  <2>1. CASE g = h
    <3>1. shaders'[g] = o /\ s # Nothing /\ object'[o] = s /\ s.hash = h
      BY <1>1, <1>2, <1>3, <2>1
    <3> QED BY <2>1, <3>1 DEF Live
  <2>2. CASE g # h
    <3>1. shaders'[g] = shaders[g] /\ shaders[g] # o
      BY <1>1, <2>2
    <3>2. Live(shaders[g]) /\ object[shaders[g]].hash = g
      BY <1>0, <1>3, <3>1 DEF ShadersAreKept
    <3>3. object'[shaders[g]] = object[shaders[g]]
      BY <1>2, <3>1, <3>2 DEF Live
    <3> QED BY <3>1, <3>2, <3>3 DEF Live
  <2> QED BY <2>1, <2>2
<1>4. ASSUME NEW x \in Objects, Live(x)'
      PROVE  shaders'[object'[x].hash] = x
  <2>1. CASE x = o
    <3>1. object'[x] = s /\ s # Nothing /\ s.hash = h
      BY <1>2, <1>4, <2>1 DEF Live
    <3> QED BY <1>1, <2>1, <3>1
  <2>2. CASE x # o
    <3>1. object'[x] = object[x] /\ Live(x)
      BY <1>2, <1>4, <2>2 DEF Live
    <3>2. object[x].hash \in Ucodes \ {h}
      BY <1>0, <2>2, <3>1, ShaderFields
    <3>3. shaders[object[x].hash] = x
      BY <1>0, <3>1 DEF ShadersAreKept
    <3> QED BY <1>1, <3>1, <3>2, <3>3
  <2> QED BY <2>1, <2>2
<1>5. ShadersAreKept'
  BY <1>3, <1>4 DEF ShadersAreKept
<1> QED BY <1>1, <1>2, <1>5

(* What is live stays live with its words, and so does a plan.              *)
LEMMA PlanStays ==
  ASSUME BindingsInv, UNCHANGED <<plan, epoch>>,
         \A x \in Objects : Live(x) => object'[x] # Nothing /\ object'[x].words = object[x].words
  PROVE  PlanIsLive'
<1> SUFFICES ASSUME plan.entry.object # Nothing, plan.epoch = epoch
             PROVE  Live(plan.entry.object)' /\ PlanIsOf(plan.entry, plan.entry.object)'
  BY DEF BindingsInv, PlanIsLive
<1> DEFINE o == plan.entry.object
<1>1. Live(o) /\ PlanIsOf(plan.entry, o) /\ o \in Objects
  BY DEF BindingsInv, PlanIsLive, Live
<1>2. object'[o] # Nothing /\ object'[o].words = object[o].words
  BY <1>1
<1> QED BY <1>1, <1>2 DEF Live, PlanIsOf

LEMMA LoadByHashStep ==
  ASSUME BindingsInv, NEW o \in Objects, NEW enabled \in BOOLEAN, Bindings!LoadByHash(o, enabled)
  PROVE  BindingsInv'
<1> DEFINE h == draw.hash
           words == memory.words[draw.address]
           s == Bindings!KeptShader(h, words)
<1>0. BindingTypes /\ DrawHolds /\ MemoIsLive
  BY DEF BindingsInv
<1>1. /\ draw.pc = "hashed" /\ o \in Bindings!Places(h)
      /\ shaders' = [shaders EXCEPT ![h] = o] /\ object' = [object EXCEPT ![o] = s]
      /\ load_memo' = IF enabled THEN [address |-> draw.address, words |-> s.words, object |-> o]
                      ELSE load_memo
      /\ draw' = [Bindings!IdleCp EXCEPT !.pc = "loaded", !.object = o]
      /\ UNCHANGED <<memory, epoch, plan, register>>
  BY DEF Bindings!LoadByHash, Bindings!Publish
<1>2. h \in Ucodes /\ draw.address \in Addresses
  BY <1>0, <1>1 DEF DrawHolds
<1>3. words \in Ucodes
  BY <1>0, <1>2 DEF BindingTypes
<1>4. /\ o # Nothing /\ s \in Bindings!Shaders /\ s # Nothing /\ s.hash = h
      /\ Live(o) => s = object[o]
      /\ \A other \in Ucodes \ {h} : shaders[other] # o
      /\ \A x \in Objects \ {o} : Live(x) => object[x].hash # h
  BY <1>1, <1>2, <1>3, PlacedShader
<1> HIDE DEF s, h, words
<1>5. /\ shaders' \in [Ucodes -> Objects \union {Nothing}]
      /\ object' \in [Objects -> Bindings!Shaders \union {Nothing}]
      /\ \A x \in Objects : object'[x] = IF x = o THEN s ELSE object[x]
      /\ ShadersAreKept'
  <2>1. shaders' = [shaders EXCEPT ![h] = IF s = Nothing THEN Nothing ELSE o]
    BY <1>1, <1>4
  <2> QED BY <2>1, <1>1, <1>2, <1>4, ShaderReplaced
<1>6. \A x \in Objects : Live(x) => object'[x] # Nothing /\ object'[x].words = object[x].words
  BY <1>4, <1>5 DEF Live
<1>7. s.words \in Ucodes
  BY <1>4 DEF Bindings!Shaders
<1>8. load_memo' \in [address : Addresses \union {Nothing}, words : Ucodes \union {Nothing},
                      object : Objects \union {Nothing}]
  BY <1>0, <1>1, <1>2, <1>7 DEF BindingTypes
<1>9. BindingTypes'
  BY <1>0, <1>1, <1>5, <1>8 DEF BindingTypes
<1>10. MemoIsLive'
  <2>1. CASE enabled
    BY <2>1, <1>1, <1>4, <1>5 DEF MemoIsLive, Live
  <2>2. CASE ~enabled
    BY <2>2, <1>0, <1>1, <1>6 DEF MemoIsLive, Live
  <2> QED BY <2>1, <2>2
<1>11. DrawHolds'
  <2>1. draw'.pc = "loaded" /\ draw'.object = o /\ draw'.seen = Nothing
    BY <1>1 DEF Bindings!IdleCp
  <2> QED BY <2>1, <1>4, <1>5 DEF DrawHolds, Live
<1>12. PlanIsLive'
  BY <1>1, <1>6, PlanStays
<1> QED BY <1>5, <1>9, <1>10, <1>11, <1>12 DEF BindingsInv

LEMMA DrawStep ==
  ASSUME BindingsInv, NEW ok \in BOOLEAN, NEW cached \in BOOLEAN, Bindings!Draw(ok, cached)
  PROVE  BindingsInv'
<1> DEFINE o == draw.object
           h == object[o].hash
           words == object[o].words
           translated == object[o].translated \/ ok
           p == Bindings!Prepared(o)
<1>0. BindingTypes /\ DrawHolds /\ MemoIsLive /\ ShadersAreKept
  BY DEF BindingsInv
<1>1. /\ draw.pc = "loaded" /\ object' = [object EXCEPT ![o].translated = translated]
      /\ UNCHANGED <<memory, shaders, load_memo, epoch, register>>
  BY DEF Bindings!Draw
<1>2. Live(o) /\ o \in Objects /\ (draw.seen # Nothing => words = draw.seen)
  BY <1>0, <1>1 DEF DrawHolds, Live
<1>3. /\ object[o] \in Bindings!Shaders /\ h \in Ucodes /\ words \in Ucodes
      /\ object[o].translated \in BOOLEAN
  BY <1>0, <1>2, ShaderFields
<1>4. /\ object' \in [Objects -> Bindings!Shaders \union {Nothing}]
      /\ \A x \in Objects : x # o => object'[x] = object[x]
      /\ object'[o] \in Bindings!Shaders /\ object'[o].hash = h /\ object'[o].words = words
  <2>1. [object[o] EXCEPT !.translated = translated] \in Bindings!Shaders
        /\ [object[o] EXCEPT !.translated = translated].hash = h
        /\ [object[o] EXCEPT !.translated = translated].words = words
    BY <1>3 DEF Bindings!Shaders
  <2>2. object \in [Objects -> Bindings!Shaders \union {Nothing}]
    BY <1>0 DEF BindingTypes
  <2>3. object' = [object EXCEPT ![o] = [object[o] EXCEPT !.translated = translated]]
    BY <1>1
  <2> QED BY <1>2, <2>1, <2>2, <2>3
<1>5. ASSUME NEW x
      PROVE  /\ Live(x)' <=> Live(x)
             /\ Live(x) => object'[x].hash = object[x].hash /\ object'[x].words = object[x].words
  BY <1>2, <1>4, BindingsConstants DEF Live
<1>6. BindingTypes'
  BY <1>0, <1>1, <1>4 DEF BindingTypes
<1>7. ShadersAreKept' /\ MemoIsLive'
  BY <1>0, <1>1, <1>5 DEF ShadersAreKept, MemoIsLive
<1>8. PlanIsOf(p, o) /\ PlanIsOf(Bindings!AfterDraw(p, h), o)
  BY <1>2, PreparedIsPlan, DrawnIsPlan
<1>9. Bindings!BoundByPlan(p, h) = Bindings!BoundDirectly(h, words)
  BY <1>3, <1>8, PlanBindsDirectly
<1>10. CASE ~translated
  <2>1. draw' = Bindings!IdleCp /\ UNCHANGED plan
    BY <1>10 DEF Bindings!Draw
  <2>2. PlanIsLive'
    BY <1>1, <1>5, <2>1, PlanStays DEF Live
  <2>3. DrawHolds'
    BY <2>1 DEF DrawHolds, Bindings!IdleCp
  <2> QED BY <1>6, <1>7, <2>2, <2>3 DEF BindingsInv
<1>11. ASSUME translated, draw'.pc = "drawn", draw'.object = o, draw'.seen = draw.seen,
              draw'.bound = Bindings!BoundDirectly(h, words)
       PROVE  DrawHolds'
  <2>1. Bindings!BoundDirectly(object[draw.object].hash, object[draw.object].words)'
          = Bindings!BoundDirectly(h, words)
    <3>1. object'[draw'.object].hash = h /\ object'[draw'.object].words = words
      BY <1>4, <1>11
    <3>2. register' = register
      BY <1>1
    <3> HIDE DEF h, words
    <3> QED BY <3>1, <3>2 DEF Bindings!BoundDirectly
  <2> QED BY <2>1, <1>2, <1>4, <1>5, <1>11 DEF DrawHolds
<1>12. CASE translated /\ cached /\ Reads[h] # <<>>
  <2>1. /\ plan' = [entry |-> Bindings!AfterDraw(p, h), epoch |-> epoch]
        /\ draw' = [[Bindings!IdleCp EXCEPT !.pc = "drawn", !.object = o, !.seen = draw.seen]
                      EXCEPT !.bound = Bindings!BoundByPlan(p, h)]
    BY <1>12 DEF Bindings!Draw
  <2>2. DrawHolds'
    <3>1. draw'.pc = "drawn" /\ draw'.object = o /\ draw'.seen = draw.seen
          /\ draw'.bound = Bindings!BoundByPlan(p, h)
      BY <2>1 DEF Bindings!IdleCp
    <3> QED BY <3>1, <1>9, <1>11, <1>12
  <2>3. PlanIsLive'
    <3> DEFINE drawn == Bindings!AfterDraw(p, h)
    <3>1. PlanIsOf(drawn, o)
      BY <1>8
    <3> HIDE DEF drawn
    <3>2. plan'.entry = drawn /\ plan'.epoch = epoch
      BY <2>1 DEF drawn
    <3>3. drawn.object = o
      BY <3>1 DEF PlanIsOf
    <3>4. PlanIsOf(plan.entry, plan.entry.object)'
      BY <3>1, <3>2, <3>3, <1>4 DEF PlanIsOf
    <3>5. epoch' = epoch /\ epoch \in 0 .. epoch
      BY <1>0, <1>1, BindingsConstants DEF BindingTypes
    <3> QED BY <3>2, <3>3, <3>4, <3>5, <1>2, <1>5 DEF PlanIsLive
  <2> QED BY <1>6, <1>7, <2>2, <2>3 DEF BindingsInv
<1>13. CASE translated /\ ~(cached /\ Reads[h] # <<>>)
  <2>1. /\ draw' = [[Bindings!IdleCp EXCEPT !.pc = "drawn", !.object = o, !.seen = draw.seen]
                      EXCEPT !.bound = Bindings!BoundDirectly(h, words)]
        /\ UNCHANGED plan
    BY <1>13 DEF Bindings!Draw
  <2>2. DrawHolds'
    <3>1. draw'.pc = "drawn" /\ draw'.object = o /\ draw'.seen = draw.seen
          /\ draw'.bound = Bindings!BoundDirectly(h, words)
      BY <2>1 DEF Bindings!IdleCp
    <3> QED BY <3>1, <1>11, <1>13
  <2>3. PlanIsLive'
    BY <1>1, <1>5, <2>1, PlanStays DEF Live
  <2> QED BY <1>6, <1>7, <2>2, <2>3 DEF BindingsInv
<1> QED BY <1>10, <1>12, <1>13

LEMMA InitializeShaderStorageStep ==
  ASSUME BindingsInv, NEW h \in Ucodes, NEW o \in Objects, NEW ok \in BOOLEAN,
         Bindings!InitializeShaderStorage(h, o, ok)
  PROVE  BindingsInv'
<1> DEFINE s == Bindings!KeptShader(h, h)
           kept == s.translated \/ ok
           stored == IF kept THEN [s EXCEPT !.translated = TRUE] ELSE Nothing
<1>0. BindingTypes
  BY DEF BindingsInv
<1>1. /\ draw.pc = "idle" /\ epoch < MaxEpochs /\ o \in Bindings!Places(h)
      /\ epoch' = epoch + 1 /\ load_memo' = [load_memo EXCEPT !.object = Nothing]
      /\ shaders' = [shaders EXCEPT ![h] = IF kept THEN o ELSE Nothing]
      /\ object' = [object EXCEPT ![o] = stored]
      /\ UNCHANGED <<memory, plan, register, draw>>
  BY DEF Bindings!InitializeShaderStorage, Bindings!LoadMemoReset
<1>2. /\ o # Nothing /\ s \in Bindings!Shaders /\ s.hash = h
      /\ \A other \in Ucodes \ {h} : shaders[other] # o
      /\ \A x \in Objects \ {o} : Live(x) => object[x].hash # h
  BY <1>1, PlacedShader
<1>3. /\ stored = Nothing \/ (stored \in Bindings!Shaders /\ stored.hash = h)
      /\ stored = Nothing <=> ~kept
  <2> HIDE DEF s
  <2>1. /\ [s EXCEPT !.translated = TRUE] \in Bindings!Shaders
        /\ [s EXCEPT !.translated = TRUE].hash = h
    BY <1>2 DEF Bindings!Shaders
  <2> QED BY <2>1, BindingsConstants
<1> HIDE DEF s, kept, stored
<1>4. /\ shaders' \in [Ucodes -> Objects \union {Nothing}]
      /\ object' \in [Objects -> Bindings!Shaders \union {Nothing}]
      /\ ShadersAreKept'
  <2>1. shaders' = [shaders EXCEPT ![h] = IF stored = Nothing THEN Nothing ELSE o]
    BY <1>1, <1>3
  <2> QED BY <2>1, <1>1, <1>2, <1>3, ShaderReplaced
<1>5. epoch' \in 0 .. MaxEpochs /\ epoch \in Nat
  BY <1>0, <1>1, BindingsConstants DEF BindingTypes
<1>6. /\ load_memo' \in [address : Addresses \union {Nothing}, words : Ucodes \union {Nothing},
                         object : Objects \union {Nothing}]
      /\ load_memo'.object = Nothing
  BY <1>0, <1>1 DEF BindingTypes
<1>7. BindingTypes'
  BY <1>0, <1>1, <1>4, <1>5, <1>6 DEF BindingTypes
<1>8. MemoIsLive' /\ DrawHolds'
  BY <1>1, <1>6 DEF MemoIsLive, DrawHolds
<1>9. PlanIsLive'
  <2>1. PlanIsLive
    BY DEF BindingsInv
  <2>2. plan.entry.object # Nothing => plan.epoch \in 0 .. epoch + 1 /\ plan.epoch # epoch + 1
    BY <2>1, <1>5 DEF PlanIsLive
  <2> QED BY <2>1, <2>2, <1>1 DEF PlanIsLive
<1> QED BY <1>4, <1>7, <1>8, <1>9 DEF BindingsInv

LEMMA BindingsInvariant == AllSpec => []BindingsInv
<1>1. BindingsInv /\ [AllNext]_allVars => BindingsInv'
  <2> SUFFICES ASSUME BindingsInv, [AllNext]_allVars PROVE BindingsInv'
    OBVIOUS
  <2>1. Bindings!Next \/ UNCHANGED bindingsVars
    BY ComponentsStep
  <2>2. CASE Bindings!Next
    BY <2>2, BindingsGuestStep, LoadShaderStep, LoadByHashStep, DrawStep,
       InitializeShaderStorageStep DEF Bindings!Next
  <2>3. CASE UNCHANGED bindingsVars
    <3>1. UNCHANGED <<memory, shaders, object, load_memo, epoch, plan, register, draw>>
      BY <2>3 DEF bindingsVars
    <3>2. BindingTypes' /\ DrawHolds'
      BY <3>1 DEF BindingsInv, BindingTypes, DrawHolds, Live, Bindings!BoundDirectly
    <3> QED BY <3>1, <3>2, ShadersStay DEF BindingsInv
  <2> QED BY <2>1, <2>2, <2>3
<1> QED BY <1>1, ComponentsInit, BindingsInit, PTL DEF AllSpec

(* A shader the load memo gives has the words compared with, and is not one  *)
(* deleted since; and a draw's slots are those of the live shader's bindings *)
(* and of the registers, with a plan or without: for any number of shaders   *)
(* and objects, whatever addresses are given again, whatever guest threads   *)
(* write meanwhile (ShaderLoadMemo, NativeTextureBindingCache).              *)
THEOREM DrawBindsItsShaders == AllSpec => []BindingsAreGuests
<1>1. BindingsInv => BindingsAreGuests
  BY DEF BindingsInv, DrawHolds, Live, BindingsAreGuests, Bindings!HitIsCurrent,
         Bindings!BindingsAreGuests
<1> QED BY <1>1, BindingsInvariant, PTL

(***************************************************************************)
(* The frames' schedule.                                                   *)
(***************************************************************************)
Tunings == [switches : SUBSET Switches, spin : Int, chunk : Int]
Counts == [Refusals -> Nat]
TraceRow == [frame : Nat, draws : Nat, native : Nat, refusal : [Refusals -> Int],
             refused : Counts]
RecordRow == [kind : {"draw", "copy", "stats"}, frame : Nat, sequence : Nat, copies : Nat]
Finished == [frame : Nat, held : SUBSET Nat, count : Nat, draws : Nat]

ScheduleTypes ==
  /\ config \in Configurations /\ frames \in 0 .. config.last
  /\ cvars \in [generic : BOOLEAN, asset : 0 .. 2, tuning : Tunings]
  /\ pending \in [native : BOOLEAN, asset : BOOLEAN, native_presses : BOOLEAN,
                  asset_presses : BOOLEAN]
  /\ this \in [draws : 0 .. MaxDraws, native : 0 .. MaxDraws, copies : 0 .. MaxCopies,
               refused : Counts]
  /\ this.native <= this.draws
  /\ mode \in 0 .. 2
  /\ refusals \in [interval : Counts, previous : Counts]
  /\ trace \in [enabled : BOOLEAN, elapsed : Int, rows : Seq(TraceRow), dropped : Nat,
                status : {"pending", "complete", "capacity_overflow"}]
  /\ capture \in [on : BOOLEAN, held : SUBSET Nat, count : Nat, finished : SUBSET Finished]
  /\ records \in [next : [buffer : Seq(RecordRow), sequence : Nat, copies : Nat],
                  written : Seq(RecordRow)]

(* From the first swap on, and before it if frame 1 has options of its own, *)
(* a perf benchmark's tuning is what its schedule says of the frame.        *)
Scheduled(frame) ==
  LET options == Phase(cvars, frame).options
  IN ApplyPerfOptions(IF options # NoOptions THEN options ELSE CurrentPerfOptions(config.tuning))
TuningIsScheduled ==
  config.benchmark = "perf" =>
    \/ cvars.tuning = Scheduled(frames + 1)
    \/ frames = 0 /\ Phase(cvars, 1).options = NoOptions

IntervalIsOfNow == ran \subseteq {Condition}

(* While the trace is on, the interval's refusals less those of before are  *)
(* the frame's, and the next row continues the rows.                        *)
TraceFollows ==
  /\ trace.enabled =>
       /\ \A kind \in Refusals :
            refusals.interval[kind] - refusals.previous[kind] = this.refused[kind]
       /\ trace.status = "pending"
       /\ trace.rows # <<>> => /\ trace.elapsed >= TraceStart /\ trace.elapsed >= 0
                               /\ trace.rows[1].frame + Len(trace.rows) + trace.dropped = frames + 1
  /\ Len(trace.rows) <= TraceRows
  /\ trace.dropped > 0 => Len(trace.rows) = TraceRows
  /\ RowsAreOfTheirFrames

CaptureIsOfFrame ==
  /\ capture.on <=> frames > 0 /\ frames + 1 \in config.captures
  /\ capture.on => capture.held \subseteq {frames + 1} /\ capture.count = this.draws
  /\ ~capture.on => capture.held = {} /\ capture.count = 0
  /\ CapturesAreWhole

(* The records gathered are the frame's, and number its draws.              *)
DrawsOf(rows) == {i \in 1 .. Len(rows) : rows[i].kind = "draw"}
NumberedBy(rows, frame) ==
  \A i \in 1 .. Len(rows) :
    /\ rows[i].frame = frame
    /\ rows[i].kind = "draw" =>
         rows[i].sequence = Cardinality({j \in DrawsOf(rows) : j < i})
RecordsFollow ==
  /\ Len(records.next.buffer) <= RecordsMax
  /\ \A i \in 1 .. Len(records.next.buffer) : records.next.buffer[i].kind # "stats"
  /\ NumberedBy(records.next.buffer, frames + 1)
  /\ records.next.sequence = Cardinality(DrawsOf(records.next.buffer))
  /\ RecordsAreOfOneFrame

ScheduleInv ==
  /\ ScheduleTypes /\ KeysAreCounted /\ TuningIsScheduled /\ IntervalIsOfNow
  /\ TraceFollows /\ CaptureIsOfFrame /\ RecordsFollow

LEMMA ScheduleConfig ==
  ASSUME config \in Configurations
  PROVE  /\ config.benchmark \in {"none", "perf", "asset"}
         /\ config.start \in Int /\ config.last \in Nat /\ config.asset \in 0 .. 2
         /\ config.generic \in BOOLEAN /\ config.trace \in BOOLEAN /\ config.records \in BOOLEAN
         /\ config.options \in Seq(SUBSET Options) /\ config.tuning \in Tunings
BY FrameScheduleAssumption DEF Tunings

LEMMA ScheduleConstants ==
  /\ 1 \in Periodic /\ Length \in Nat \ {0} /\ Warmup \in Nat
  /\ TraceStart \in Nat /\ TraceEnd \in Nat /\ TraceRows \in Nat
  /\ RecordsMax \in Nat /\ MaxDraws \in Nat /\ MaxCopies \in Nat
  /\ "none" \notin Options
BY FrameScheduleAssumption DEF Options

LEMMA WindowIsNat ==
  ASSUME NEW n \in Nat, NEW l \in Nat \ {0}
  PROVE  n \div l \in Nat
<1>1. n \div l \in Int /\ l * (n \div l) + (n % l) = n /\ n % l \in 0 .. l - 1
  OBVIOUS
<1>2. ASSUME n \div l < 0 PROVE FALSE
  <2>1. n \div l <= -1
    BY <1>1, <1>2
  <2>2. l * (n \div l) <= -l
    BY <1>1, <2>1
  <2> QED BY <1>1, <2>2
<1> QED BY <1>1, <1>2

(* The schedule's window, options and phase of a frame are the settings'    *)
(* alone; only the asset mode outside windows depends on the keys.          *)
LEMMA PhaseOfFrame ==
  ASSUME NEW c, NEW d, NEW frame
  PROVE  /\ Phase(c, frame).window = Phase(d, frame).window
         /\ Phase(c, frame).warmup = Phase(d, frame).warmup
         /\ Phase(c, frame).options = Phase(d, frame).options
         /\ c.asset = d.asset => Phase(c, frame) = Phase(d, frame)
BY DEF Phase

LEMMA PhaseShape ==
  ASSUME config \in Configurations, NEW c, c.asset \in 0 .. 2, NEW frame \in Nat
  PROVE  /\ Phase(c, frame).mode \in 0 .. 2
         /\ Phase(c, frame).window \in Int
         /\ config.benchmark = "perf" /\ Phase(c, frame).options = NoOptions
              => Phase(c, frame).window < 0
<1> DEFINE window == (frame - config.start) \div Length
           windows == CASE config.benchmark = "perf" -> Len(config.options)
                        [] config.benchmark = "asset" -> Len(AssetModes)
                        [] OTHER -> 0
           inside == windows > 0 /\ frame >= config.start /\ window < windows
<1>0. /\ config.benchmark \in {"none", "perf", "asset"} /\ config.start \in Int
      /\ config.options \in Seq(SUBSET Options) /\ Length \in Nat \ {0} /\ "none" \notin Options
  BY ScheduleConfig, ScheduleConstants
<1>1. CASE inside
  <2>1. frame - config.start \in Nat
    BY <1>0, <1>1
  <2>2. window \in Nat
    BY <1>0, <2>1, WindowIsNat
  <2>3. /\ Phase(c, frame).window = window
        /\ Phase(c, frame).options = IF config.benchmark = "perf" THEN config.options[window + 1]
                                     ELSE NoOptions
        /\ Phase(c, frame).mode = IF config.benchmark = "perf" THEN 0 ELSE AssetModes[window + 1]
    BY <1>1 DEF Phase
  <2> HIDE DEF window
  <2>4. CASE config.benchmark = "perf"
    <3>1. config.options[window + 1] \in SUBSET Options
      BY <1>0, <1>1, <2>2, <2>4
    <3>2. config.options[window + 1] # NoOptions
      BY <1>0, <3>1 DEF NoOptions
    <3> QED BY <2>2, <2>3, <2>4, <3>2
  <2>5. CASE config.benchmark = "asset"
    <3>1. window + 1 \in 1 .. 6
      BY <1>1, <2>2, <2>5 DEF AssetModes
    <3>2. AssetModes[window + 1] \in 0 .. 2
      BY <3>1 DEF AssetModes
    <3> QED BY <2>2, <2>3, <2>5, <3>2
  <2> QED BY <1>0, <1>1, <2>4, <2>5
<1>2. CASE ~inside
  <2>1. Phase(c, frame).window = -1
        /\ Phase(c, frame).mode = IF config.benchmark = "perf" THEN 0 ELSE c.asset
    BY <1>2 DEF Phase
  <2> QED BY <2>1
<1> QED BY <1>1, <1>2

LEMMA AppliedTuning ==
  ASSUME NEW options
  PROVE  ApplyPerfOptions(options) \in Tunings
BY DEF ApplyPerfOptions, Tunings

LEMMA ScheduleInit == Init => ScheduleInv
<1> SUFFICES ASSUME Init PROVE ScheduleInv
  OBVIOUS
<1>1. config \in Configurations /\ config.last \in Nat /\ config.generic \in BOOLEAN
      /\ config.asset \in 0 .. 2 /\ config.trace \in BOOLEAN /\ config.tuning \in Tunings
  BY ScheduleConfig DEF Init
<1>2. NoRefusals \in Counts /\ \A kind \in Refusals : NoRefusals[kind] = 0
  BY DEF NoRefusals, Counts
<1>3. Phase([asset |-> config.asset], 1).mode \in 0 .. 2
  BY <1>1, PhaseShape
<1>4. InitialTuning \in Tunings
  BY <1>1, AppliedTuning DEF InitialTuning
<1>5. /\ cvars = [generic |-> config.generic, asset |-> config.asset, tuning |-> InitialTuning]
      /\ frames = 0 /\ this = NewFrame /\ ran = {}
      /\ mode = Phase([asset |-> config.asset], 1).mode
      /\ refusals = [interval |-> NoRefusals, previous |-> NoRefusals]
      /\ pending = [native |-> FALSE, asset |-> FALSE, native_presses |-> FALSE,
                    asset_presses |-> FALSE]
      /\ trace = [enabled |-> config.trace, elapsed |-> -1, rows |-> <<>>, dropped |-> 0,
                  status |-> "pending"]
      /\ capture = [on |-> FALSE, held |-> {}, count |-> 0, finished |-> {}]
      /\ records = [next |-> NoRecords, written |-> <<>>]
  BY DEF Init
<1>6. ScheduleTypes
  <2>1. this \in [draws : 0 .. MaxDraws, native : 0 .. MaxDraws, copies : 0 .. MaxCopies,
                  refused : Counts] /\ this.native <= this.draws
    BY <1>2, <1>5, ScheduleConstants DEF NewFrame
  <2>2. trace \in [enabled : BOOLEAN, elapsed : Int, rows : Seq(TraceRow), dropped : Nat,
                   status : {"pending", "complete", "capacity_overflow"}]
    BY <1>1, <1>5
  <2>3. records \in [next : [buffer : Seq(RecordRow), sequence : Nat, copies : Nat],
                     written : Seq(RecordRow)]
    BY <1>5 DEF NoRecords
  <2>4. /\ cvars \in [generic : BOOLEAN, asset : 0 .. 2, tuning : Tunings]
        /\ pending \in [native : BOOLEAN, asset : BOOLEAN, native_presses : BOOLEAN,
                        asset_presses : BOOLEAN]
        /\ refusals \in [interval : Counts, previous : Counts]
        /\ capture \in [on : BOOLEAN, held : SUBSET Nat, count : Nat, finished : SUBSET Finished]
        /\ frames \in 0 .. config.last /\ mode \in 0 .. 2
    BY <1>1, <1>2, <1>3, <1>4, <1>5
  <2> QED BY <1>1, <2>1, <2>2, <2>3, <2>4 DEF ScheduleTypes
<1>7. KeysAreCounted
  BY <1>5 DEF KeysAreCounted
<1>8. TuningIsScheduled
  <2>1. Phase(cvars, 1).options = Phase([asset |-> config.asset], 1).options
    BY PhaseOfFrame
  <2>2. CASE Phase(cvars, 1).options = NoOptions
    BY <1>5, <2>2 DEF TuningIsScheduled
  <2>3. CASE Phase(cvars, 1).options # NoOptions
    <3>1. cvars.tuning = ApplyPerfOptions(Phase(cvars, 1).options)
      BY <1>5, <2>1, <2>3 DEF InitialTuning
    <3> QED BY <1>5, <2>3, <3>1 DEF TuningIsScheduled, Scheduled
  <2> QED BY <2>2, <2>3
<1>9. IntervalIsOfNow
  BY <1>5 DEF IntervalIsOfNow
<1>10. TraceFollows
  BY <1>2, <1>5, ScheduleConstants DEF TraceFollows, RowsAreOfTheirFrames, NewFrame
<1>11. CaptureIsOfFrame
  BY <1>5 DEF CaptureIsOfFrame, CapturesAreWhole
<1>12. RecordsFollow
  <2>1. DrawsOf(<<>>) = {}
    BY DEF DrawsOf
  <2>2. /\ records.next.buffer = <<>> /\ records.next.sequence = 0 /\ records.written = <<>>
        /\ Len(records.next.buffer) = 0 /\ Len(records.written) = 0
    BY <1>5 DEF NoRecords
  <2>3. records.next.sequence = Cardinality(DrawsOf(records.next.buffer))
    BY <2>1, <2>2, FS_EmptySet
  <2>4. RecordsAreOfOneFrame
    <3>1. 1 .. Len(records.written) = {}
      BY <2>2
    <3> QED BY <3>1 DEF RecordsAreOfOneFrame
  <2>5. NumberedBy(records.next.buffer, frames + 1)
    BY <2>2 DEF NumberedBy
  <2> QED BY <2>2, <2>3, <2>4, <2>5, ScheduleConstants DEF RecordsFollow
<1> QED BY <1>6, <1>7, <1>8, <1>9, <1>10, <1>11, <1>12 DEF ScheduleInv

LEMMA RefusedCounts ==
  ASSUME NEW counts \in Counts, NEW kinds
  PROVE  /\ Refused(counts, kinds) \in Counts
         /\ \A kind \in Refusals :
              Refused(counts, kinds)[kind] = counts[kind] + (IF kind \in kinds THEN 1 ELSE 0)
BY DEF Refused, Counts

LEMMA DrawsAreFinite ==
  ASSUME NEW rows \in Seq(RecordRow), NEW i
  PROVE  /\ IsFiniteSet(DrawsOf(rows)) /\ Cardinality(DrawsOf(rows)) \in Nat
         /\ IsFiniteSet({j \in DrawsOf(rows) : j < i})
<1>1. IsFiniteSet(1 .. Len(rows))
  BY FS_Interval
<1>2. DrawsOf(rows) \subseteq 1 .. Len(rows)
  BY DEF DrawsOf
<1>3. IsFiniteSet(DrawsOf(rows))
  BY <1>1, <1>2, FS_Subset
<1> QED BY <1>3, FS_Subset, FS_CardinalityType

(* One more row of the frame keeps the numbering. *)
LEMMA AppendedIsNumbered ==
  ASSUME NEW rows \in Seq(RecordRow), NEW entry \in RecordRow, NEW frame,
         NumberedBy(rows, frame), entry.frame = frame,
         entry.kind = "draw" => entry.sequence = Cardinality(DrawsOf(rows))
  PROVE  /\ NumberedBy(Append(rows, entry), frame)
         /\ Cardinality(DrawsOf(Append(rows, entry)))
              = Cardinality(DrawsOf(rows)) + (IF entry.kind = "draw" THEN 1 ELSE 0)
<1> DEFINE longer == Append(rows, entry)
           n == Len(rows)
<1>1. /\ n \in Nat /\ Len(longer) = n + 1 /\ longer[n + 1] = entry
      /\ \A i \in 1 .. n : longer[i] = rows[i]
  BY AppendProperties
<1> HIDE DEF longer
<1>2. DrawsOf(longer) = DrawsOf(rows) \union (IF entry.kind = "draw" THEN {n + 1} ELSE {})
  BY <1>1 DEF DrawsOf
<1>3. ASSUME NEW i \in 1 .. n
      PROVE  {j \in DrawsOf(longer) : j < i} = {j \in DrawsOf(rows) : j < i}
  BY <1>1, <1>2
<1>4. {j \in DrawsOf(longer) : j < n + 1} = DrawsOf(rows)
  <2>1. \A j \in DrawsOf(rows) : j \in 1 .. n
    BY DEF DrawsOf
  <2> QED BY <1>1, <1>2, <2>1
<1>5. NumberedBy(longer, frame)
  <2> SUFFICES ASSUME NEW i \in 1 .. n + 1
               PROVE  /\ longer[i].frame = frame
                      /\ longer[i].kind = "draw" =>
                           longer[i].sequence = Cardinality({j \in DrawsOf(longer) : j < i})
    BY <1>1 DEF NumberedBy
  <2>1. CASE i <= n
    <3>1. i \in 1 .. n /\ longer[i] = rows[i]
      BY <1>1, <2>1
    <3> QED BY <3>1, <1>3 DEF NumberedBy
  <2>2. CASE i = n + 1
    BY <1>1, <1>4, <2>2
  <2> QED BY <1>1, <2>1, <2>2
<1>6. Cardinality(DrawsOf(longer))
        = Cardinality(DrawsOf(rows)) + (IF entry.kind = "draw" THEN 1 ELSE 0)
  <2>1. n + 1 \notin DrawsOf(rows)
    BY <1>1 DEF DrawsOf
  <2>2. IsFiniteSet(DrawsOf(rows)) /\ Cardinality(DrawsOf(rows)) \in Nat
    BY DrawsAreFinite
  <2>3. CASE entry.kind = "draw"
    BY <1>2, <2>1, <2>2, <2>3, FS_AddElement
  <2>4. CASE entry.kind # "draw"
    BY <1>2, <2>2, <2>4
  <2> QED BY <2>3, <2>4
<1> QED BY <1>5, <1>6 DEF longer

(* NextSlot keeps the records of a frame numbered. *)
LEMMA RecordedFollows ==
  ASSUME ScheduleTypes, RecordsFollow, NEW kind \in {"draw", "copy"}
  PROVE  LET r == Recorded(records.next, kind)
         IN /\ r \in [buffer : Seq(RecordRow), sequence : Nat, copies : Nat]
            /\ Len(r.buffer) <= RecordsMax
            /\ \A i \in 1 .. Len(r.buffer) : r.buffer[i].kind # "stats"
            /\ NumberedBy(r.buffer, frames + 1)
            /\ r.sequence = Cardinality(DrawsOf(r.buffer))
<1> DEFINE next == records.next
           entry == [kind |-> kind, frame |-> frames + 1, sequence |-> next.sequence,
                     copies |-> next.copies]
           r == Recorded(next, kind)
<1>1. /\ next \in [buffer : Seq(RecordRow), sequence : Nat, copies : Nat] /\ frames \in Nat
  BY ScheduleConfig DEF ScheduleTypes
<1>2. /\ next.buffer \in Seq(RecordRow) /\ next.sequence \in Nat /\ next.copies \in Nat
      /\ Len(next.buffer) \in Nat
  BY <1>1
<1>3. entry \in RecordRow
  BY <1>1, <1>2 DEF RecordRow
<1>4. r.buffer = (IF Len(next.buffer) < RecordsMax THEN Append(next.buffer, entry) ELSE next.buffer)
      /\ r.sequence = (IF Len(next.buffer) < RecordsMax /\ kind = "draw" THEN next.sequence + 1
                       ELSE next.sequence)
      /\ r.copies = (IF kind = "copy" THEN next.copies + 1 ELSE next.copies)
      /\ r = [buffer |-> r.buffer, sequence |-> r.sequence, copies |-> r.copies]
  BY DEF Recorded
<1>5. next.sequence = Cardinality(DrawsOf(next.buffer)) /\ NumberedBy(next.buffer, frames + 1)
      /\ Len(next.buffer) <= RecordsMax
      /\ \A i \in 1 .. Len(next.buffer) : next.buffer[i].kind # "stats"
  BY DEF RecordsFollow
<1> HIDE DEF r, next
<1>6. CASE Len(next.buffer) < RecordsMax
  <2>1. /\ Append(next.buffer, entry) \in Seq(RecordRow)
        /\ Len(Append(next.buffer, entry)) = Len(next.buffer) + 1
        /\ \A i \in 1 .. Len(next.buffer) + 1 :
             Append(next.buffer, entry)[i] = IF i <= Len(next.buffer) THEN next.buffer[i] ELSE entry
    <3> HIDE DEF entry
    <3> QED BY <1>2, <1>3
  <2>2. /\ NumberedBy(Append(next.buffer, entry), frames + 1)
        /\ Cardinality(DrawsOf(Append(next.buffer, entry)))
             = Cardinality(DrawsOf(next.buffer)) + (IF kind = "draw" THEN 1 ELSE 0)
    <3>1. /\ entry.frame = frames + 1 /\ entry.kind = kind
          /\ (entry.kind = "draw" => entry.sequence = Cardinality(DrawsOf(next.buffer)))
      BY <1>5
    <3> HIDE DEF entry
    <3> QED BY <3>1, <1>2, <1>3, <1>5, AppendedIsNumbered
  <2>3. \A i \in 1 .. Len(next.buffer) + 1 : Append(next.buffer, entry)[i].kind # "stats"
    <3>1. entry.kind # "stats"
      OBVIOUS
    <3> HIDE DEF entry
    <3> QED BY <2>1, <3>1, <1>2, <1>5
  <2>4. r.buffer = Append(next.buffer, entry) /\ r.copies \in Nat
        /\ r.sequence = Cardinality(DrawsOf(next.buffer)) + (IF kind = "draw" THEN 1 ELSE 0)
        /\ r.sequence \in Nat
    BY <1>2, <1>4, <1>5, <1>6
  <2>5. Len(next.buffer) + 1 <= RecordsMax
    BY <1>2, <1>6, ScheduleConstants
  <2>6. r \in [buffer : Seq(RecordRow), sequence : Nat, copies : Nat]
    <3> HIDE DEF entry
    <3> QED BY <1>4, <2>1, <2>4
  <2> HIDE DEF entry
  <2>7. /\ Len(r.buffer) <= RecordsMax
        /\ \A i \in 1 .. Len(r.buffer) : r.buffer[i].kind # "stats"
    BY <2>1, <2>3, <2>4, <2>5
  <2>8. /\ NumberedBy(r.buffer, frames + 1)
        /\ r.sequence = Cardinality(DrawsOf(r.buffer))
    BY <2>2, <2>4
  <2> QED BY <2>6, <2>7, <2>8 DEF r, next
<1>7. CASE ~(Len(next.buffer) < RecordsMax)
  <2>1. r.buffer = next.buffer /\ r.sequence = next.sequence /\ r.copies \in Nat
    BY <1>2, <1>4, <1>7
  <2>2. r \in [buffer : Seq(RecordRow), sequence : Nat, copies : Nat]
    BY <1>2, <1>4, <2>1
  <2> QED BY <1>5, <2>1, <2>2 DEF r, next
<1> QED BY <1>6, <1>7

(* What a frame's measures are taken under does not change within it. *)
LEMMA SettingsStay ==
  ASSUME UNCHANGED <<config, cvars, frames>>
  PROVE  /\ TuningIsScheduled => TuningIsScheduled'
         /\ UNCHANGED mode => Condition' = Condition
<1>1. TuningIsScheduled => TuningIsScheduled'
  BY DEF TuningIsScheduled, Scheduled, Phase
<1>2. ASSUME UNCHANGED mode PROVE Condition' = Condition
  BY <1>2 DEF Condition, Phase
<1> QED BY <1>1, <1>2

LEMMA RecordsStep ==
  ASSUME ScheduleTypes, RecordsFollow, UNCHANGED frames, NEW kind \in {"draw", "copy"},
         records' = IF WantsFrame(frames + 1)
                    THEN [records EXCEPT !.next = Recorded(@, kind)] ELSE records
  PROVE  /\ RecordsFollow'
         /\ records' \in [next : [buffer : Seq(RecordRow), sequence : Nat, copies : Nat],
                          written : Seq(RecordRow)]
<1> DEFINE r == Recorded(records.next, kind)
<1>0. records \in [next : [buffer : Seq(RecordRow), sequence : Nat, copies : Nat],
                   written : Seq(RecordRow)]
  BY DEF ScheduleTypes
<1>1. CASE WantsFrame(frames + 1)
  <2>1. /\ r \in [buffer : Seq(RecordRow), sequence : Nat, copies : Nat]
        /\ Len(r.buffer) <= RecordsMax
        /\ \A i \in 1 .. Len(r.buffer) : r.buffer[i].kind # "stats"
        /\ NumberedBy(r.buffer, frames + 1)
        /\ r.sequence = Cardinality(DrawsOf(r.buffer))
    BY RecordedFollows
  <2> HIDE DEF r
  <2>2. records'.next = r /\ records'.written = records.written
        /\ records' = [next |-> r, written |-> records.written]
    BY <1>0, <1>1 DEF r
  <2>3. records' \in [next : [buffer : Seq(RecordRow), sequence : Nat, copies : Nat],
                      written : Seq(RecordRow)]
    BY <1>0, <2>1, <2>2
  <2>4. RecordsAreOfOneFrame'
    <3>1. RecordsAreOfOneFrame
      BY DEF RecordsFollow
    <3>2. records'.written = records.written /\ frames' = frames
      BY <2>2
    <3> QED BY <3>1, <3>2 DEF RecordsAreOfOneFrame
  <2>5. RecordsFollow'
    BY <2>1, <2>2, <2>4 DEF RecordsFollow
  <2> QED BY <2>3, <2>5
<1>2. CASE ~WantsFrame(frames + 1)
  <2>1. records' = records
    BY <1>2
  <2> QED BY <1>0, <2>1 DEF RecordsFollow, RecordsAreOfOneFrame
<1> QED BY <1>1, <1>2

LEMMA IssueDrawStep ==
  ASSUME ScheduleInv, IssueDraw
  PROVE  ScheduleInv'
<1>0. ScheduleTypes /\ MaxDraws \in Nat
  BY ScheduleConstants DEF ScheduleInv
<1>1. /\ this.draws < MaxDraws /\ ran' = ran \union {Condition}
      /\ records' = IF WantsFrame(frames + 1)
                    THEN [records EXCEPT !.next = Recorded(@, "draw")] ELSE records
      /\ capture' = IF capture.on
                    THEN [capture EXCEPT !.held = @ \union {frames + 1}, !.count = @ + 1]
                    ELSE capture
      /\ UNCHANGED <<config, cvars, pending, frames, mode, trace>>
  BY DEF IssueDraw
<1>2. PICK o \in PossibleOutcomes :
        /\ this' = [this EXCEPT !.draws = @ + 1,
                                !.native = IF o.native THEN @ + 1 ELSE @,
                                !.refused = Refused(@, o.refused)]
        /\ refusals' = [refusals EXCEPT !.interval = Refused(@, o.refused)]
  BY DEF IssueDraw
<1> DEFINE refused == Refused(this.refused, o.refused)
           interval == Refused(refusals.interval, o.refused)
<1>3. /\ this.refused \in Counts /\ refusals.interval \in Counts /\ refusals.previous \in Counts
      /\ this.draws \in Nat /\ this.native \in Nat /\ this.copies \in 0 .. MaxCopies
      /\ this.native <= this.draws
      /\ frames \in Nat
  BY <1>0, ScheduleConfig DEF ScheduleTypes
<1>4. /\ refused \in Counts /\ interval \in Counts
      /\ \A kind \in Refusals :
           interval[kind] - refused[kind] = refusals.interval[kind] - this.refused[kind]
  <2>1. /\ refused \in Counts
        /\ \A kind \in Refusals :
             refused[kind] = this.refused[kind] + (IF kind \in o.refused THEN 1 ELSE 0)
    BY <1>3, RefusedCounts
  <2>2. /\ interval \in Counts
        /\ \A kind \in Refusals :
             interval[kind] = refusals.interval[kind] + (IF kind \in o.refused THEN 1 ELSE 0)
    BY <1>3, RefusedCounts
  <2> HIDE DEF refused, interval
  <2> QED BY <1>3, <2>1, <2>2 DEF Counts
<1>5. /\ this'.draws = this.draws + 1 /\ this'.refused = refused
      /\ this'.native = (IF o.native THEN this.native + 1 ELSE this.native)
      /\ this'.copies = this.copies
      /\ this' = [draws |-> this'.draws, native |-> this'.native, copies |-> this'.copies,
                  refused |-> this'.refused]
  BY <1>0, <1>2 DEF ScheduleTypes
<1>6. refusals' = [interval |-> interval, previous |-> refusals.previous]
  BY <1>0, <1>2 DEF ScheduleTypes
<1> HIDE DEF refused, interval
<1>7. /\ this' \in [draws : 0 .. MaxDraws, native : 0 .. MaxDraws, copies : 0 .. MaxCopies,
                    refused : Counts]
      /\ this'.native <= this'.draws
  <2>1. this'.draws \in 0 .. MaxDraws /\ this'.native \in 0 .. MaxDraws
        /\ this'.native <= this'.draws
    BY <1>0, <1>1, <1>3, <1>5
  <2> QED BY <1>3, <1>4, <1>5, <2>1
<1>8. capture' \in [on : BOOLEAN, held : SUBSET Nat, count : Nat, finished : SUBSET Finished]
  <2>1. capture \in [on : BOOLEAN, held : SUBSET Nat, count : Nat, finished : SUBSET Finished]
    BY <1>0 DEF ScheduleTypes
  <2>2. capture.held \union {frames + 1} \in SUBSET Nat /\ capture.count + 1 \in Nat
    BY <1>3, <2>1
  <2> QED BY <1>1, <2>1, <2>2
<1>9. RecordsFollow' /\ records' \in [next : [buffer : Seq(RecordRow), sequence : Nat, copies : Nat],
                                      written : Seq(RecordRow)]
  BY <1>0, <1>1, RecordsStep DEF ScheduleInv
<1>10. ScheduleTypes'
  BY <1>0, <1>1, <1>3, <1>4, <1>6, <1>7, <1>8, <1>9 DEF ScheduleTypes
<1>11. KeysAreCounted'
  BY <1>1 DEF ScheduleInv, KeysAreCounted
<1>12. TuningIsScheduled' /\ Condition' = Condition
  BY <1>1, SettingsStay DEF ScheduleInv
<1>13. IntervalIsOfNow'
  BY <1>1, <1>12 DEF ScheduleInv, IntervalIsOfNow
<1>14. TraceFollows'
  <2>1. TraceFollows /\ \A kind \in Refusals :
          /\ refusals'.interval[kind] = interval[kind] /\ refusals'.previous = refusals.previous
          /\ this'.refused[kind] = refused[kind]
    BY <1>5, <1>6 DEF ScheduleInv
  <2>2. ASSUME trace.enabled, NEW kind \in Refusals
        PROVE  refusals'.interval[kind] - refusals'.previous[kind] = this'.refused[kind]
    <3>1. refusals.interval[kind] - refusals.previous[kind] = this.refused[kind]
      BY <2>1, <2>2 DEF TraceFollows
    <3>2. /\ refusals.interval[kind] \in Nat /\ refusals.previous[kind] \in Nat
          /\ this.refused[kind] \in Nat /\ interval[kind] \in Nat /\ refused[kind] \in Nat
      BY <1>3, <1>4 DEF Counts
    <3>3. interval[kind] - refused[kind] = refusals.interval[kind] - this.refused[kind]
      BY <1>4
    <3> QED BY <2>1, <3>1, <3>2, <3>3
  <2>3. RowsAreOfTheirFrames'
    BY <1>1, <2>1 DEF TraceFollows, RowsAreOfTheirFrames
  <2> QED BY <1>1, <2>1, <2>2, <2>3 DEF TraceFollows
<1>15. CaptureIsOfFrame'
  <2>1. CaptureIsOfFrame /\ capture'.on = capture.on /\ capture'.finished = capture.finished
    BY <1>0, <1>1 DEF ScheduleInv, ScheduleTypes
  <2>2. capture.on => capture'.held = capture.held \union {frames + 1}
                      /\ capture'.count = capture.count + 1
    BY <1>0, <1>1 DEF ScheduleTypes
  <2>3. ~capture.on => capture' = capture
    BY <1>1
  <2>4. CapturesAreWhole'
    BY <1>1, <2>1 DEF CaptureIsOfFrame, CapturesAreWhole
  <2> QED BY <1>1, <1>5, <2>1, <2>2, <2>3, <2>4 DEF CaptureIsOfFrame
<1> QED BY <1>9, <1>10, <1>11, <1>12, <1>13, <1>14, <1>15 DEF ScheduleInv

LEMMA IssueCopyStep ==
  ASSUME ScheduleInv, IssueCopy
  PROVE  ScheduleInv'
<1>0. ScheduleTypes /\ MaxCopies \in Nat
  BY ScheduleConstants DEF ScheduleInv
<1>1. /\ this.copies < MaxCopies /\ this' = [this EXCEPT !.copies = @ + 1]
      /\ records' = IF WantsFrame(frames + 1)
                    THEN [records EXCEPT !.next = Recorded(@, "copy")] ELSE records
      /\ UNCHANGED <<config, cvars, pending, frames, mode, refusals, ran, trace, capture>>
  BY DEF IssueCopy
<1>2. /\ this'.draws = this.draws /\ this'.refused = this.refused /\ this'.native = this.native
      /\ this' \in [draws : 0 .. MaxDraws, native : 0 .. MaxDraws, copies : 0 .. MaxCopies,
                    refused : Counts]
  <2>1. this \in [draws : 0 .. MaxDraws, native : 0 .. MaxDraws, copies : 0 .. MaxCopies,
                  refused : Counts]
    BY <1>0 DEF ScheduleTypes
  <2>2. this.copies + 1 \in 0 .. MaxCopies
    BY <1>0, <1>1, <2>1
  <2> QED BY <1>1, <2>1, <2>2
<1>3. RecordsFollow' /\ records' \in [next : [buffer : Seq(RecordRow), sequence : Nat, copies : Nat],
                                      written : Seq(RecordRow)]
  BY <1>0, <1>1, RecordsStep DEF ScheduleInv
<1>4. ScheduleTypes'
  BY <1>0, <1>1, <1>2, <1>3 DEF ScheduleTypes
<1>5. KeysAreCounted'
  BY <1>1 DEF ScheduleInv, KeysAreCounted
<1>6. TuningIsScheduled' /\ Condition' = Condition
  BY <1>1, SettingsStay DEF ScheduleInv
<1>7. IntervalIsOfNow'
  BY <1>1, <1>6 DEF ScheduleInv, IntervalIsOfNow
<1>8. TraceFollows' /\ CaptureIsOfFrame'
  <2>1. RowsAreOfTheirFrames' <=> RowsAreOfTheirFrames
    BY <1>1 DEF RowsAreOfTheirFrames
  <2>2. CapturesAreWhole' <=> CapturesAreWhole
    BY <1>1 DEF CapturesAreWhole
  <2> QED BY <1>1, <1>2, <2>1, <2>2 DEF ScheduleInv, TraceFollows, CaptureIsOfFrame
<1> QED BY <1>3, <1>4, <1>5, <1>6, <1>7, <1>8 DEF ScheduleInv

(* A step that changes no more than the pending keys. *)
LEMMA RestStays ==
  ASSUME ScheduleInv, UNCHANGED <<config, cvars, frames, this, mode, refusals, ran, trace,
                                  capture, records>>
  PROVE  /\ TuningIsScheduled' /\ IntervalIsOfNow' /\ TraceFollows'
         /\ CaptureIsOfFrame' /\ RecordsFollow'
<1>1. TuningIsScheduled' /\ Condition' = Condition
  BY SettingsStay DEF ScheduleInv
<1>2. IntervalIsOfNow'
  BY <1>1 DEF ScheduleInv, IntervalIsOfNow
<1>3. TraceFollows' /\ CaptureIsOfFrame'
  BY DEF ScheduleInv, TraceFollows, CaptureIsOfFrame, RowsAreOfTheirFrames, CapturesAreWhole
<1>4. RecordsFollow'
  BY DEF ScheduleInv, RecordsFollow, RecordsAreOfOneFrame
<1> QED BY <1>1, <1>2, <1>3, <1>4

LEMMA PressStep ==
  ASSUME ScheduleInv, Press
  PROVE  ScheduleInv'
<1>0. ScheduleTypes /\ KeysAreCounted
  BY DEF ScheduleInv
<1>1. UNCHANGED <<config, cvars, frames, this, mode, refusals, ran, trace, capture, records>>
  BY DEF Press
<1>2. /\ pending.native \in BOOLEAN /\ pending.asset \in BOOLEAN
      /\ pending.native_presses \in BOOLEAN /\ pending.asset_presses \in BOOLEAN
  BY <1>0 DEF ScheduleTypes
<1>3. /\ pending' \in [native : BOOLEAN, asset : BOOLEAN, native_presses : BOOLEAN,
                       asset_presses : BOOLEAN]
      /\ (pending'.native_presses # pending'.native) = (pending.native_presses # pending.native)
      /\ (pending'.asset_presses # pending'.asset) = (pending.asset_presses # pending.asset)
  <2>1. CASE pending' = [pending EXCEPT !.native = Pressed(@), !.native_presses = ~@]
    <3>1. /\ pending'.native = (~pending.native) /\ pending'.asset = pending.asset
          /\ pending'.native_presses = (~pending.native_presses)
          /\ pending'.asset_presses = pending.asset_presses
          /\ pending' = [native |-> pending'.native, asset |-> pending'.asset,
                         native_presses |-> pending'.native_presses,
                         asset_presses |-> pending'.asset_presses]
      BY <1>0, <2>1 DEF ScheduleTypes, Pressed
    <3>2. /\ pending'.native \in BOOLEAN /\ pending'.native_presses \in BOOLEAN
      BY <3>1
    <3>3. (pending'.native_presses # pending'.native) = (pending.native_presses # pending.native)
      BY <1>2, <3>1
    <3> QED BY <1>2, <3>1, <3>2, <3>3
  <2>2. CASE pending' = [pending EXCEPT !.asset = Pressed(@), !.asset_presses = ~@]
    <3>1. /\ pending'.asset = (~pending.asset) /\ pending'.native = pending.native
          /\ pending'.asset_presses = (~pending.asset_presses)
          /\ pending'.native_presses = pending.native_presses
          /\ pending' = [native |-> pending'.native, asset |-> pending'.asset,
                         native_presses |-> pending'.native_presses,
                         asset_presses |-> pending'.asset_presses]
      BY <1>0, <2>2 DEF ScheduleTypes, Pressed
    <3>2. /\ pending'.asset \in BOOLEAN /\ pending'.asset_presses \in BOOLEAN
      BY <3>1
    <3>3. (pending'.asset_presses # pending'.asset) = (pending.asset_presses # pending.asset)
      BY <1>2, <3>1
    <3> QED BY <1>2, <3>1, <3>2, <3>3
  <2> QED BY <2>1, <2>2 DEF Press
<1>4. ScheduleTypes'
  BY <1>0, <1>1, <1>3 DEF ScheduleTypes
<1>5. KeysAreCounted'
  BY <1>0, <1>1, <1>3 DEF KeysAreCounted
<1> QED BY <1>1, <1>4, <1>5, RestStays DEF ScheduleInv

(* IssueSwap's settings once the keys are polled, the next frame's phase,   *)
(* and whether the interval ends.                                           *)
SwapPolled == PollDebugKeys(WithChunkWindow(cvars, frames + 1 + 1))
SwapNext == Phase(SwapPolled, frames + 1 + 1)
SwapReports ==
  Reports(frames + 1, Phase(SwapPolled, frames + 1), SwapNext, SwapPolled.generic # cvars.generic)

LEMMA SwapFields ==
  ASSUME IssueSwap
  PROVE  /\ frames < config.last /\ frames' = frames + 1 /\ config' = config
         /\ this' = NewFrame
         /\ pending' = [pending EXCEPT !.native = FALSE, !.asset = FALSE]
         /\ \E ticks \in {1, 2} : trace' = TraceRecorded(Row(frames + 1), ticks)
         /\ capture' = CaptureUpdated(frames + 1)
         /\ ran' = IF SwapReports THEN {} ELSE ran
         /\ \E interval \in {NoRefusals, refusals.interval} :
              refusals' = [interval |-> interval,
                           previous |-> IF trace'.enabled THEN interval ELSE refusals.previous]
         /\ mode' = SwapNext.mode
         /\ cvars' = [SwapPolled EXCEPT !.tuning = NextTuning(SwapPolled, SwapNext)]
         /\ records' = [next |-> NoRecords, written |-> Flushed(records.next, frames + 1)]
<1>1. \E interval \in {NoRefusals, refusals.interval} :
        refusals' = [interval |-> interval,
                     previous |-> IF trace'.enabled THEN interval ELSE refusals.previous]
  <2>1. refusals' = [interval |-> IF SwapReports THEN NoRefusals ELSE refusals.interval,
                     previous |-> IF trace'.enabled
                                  THEN IF SwapReports THEN NoRefusals ELSE refusals.interval
                                  ELSE refusals.previous]
    BY DEF IssueSwap, SwapReports, SwapNext, SwapPolled
  <2> QED BY <2>1
<1> QED BY <1>1 DEF IssueSwap, SwapReports, SwapNext, SwapPolled

(* The polled settings: the keys pressed since, and the chunk size's window. *)
LEMMA PolledFields ==
  ASSUME ScheduleTypes
  PROVE  /\ SwapPolled \in [generic : BOOLEAN, asset : 0 .. 2, tuning : Tunings]
         /\ SwapPolled.generic = (IF pending.native THEN ~cvars.generic ELSE cvars.generic)
         /\ SwapPolled.asset = (IF pending.asset THEN (IF cvars.asset = 0 THEN 2 ELSE 0)
                                ELSE cvars.asset)
         /\ config.chunks = {} => SwapPolled.tuning = cvars.tuning
         /\ SwapPolled.tuning.switches = cvars.tuning.switches
         /\ SwapPolled.tuning.spin = cvars.tuning.spin
<1> DEFINE w == WithChunkWindow(cvars, frames + 1 + 1)
<1>1. cvars \in [generic : BOOLEAN, asset : 0 .. 2, tuning : Tunings]
  BY DEF ScheduleTypes
<1>2. /\ w \in [generic : BOOLEAN, asset : 0 .. 2, tuning : Tunings]
      /\ w.generic = cvars.generic /\ w.asset = cvars.asset
      /\ config.chunks = {} => w.tuning = cvars.tuning
      /\ w.tuning.switches = cvars.tuning.switches /\ w.tuning.spin = cvars.tuning.spin
  <2>1. CASE config.chunks = {}
    BY <1>1, <2>1 DEF WithChunkWindow
  <2>2. CASE config.chunks # {}
    <3> DEFINE chunk == IF frames + 1 + 1 \in config.chunks THEN 512 ELSE 0
               t == [cvars.tuning EXCEPT !.chunk = chunk]
    <3>1. w = [cvars EXCEPT !.tuning = t]
      BY <2>2 DEF WithChunkWindow
    <3>2. t \in Tunings /\ t.switches = cvars.tuning.switches /\ t.spin = cvars.tuning.spin
      BY <1>1 DEF Tunings
    <3> HIDE DEF t, w
    <3> QED BY <1>1, <2>2, <3>1, <3>2
  <2> QED BY <2>1, <2>2
<1>3. SwapPolled = [w EXCEPT !.generic = IF pending.native THEN ~@ ELSE @,
                            !.asset = IF pending.asset THEN (IF @ = 0 THEN 2 ELSE 0) ELSE @]
  BY DEF SwapPolled, PollDebugKeys
<1> HIDE DEF w
<1>4. (IF pending.native THEN ~w.generic ELSE w.generic) \in BOOLEAN
  BY <1>2
<1>5. (IF pending.asset THEN (IF w.asset = 0 THEN 2 ELSE 0) ELSE w.asset) \in 0 .. 2
  BY <1>2
<1> QED BY <1>2, <1>3, <1>4, <1>5

(* The next frame's settings and phase, as they are after the swap. *)
LEMMA SwappedFields ==
  ASSUME ScheduleTypes, IssueSwap
  PROVE  /\ cvars' \in [generic : BOOLEAN, asset : 0 .. 2, tuning : Tunings]
         /\ cvars'.generic = SwapPolled.generic /\ cvars'.asset = SwapPolled.asset
         /\ cvars'.tuning = NextTuning(SwapPolled, SwapNext)
         /\ SwapNext = Phase(cvars', frames + 1 + 1)
         /\ SwapNext.mode \in 0 .. 2
<1>1. /\ SwapPolled \in [generic : BOOLEAN, asset : 0 .. 2, tuning : Tunings]
  BY PolledFields
<1>2. NextTuning(SwapPolled, SwapNext) \in Tunings
  BY <1>1, AppliedTuning DEF NextTuning
<1>3. cvars' = [SwapPolled EXCEPT !.tuning = NextTuning(SwapPolled, SwapNext)]
  BY SwapFields
<1>4. /\ cvars' \in [generic : BOOLEAN, asset : 0 .. 2, tuning : Tunings]
      /\ cvars'.generic = SwapPolled.generic /\ cvars'.asset = SwapPolled.asset
      /\ cvars'.tuning = NextTuning(SwapPolled, SwapNext)
  BY <1>1, <1>2, <1>3
<1>5. SwapNext = Phase(cvars', frames + 1 + 1)
  BY <1>4, PhaseOfFrame DEF SwapNext
<1>6. config \in Configurations /\ frames + 1 + 1 \in Nat /\ SwapPolled.asset \in 0 .. 2
  BY <1>1, ScheduleConfig DEF ScheduleTypes
<1>7. SwapNext.mode \in 0 .. 2
  BY <1>6, PhaseShape DEF SwapNext
<1> QED BY <1>4, <1>5, <1>7

LEMMA PhaseStays ==
  ASSUME config' = config, NEW c, NEW frame
  PROVE  Phase(c, frame)' = Phase(c, frame)
BY DEF Phase

LEMMA SwapCountsKeys ==
  ASSUME ScheduleTypes, KeysAreCounted, IssueSwap
  PROVE  /\ KeysAreCounted'
         /\ pending' \in [native : BOOLEAN, asset : BOOLEAN, native_presses : BOOLEAN,
                          asset_presses : BOOLEAN]
<1>1. pending \in [native : BOOLEAN, asset : BOOLEAN, native_presses : BOOLEAN,
                   asset_presses : BOOLEAN]
  BY DEF ScheduleTypes
<1>2. /\ pending'.native = FALSE /\ pending'.asset = FALSE
      /\ pending'.native_presses = pending.native_presses
      /\ pending'.asset_presses = pending.asset_presses
      /\ pending' \in [native : BOOLEAN, asset : BOOLEAN, native_presses : BOOLEAN,
                       asset_presses : BOOLEAN]
  BY <1>1, SwapFields
<1>3. /\ cvars'.generic = (IF pending.native THEN ~cvars.generic ELSE cvars.generic)
      /\ cvars'.asset = (IF pending.asset THEN (IF cvars.asset = 0 THEN 2 ELSE 0)
                         ELSE cvars.asset)
  BY SwappedFields, PolledFields
<1>4. cvars.generic \in BOOLEAN /\ config.generic \in BOOLEAN /\ cvars.asset \in 0 .. 2
      /\ config' = config
  BY ScheduleConfig, SwapFields DEF ScheduleTypes
<1>5. pending.native \in BOOLEAN /\ pending.asset \in BOOLEAN
      /\ pending.native_presses \in BOOLEAN /\ pending.asset_presses \in BOOLEAN
  BY <1>1
<1>6. (cvars'.generic # config'.generic) <=> (pending'.native_presses # pending'.native)
  <2>1. (cvars.generic # config.generic) <=> (pending.native_presses # pending.native)
    BY DEF KeysAreCounted
  <2>2. CASE pending.native
    <3>1. cvars'.generic = ~cvars.generic
      BY <1>3, <2>2
    <3> QED BY <1>2, <1>4, <1>5, <2>1, <2>2, <3>1
  <2>3. CASE ~pending.native
    <3>1. cvars'.generic = cvars.generic
      BY <1>3, <2>3
    <3> QED BY <1>2, <1>4, <1>5, <2>1, <2>3, <3>1
  <2> QED BY <2>2, <2>3
<1>7. ((cvars'.asset # 0) # (config'.asset # 0))
        <=> (pending'.asset_presses # pending'.asset)
  <2>1. ((cvars.asset # 0) # (config.asset # 0)) <=> (pending.asset_presses # pending.asset)
    BY DEF KeysAreCounted
  <2>2. CASE pending.asset
    <3>1. (cvars'.asset # 0) <=> (cvars.asset = 0)
      BY <1>3, <2>2
    <3> QED BY <1>2, <1>4, <1>5, <2>1, <2>2, <3>1
  <2>3. CASE ~pending.asset
    <3>1. cvars'.asset = cvars.asset
      BY <1>3, <2>3
    <3> QED BY <1>2, <1>4, <1>5, <2>1, <2>3, <3>1
  <2> QED BY <2>2, <2>3
<1> QED BY <1>2, <1>6, <1>7 DEF KeysAreCounted

LEMMA SwapSchedules ==
  ASSUME ScheduleTypes, IssueSwap
  PROVE  TuningIsScheduled'
<1> SUFFICES ASSUME config'.benchmark = "perf"
             PROVE  cvars'.tuning = Scheduled(frames + 1)'
  BY DEF TuningIsScheduled
<1>1. config' = config /\ frames' = frames + 1
  BY SwapFields
<1>2. SwapNext = Phase(cvars', frames' + 1)
  BY <1>1, SwappedFields
<1>3. Phase(cvars, frames + 1)' = SwapNext
  BY <1>1, <1>2, PhaseStays
<1>4. cvars'.tuning = NextTuning(SwapPolled, SwapNext)
  BY SwappedFields
<1> QED BY <1>1, <1>3, <1>4 DEF Scheduled, NextTuning

LEMMA SwapKeepsPure ==
  ASSUME ScheduleTypes, TuningIsScheduled, IntervalIsOfNow, IssueSwap
  PROVE  IntervalIsOfNow'
<1>1. ran' = IF SwapReports THEN {} ELSE ran
  BY SwapFields
<1>2. CASE SwapReports
  BY <1>1, <1>2 DEF IntervalIsOfNow
<1>3. CASE ~SwapReports
  <2> DEFINE phase == Phase(cvars, frames + 1)
  <2>0. /\ config' = config /\ frames' = frames + 1 /\ mode' = SwapNext.mode
        /\ config \in Configurations /\ frames \in Nat /\ cvars.asset \in 0 .. 2
        /\ cvars \in [generic : BOOLEAN, asset : 0 .. 2, tuning : Tunings]
    BY SwapFields, ScheduleConfig DEF ScheduleTypes
  <2>1. /\ Phase(SwapPolled, frames + 1).window = phase.window
        /\ Phase(SwapPolled, frames + 1).warmup = phase.warmup
        /\ Phase(SwapPolled, frames + 1).options = phase.options
    BY PhaseOfFrame
  <2>2. /\ SwapNext.window = phase.window /\ SwapNext.warmup = phase.warmup
        /\ SwapNext.options = phase.options
        /\ SwapNext.mode = mode /\ SwapPolled.generic = cvars.generic
        /\ ~(phase.window < 0 /\ frames + 1 \in Periodic)
    BY <1>3, <2>1 DEF SwapReports, Reports
  <2>3. /\ cvars'.generic = cvars.generic /\ cvars'.tuning = NextTuning(SwapPolled, SwapNext)
        /\ cvars' \in [generic : BOOLEAN, asset : 0 .. 2, tuning : Tunings]
    BY <2>2, SwappedFields
  <2>4. Phase(cvars, frames + 1)' = SwapNext
    <3>1. SwapNext = Phase(cvars', frames' + 1)
      BY <2>0, SwappedFields
    <3> QED BY <2>0, <3>1, PhaseStays
  <2>5. cvars'.tuning = IF config.benchmark = "perf" THEN cvars.tuning ELSE SwapPolled.tuning
    <3>1. CASE config.benchmark = "perf"
      <4>1. ~(frames = 0 /\ phase.options = NoOptions)
        <5> SUFFICES ASSUME frames = 0, phase.options = NoOptions PROVE FALSE
          OBVIOUS
        <5>1. frames + 1 \in Periodic /\ frames + 1 \in Nat
          BY <2>0, ScheduleConstants
        <5>2. phase.window < 0
          BY <2>0, <3>1, <5>1, PhaseShape
        <5> QED BY <2>2, <5>1, <5>2
      <4>2. cvars.tuning = Scheduled(frames + 1)
        <5>1. frames = 0 => frames + 1 = 1
          BY <2>0
        <5> QED BY <3>1, <4>1, <5>1 DEF TuningIsScheduled
      <4>3. Scheduled(frames + 1) = NextTuning(SwapPolled, SwapNext)
        BY <2>2, <3>1 DEF Scheduled, NextTuning
      <4> QED BY <2>3, <3>1, <4>2, <4>3
    <3>2. CASE config.benchmark # "perf"
      BY <2>3, <3>2 DEF NextTuning
    <3> QED BY <3>1, <3>2
  <2>6. ASSUME config.chunks # {}
        PROVE  [cvars'.tuning EXCEPT !.chunk = 0] = [cvars.tuning EXCEPT !.chunk = 0]
    <3>1. /\ cvars'.tuning.switches = cvars.tuning.switches
          /\ cvars'.tuning.spin = cvars.tuning.spin
      BY <2>5, PolledFields
    <3>2. cvars'.tuning \in Tunings /\ cvars.tuning \in Tunings
      BY <2>0, <2>3
    <3> QED BY <3>1, <3>2 DEF Tunings
  <2>7. config.chunks = {} => cvars'.tuning = cvars.tuning
    BY <2>5, PolledFields
  <2>8. Condition' = Condition
    <3>1. /\ Phase(cvars, frames + 1)'.window = phase.window
          /\ Phase(cvars, frames + 1)'.warmup = phase.warmup
          /\ mode' = mode
      BY <2>0, <2>2, <2>4
    <3> QED BY <2>0, <2>3, <2>6, <2>7, <3>1 DEF Condition
  <2> QED BY <1>1, <1>3, <2>8 DEF IntervalIsOfNow
<1> QED BY <1>2, <1>3

LEMMA FirstRow ==
  ASSUME NEW rows \in Seq(TraceRow), rows # <<>>
  PROVE  rows[1].frame \in Nat
<1>1. Len(rows) \in Nat /\ Len(rows) # 0
  OBVIOUS
<1>2. rows[1] \in TraceRow
  BY <1>1
<1> QED BY <1>2 DEF TraceRow

(* The frame's row follows the rows before it, and its refusals are its own. *)
LEMMA SwapTraces ==
  ASSUME ScheduleTypes, TraceFollows, IssueSwap
  PROVE  /\ TraceFollows'
         /\ trace' \in [enabled : BOOLEAN, elapsed : Int, rows : Seq(TraceRow), dropped : Nat,
                        status : {"pending", "complete", "capacity_overflow"}]
         /\ refusals' \in [interval : Counts, previous : Counts]
<1> DEFINE row == Row(frames + 1)
           Traces == [enabled : BOOLEAN, elapsed : Int, rows : Seq(TraceRow), dropped : Nat,
                      status : {"pending", "complete", "capacity_overflow"}]
<1>1. PICK ticks \in {1, 2} : trace' = TraceRecorded(row, ticks)
  BY SwapFields
<1>2. PICK interval \in {NoRefusals, refusals.interval} :
        refusals' = [interval |-> interval,
                     previous |-> IF trace'.enabled THEN interval ELSE refusals.previous]
  BY SwapFields
<1>3. /\ frames \in Nat /\ frames' = frames + 1 /\ this' = NewFrame
      /\ trace \in Traces /\ TraceStart \in Nat /\ TraceEnd \in Nat /\ TraceRows \in Nat
      /\ refusals.interval \in Counts /\ refusals.previous \in Counts
      /\ this.draws \in Nat /\ this.native \in Nat /\ this.refused \in Counts
  BY SwapFields, ScheduleConfig, ScheduleConstants DEF ScheduleTypes
<1>4. /\ trace.rows \in Seq(TraceRow) /\ Len(trace.rows) \in Nat /\ trace.elapsed \in Int
      /\ trace.dropped \in Nat /\ ticks \in Nat /\ ticks > 0 /\ trace.enabled \in BOOLEAN
      /\ trace = [enabled |-> trace.enabled, elapsed |-> trace.elapsed, rows |-> trace.rows,
                  dropped |-> trace.dropped, status |-> trace.status]
  BY <1>1, <1>3
<1>5. /\ row \in TraceRow /\ row.frame = frames + 1 /\ row.refused = this.refused
      /\ row.refusal = [kind \in Refusals |->
                          refusals.interval[kind] - refusals.previous[kind]]
  <2>1. [kind \in Refusals |-> refusals.interval[kind] - refusals.previous[kind]]
          \in [Refusals -> Int]
    BY <1>3 DEF Counts
  <2> QED BY <1>3, <2>1 DEF Row, TraceRow
<1>6. interval \in Counts /\ refusals' \in [interval : Counts, previous : Counts]
  <2>1. interval \in Counts
    <3>1. NoRefusals \in Counts
      BY DEF NoRefusals, Counts
    <3> QED BY <1>2, <1>3, <3>1
  <2> QED BY <1>2, <1>3, <2>1
<1>7. ASSUME trace'.enabled, NEW kind \in Refusals
      PROVE  refusals'.interval[kind] - refusals'.previous[kind] = this'.refused[kind]
  <2>1. refusals'.interval = interval /\ refusals'.previous = interval
    BY <1>2, <1>7
  <2>2. interval[kind] \in Nat
    <3>1. interval \in Counts
      BY <1>6
    <3> QED BY <3>1 DEF Counts
  <2>3. this'.refused[kind] = 0
    BY <1>3 DEF NewFrame, NoRefusals
  <2> QED BY <2>1, <2>2, <2>3
<1> DEFINE elapsed == IF trace.elapsed < 0 THEN 0 ELSE trace.elapsed + ticks
<1>8. elapsed \in Int /\ elapsed >= 0 /\ elapsed >= trace.elapsed
  BY <1>4
<1>9. /\ ~trace.enabled => trace' = trace
      /\ trace.enabled /\ elapsed >= TraceEnd
           => trace' = [trace EXCEPT !.enabled = FALSE, !.elapsed = elapsed,
                          !.status = IF trace.dropped > 0 THEN "capacity_overflow" ELSE "complete"]
      /\ trace.enabled /\ ~(elapsed >= TraceEnd) /\ elapsed < TraceStart
           => trace' = [trace EXCEPT !.elapsed = elapsed]
      /\ trace.enabled /\ ~(elapsed >= TraceEnd) /\ ~(elapsed < TraceStart)
           /\ Len(trace.rows) < TraceRows
           => trace' = [trace EXCEPT !.elapsed = elapsed, !.rows = Append(@, row)]
      /\ trace.enabled /\ ~(elapsed >= TraceEnd) /\ ~(elapsed < TraceStart)
           /\ ~(Len(trace.rows) < TraceRows)
           => trace' = [trace EXCEPT !.elapsed = elapsed, !.dropped = @ + 1]
  BY <1>1 DEF TraceRecorded
<1> HIDE DEF elapsed
<1>10. /\ RowsAreOfTheirFrames /\ Len(trace.rows) <= TraceRows
       /\ trace.dropped > 0 => Len(trace.rows) = TraceRows
       /\ trace.enabled =>
            /\ \A kind \in Refusals :
                 refusals.interval[kind] - refusals.previous[kind] = this.refused[kind]
            /\ trace.status = "pending"
            /\ trace.rows # <<>> => /\ trace.elapsed >= TraceStart /\ trace.elapsed >= 0
                                    /\ trace.rows[1].frame + Len(trace.rows) + trace.dropped
                                         = frames + 1
  BY DEF TraceFollows
<1>11. CASE ~trace.enabled
  <2>1. trace' = trace
    BY <1>9, <1>11
  <2>2. RowsAreOfTheirFrames'
    BY <1>10, <2>1 DEF RowsAreOfTheirFrames
  <2> QED BY <1>3, <1>6, <1>10, <1>11, <2>1, <2>2 DEF TraceFollows
<1>12. CASE trace.enabled /\ elapsed >= TraceEnd
  <2>1. /\ trace'.enabled = FALSE /\ trace'.rows = trace.rows /\ trace'.dropped = trace.dropped
        /\ trace'.status = (IF trace.dropped > 0 THEN "capacity_overflow" ELSE "complete")
        /\ trace' \in Traces
    BY <1>3, <1>8, <1>9, <1>12
  <2>2. RowsAreOfTheirFrames'
    <3>1. trace'.status = "complete" => trace'.dropped = 0
      BY <1>4, <2>1
    <3> QED BY <1>10, <2>1, <3>1 DEF RowsAreOfTheirFrames
  <2> QED BY <1>6, <1>10, <2>1, <2>2 DEF TraceFollows
<1>13. CASE trace.enabled /\ ~(elapsed >= TraceEnd) /\ elapsed < TraceStart
  <2>1. trace' = [trace EXCEPT !.elapsed = elapsed]
    BY <1>9, <1>13
  <2>2. /\ trace'.enabled = trace.enabled /\ trace'.rows = trace.rows
        /\ trace'.dropped = trace.dropped /\ trace'.status = trace.status
        /\ trace' \in Traces
    BY <1>3, <1>8, <2>1
  <2>3. trace.rows = <<>>
    BY <1>3, <1>4, <1>8, <1>10, <1>13
  <2>4. RowsAreOfTheirFrames'
    BY <1>10, <2>2 DEF RowsAreOfTheirFrames
  <2> QED BY <1>6, <1>7, <1>10, <1>13, <2>2, <2>3, <2>4 DEF TraceFollows
<1>14. CASE /\ trace.enabled /\ ~(elapsed >= TraceEnd) /\ ~(elapsed < TraceStart)
            /\ Len(trace.rows) < TraceRows
  <2> DEFINE longer == Append(trace.rows, row)
  <2>1. trace' = [trace EXCEPT !.elapsed = elapsed, !.rows = longer]
    BY <1>9, <1>14
  <2>2. /\ longer \in Seq(TraceRow) /\ Len(longer) = Len(trace.rows) + 1
        /\ longer[Len(trace.rows) + 1] = row
        /\ \A i \in 1 .. Len(trace.rows) : longer[i] = trace.rows[i]
    <3> HIDE DEF row
    <3> QED BY <1>4, <1>5, AppendProperties
  <2> HIDE DEF longer, row
  <2>3. /\ trace'.enabled = trace.enabled /\ trace'.rows = longer
        /\ trace'.dropped = trace.dropped /\ trace'.status = trace.status
        /\ trace'.elapsed = elapsed /\ trace' \in Traces
    BY <1>3, <1>8, <2>1, <2>2
  <2>4. trace.dropped = 0 /\ trace.status = "pending" /\ trace.enabled
    BY <1>4, <1>10, <1>14
  <2>5. longer[1].frame + Len(trace.rows) = frames + 1
    <3>1. CASE trace.rows = <<>>
      BY <1>3, <1>5, <2>2, <3>1
    <3>2. CASE trace.rows # <<>>
      <4>1. Len(trace.rows) >= 1 /\ longer[1] = trace.rows[1]
        BY <1>4, <2>2, <3>2
      <4>2. trace.rows[1].frame + Len(trace.rows) + trace.dropped = frames + 1
        BY <1>10, <2>4, <3>2
      <4>3. trace.rows[1].frame \in Nat
        BY <1>4, <3>2, FirstRow
      <4> QED BY <1>3, <1>4, <2>4, <4>1, <4>2, <4>3
    <3> QED BY <3>1, <3>2
  <2>6. longer[1].frame \in Nat
    <3>1. longer # <<>>
      BY <1>4, <2>2
    <3> QED BY <2>2, <3>1, FirstRow
  <2>7. RowsAreOfTheirFrames'
    <3>1. ASSUME NEW i \in 1 .. Len(longer)
          PROVE  longer[i].refusal = longer[i].refused /\ longer[i].frame = longer[1].frame + i - 1
      <4>1. CASE i \in 1 .. Len(trace.rows)
        <5>1. longer[i] = trace.rows[i] /\ longer[1] = trace.rows[1]
          BY <1>4, <2>2, <4>1
        <5> QED BY <1>10, <4>1, <5>1 DEF RowsAreOfTheirFrames
      <4>2. CASE i = Len(trace.rows) + 1
        <5>1. longer[i] = row
          BY <2>2, <4>2
        <5>2. row.refusal = row.refused
          <6>1. \A kind \in Refusals :
                  refusals.interval[kind] - refusals.previous[kind] = this.refused[kind]
            BY <1>10, <2>4
          <6> QED BY <1>3, <1>5, <6>1 DEF Counts
        <5> QED BY <1>3, <1>4, <1>5, <2>5, <2>6, <4>2, <5>1, <5>2
      <4> QED BY <1>4, <2>2, <4>1, <4>2
    <3>2. trace'.status = "complete" => trace'.dropped = 0
      BY <2>3, <2>4
    <3> QED BY <2>3, <3>1, <3>2 DEF RowsAreOfTheirFrames
  <2>8. longer[1].frame + Len(longer) + trace.dropped = frames' + 1
    BY <1>3, <1>4, <2>2, <2>4, <2>5, <2>6
  <2>9. Len(longer) <= TraceRows /\ elapsed >= TraceStart
    BY <1>3, <1>4, <1>8, <1>14, <2>2
  <2> QED BY <1>6, <1>7, <1>8, <2>3, <2>4, <2>7, <2>8, <2>9 DEF TraceFollows
<1>15. CASE /\ trace.enabled /\ ~(elapsed >= TraceEnd) /\ ~(elapsed < TraceStart)
            /\ ~(Len(trace.rows) < TraceRows)
  <2>1. trace' = [trace EXCEPT !.elapsed = elapsed, !.dropped = @ + 1]
    BY <1>9, <1>15
  <2>2. /\ trace'.enabled = trace.enabled /\ trace'.rows = trace.rows
        /\ trace'.dropped = trace.dropped + 1 /\ trace'.status = trace.status
        /\ trace'.elapsed = elapsed /\ trace' \in Traces
    <3>1. trace.dropped + 1 \in Nat
      BY <1>4
    <3> QED BY <1>3, <1>8, <2>1, <3>1
  <2>3. trace.status = "pending" /\ Len(trace.rows) = TraceRows
    BY <1>3, <1>4, <1>10, <1>15
  <2>4. RowsAreOfTheirFrames'
    BY <1>10, <2>2, <2>3 DEF RowsAreOfTheirFrames
  <2>5. trace.rows # <<>> => trace.rows[1].frame + Len(trace.rows) + (trace.dropped + 1)
                               = frames' + 1
    <3> SUFFICES ASSUME trace.rows # <<>>
                 PROVE  trace.rows[1].frame + Len(trace.rows) + (trace.dropped + 1) = frames' + 1
      OBVIOUS
    <3>2. trace.rows[1].frame \in Nat
      BY <1>4, FirstRow
    <3>3. trace.rows[1].frame + Len(trace.rows) + trace.dropped = frames + 1
      BY <1>10, <1>15
    <3> DEFINE start == trace.rows[1].frame
               kept == Len(trace.rows)
               lost == trace.dropped
    <3>4. frames' = frames + 1 /\ frames \in Nat
      BY <1>3
    <3>5. start \in Nat /\ kept \in Nat /\ lost \in Nat /\ start + kept + lost = frames + 1
      BY <1>4, <3>2, <3>3, Zenon
    <3> HIDE DEF start, kept, lost
    <3>6. start + kept + (lost + 1) = frames' + 1
      BY <3>4, <3>5
    <3> QED BY <3>6 DEF start, kept, lost
  <2>6. elapsed >= TraceStart
    BY <1>3, <1>8, <1>15
  <2> QED BY <1>3, <1>6, <1>7, <1>8, <1>10, <1>15, <2>2, <2>3, <2>4, <2>5, <2>6 DEF TraceFollows
<1> QED BY <1>11, <1>12, <1>13, <1>14, <1>15

(* A capture open is ended as this frame's, and the next frame's opened.    *)
LEMMA SwapCaptures ==
  ASSUME ScheduleTypes, CaptureIsOfFrame, IssueSwap
  PROVE  /\ CaptureIsOfFrame'
         /\ capture' \in [on : BOOLEAN, held : SUBSET Nat, count : Nat, finished : SUBSET Finished]
<1> DEFINE this_one == [frame |-> frames + 1, held |-> capture.held, count |-> capture.count,
                        draws |-> this.draws]
           ended == IF capture.on
                    THEN [capture EXCEPT !.on = FALSE, !.held = {}, !.count = 0,
                                         !.finished = @ \union {this_one}]
                    ELSE capture
           Captured == [on : BOOLEAN, held : SUBSET Nat, count : Nat, finished : SUBSET Finished]
<1>1. /\ frames \in Nat /\ frames' = frames + 1 /\ config' = config /\ this' = NewFrame
      /\ capture \in Captured /\ this.draws \in Nat
  <2>1. frames \in 0 .. config.last /\ config.last \in Nat /\ capture \in Captured
    BY ScheduleConfig DEF ScheduleTypes
  <2>2. this.draws \in 0 .. MaxDraws /\ MaxDraws \in Nat
    BY ScheduleConstants DEF ScheduleTypes
  <2> QED BY <2>1, <2>2, SwapFields
<1>2. capture' = IF frames + 1 + 1 \in config.captures THEN [ended EXCEPT !.on = TRUE] ELSE ended
  BY SwapFields DEF CaptureUpdated
<1>3. /\ capture.on <=> frames > 0 /\ frames + 1 \in config.captures
      /\ capture.on => capture.held \subseteq {frames + 1} /\ capture.count = this.draws
      /\ ~capture.on => capture.held = {} /\ capture.count = 0
      /\ CapturesAreWhole
  BY DEF CaptureIsOfFrame
<1>4. this_one \in Finished
  BY <1>1 DEF Finished
<1>5. /\ ended \in Captured /\ ended.on = FALSE /\ ended.held = {} /\ ended.count = 0
      /\ ended.finished = capture.finished \union (IF capture.on THEN {this_one} ELSE {})
  <2>1. CASE capture.on
    <3>1. capture.finished \union {this_one} \in SUBSET Finished
      BY <1>1, <1>4
    <3> HIDE DEF this_one
    <3> QED BY <1>1, <2>1, <3>1
  <2>2. CASE ~capture.on
    BY <1>1, <1>3, <2>2
  <2> QED BY <2>1, <2>2
<1> HIDE DEF ended
<1>6. /\ capture' \in Captured /\ capture'.held = {} /\ capture'.count = 0
      /\ capture'.on <=> frames + 1 + 1 \in config.captures
      /\ capture'.finished = ended.finished
  BY <1>2, <1>5
<1>7. this_one.held \subseteq {this_one.frame} \/ ~capture.on
  BY <1>3
<1>8. CapturesAreWhole'
  <2>1. {c.frame : c \in capture'.finished} = config.captures \intersect (2 .. frames')
    <3>1. {c.frame : c \in capture.finished} = config.captures \intersect (2 .. frames)
      BY <1>3 DEF CapturesAreWhole
    <3>2. CASE capture.on
      <4>1. config.captures \intersect (2 .. frames')
              = (config.captures \intersect (2 .. frames)) \union {frames + 1}
        BY <1>1, <1>3, <3>2
      <4>2. {c.frame : c \in capture'.finished}
              = {c.frame : c \in capture.finished} \union {frames + 1}
        <5>1. this_one.frame = frames + 1
          OBVIOUS
        <5> HIDE DEF this_one
        <5> QED BY <1>5, <1>6, <3>2, <5>1
      <4> QED BY <3>1, <4>1, <4>2
    <3>3. CASE ~capture.on
      <4>1. config.captures \intersect (2 .. frames') = config.captures \intersect (2 .. frames)
        BY <1>1, <1>3, <3>3
      <4> QED BY <1>5, <1>6, <3>1, <3>3, <4>1
    <3> QED BY <3>2, <3>3
  <2>2. ASSUME NEW c \in capture'.finished
        PROVE  c.held \subseteq {c.frame} /\ c.count = c.draws
    BY <1>3, <1>5, <1>6, <1>7 DEF CapturesAreWhole
  <2> QED BY <1>1, <2>1, <2>2 DEF CapturesAreWhole
<1>9. frames' > 0 /\ this'.draws = 0
  BY <1>1 DEF NewFrame
<1> QED BY <1>1, <1>6, <1>8, <1>9 DEF CaptureIsOfFrame

(* The records written are the frame's, and their summary counts its draws. *)
LEMMA SwapRecords ==
  ASSUME ScheduleTypes, RecordsFollow, IssueSwap
  PROVE  /\ RecordsFollow'
         /\ records' \in [next : [buffer : Seq(RecordRow), sequence : Nat, copies : Nat],
                          written : Seq(RecordRow)]
<1> DEFINE buffer == records.next.buffer
           summary == [kind |-> "stats", frame |-> frames + 1,
                       sequence |-> records.next.sequence, copies |-> records.next.copies]
           written == Flushed(records.next, frames + 1)
<1>1. /\ frames \in 0 .. config.last /\ config.last \in Nat
      /\ records \in [next : [buffer : Seq(RecordRow), sequence : Nat, copies : Nat],
                      written : Seq(RecordRow)]
  BY ScheduleConfig DEF ScheduleTypes
<1>2. /\ frames \in Nat /\ buffer \in Seq(RecordRow) /\ Len(buffer) \in Nat
      /\ records.next.sequence \in Nat /\ records.next.copies \in Nat
  BY <1>1
<1>3. /\ records' = [next |-> NoRecords, written |-> written] /\ frames' = frames + 1
  BY SwapFields
<1>4. /\ Len(buffer) <= RecordsMax /\ \A i \in 1 .. Len(buffer) : buffer[i].kind # "stats"
      /\ NumberedBy(buffer, frames + 1)
      /\ records.next.sequence = Cardinality(DrawsOf(buffer))
  BY DEF RecordsFollow
<1>5. /\ summary \in RecordRow /\ summary.kind = "stats" /\ summary.frame = frames + 1
      /\ summary.sequence = Cardinality(DrawsOf(buffer))
  BY <1>2, <1>4 DEF RecordRow
<1>6. written = buffer \/ written = Append(buffer, summary)
  BY DEF Flushed
<1> HIDE DEF buffer, summary, written
<1>7. /\ written \in Seq(RecordRow) /\ NumberedBy(written, frames + 1)
      /\ \A i \in 1 .. Len(written) :
           written[i].kind = "stats" =>
             i = Len(written) /\ written[i].sequence = Cardinality(DrawsOf(written))
  <2>1. CASE written = buffer
    BY <1>2, <1>4, <2>1
  <2>2. CASE written = Append(buffer, summary)
    <3>1. /\ NumberedBy(Append(buffer, summary), frames + 1)
          /\ Cardinality(DrawsOf(Append(buffer, summary)))
               = Cardinality(DrawsOf(buffer)) + (IF summary.kind = "draw" THEN 1 ELSE 0)
      BY <1>2, <1>4, <1>5, AppendedIsNumbered
    <3>2. Cardinality(DrawsOf(written)) = Cardinality(DrawsOf(buffer))
      BY <1>2, <1>4, <1>5, <2>2, <3>1
    <3>3. /\ written \in Seq(RecordRow) /\ Len(written) = Len(buffer) + 1
          /\ written[Len(buffer) + 1] = summary
          /\ \A i \in 1 .. Len(buffer) : written[i] = buffer[i]
      BY <1>2, <1>5, <2>2, AppendProperties
    <3>4. ASSUME NEW i \in 1 .. Len(written), written[i].kind = "stats"
          PROVE  i = Len(written) /\ written[i].sequence = Cardinality(DrawsOf(written))
      <4>1. i \notin 1 .. Len(buffer)
        BY <1>4, <3>3, <3>4
      <4>2. i = Len(buffer) + 1
        BY <1>2, <3>3, <4>1
      <4> QED BY <1>5, <3>2, <3>3, <4>2
    <3> QED BY <2>2, <3>1, <3>3, <3>4
  <2> QED BY <1>6, <2>1, <2>2
<1>8. /\ records'.written = written /\ records'.next = NoRecords
  BY <1>3
<1>9. RecordsAreOfOneFrame'
  <2>1. {i \in 1 .. Len(written) : written[i].kind = "draw"} = DrawsOf(written)
    BY DEF DrawsOf
  <2>2. \A i \in 1 .. Len(written) : written[i].frame = frames'
    BY <1>3, <1>7 DEF NumberedBy
  <2>3. ASSUME NEW i \in DrawsOf(written)
        PROVE  written[i].sequence = Cardinality({j \in DrawsOf(written) : j < i})
    <3>1. i \in 1 .. Len(written) /\ written[i].kind = "draw"
      BY DEF DrawsOf
    <3> QED BY <1>7, <3>1 DEF NumberedBy
  <2> QED BY <1>7, <1>8, <2>1, <2>2, <2>3 DEF RecordsAreOfOneFrame
<1>10. /\ NoRecords.buffer = <<>> /\ Len(NoRecords.buffer) = 0 /\ NoRecords.sequence = 0
       /\ NoRecords.copies = 0 /\ NoRecords.buffer \in Seq(RecordRow)
       /\ NoRecords = [buffer |-> <<>>, sequence |-> 0, copies |-> 0]
  BY DEF NoRecords
<1>11. NoRecords.sequence = Cardinality(DrawsOf(NoRecords.buffer))
  <2>1. DrawsOf(NoRecords.buffer) = {}
    BY <1>10 DEF DrawsOf
  <2> QED BY <1>10, <2>1, FS_EmptySet
<1>12. NumberedBy(NoRecords.buffer, frames' + 1)
  BY <1>10 DEF NumberedBy
<1>13. RecordsFollow'
  BY <1>8, <1>9, <1>10, <1>11, <1>12, ScheduleConstants DEF RecordsFollow
<1>14. records' \in [next : [buffer : Seq(RecordRow), sequence : Nat, copies : Nat],
                     written : Seq(RecordRow)]
  <2>1. NoRecords \in [buffer : Seq(RecordRow), sequence : Nat, copies : Nat]
    BY <1>10
  <2> QED BY <1>3, <1>7, <2>1
<1> QED BY <1>13, <1>14

LEMMA IssueSwapStep ==
  ASSUME ScheduleInv, IssueSwap
  PROVE  ScheduleInv'
<1>0. /\ ScheduleTypes /\ KeysAreCounted /\ TuningIsScheduled /\ IntervalIsOfNow
      /\ TraceFollows /\ CaptureIsOfFrame /\ RecordsFollow
  BY DEF ScheduleInv
<1>1. KeysAreCounted' /\ TuningIsScheduled' /\ IntervalIsOfNow' /\ TraceFollows'
      /\ CaptureIsOfFrame' /\ RecordsFollow'
  BY <1>0, SwapCountsKeys, SwapSchedules, SwapKeepsPure, SwapTraces, SwapCaptures, SwapRecords
<1>2. /\ pending' \in [native : BOOLEAN, asset : BOOLEAN, native_presses : BOOLEAN,
                       asset_presses : BOOLEAN]
      /\ refusals' \in [interval : Counts, previous : Counts]
      /\ trace' \in [enabled : BOOLEAN, elapsed : Int, rows : Seq(TraceRow), dropped : Nat,
                     status : {"pending", "complete", "capacity_overflow"}]
      /\ capture' \in [on : BOOLEAN, held : SUBSET Nat, count : Nat, finished : SUBSET Finished]
      /\ records' \in [next : [buffer : Seq(RecordRow), sequence : Nat, copies : Nat],
                       written : Seq(RecordRow)]
  BY <1>0, SwapCountsKeys, SwapTraces, SwapCaptures, SwapRecords
<1>3. /\ cvars' \in [generic : BOOLEAN, asset : 0 .. 2, tuning : Tunings] /\ mode' \in 0 .. 2
  BY <1>0, SwapFields, SwappedFields
<1>4. config' \in Configurations /\ frames' \in 0 .. config'.last
  <2>1. frames \in 0 .. config.last /\ config.last \in Nat /\ config \in Configurations
    BY <1>0, ScheduleConfig DEF ScheduleTypes
  <2> QED BY <2>1, SwapFields
<1>5. /\ this' \in [draws : 0 .. MaxDraws, native : 0 .. MaxDraws, copies : 0 .. MaxCopies,
                    refused : Counts]
      /\ this'.native <= this'.draws
  <2>1. NoRefusals \in Counts
    BY DEF NoRefusals, Counts
  <2>2. this' = NewFrame
    BY SwapFields
  <2> QED BY <2>1, <2>2, ScheduleConstants DEF NewFrame
<1> QED BY <1>1, <1>2, <1>3, <1>4, <1>5 DEF ScheduleInv, ScheduleTypes

LEMMA ScheduleStays ==
  ASSUME ScheduleInv, UNCHANGED vars
  PROVE  ScheduleInv'
<1>1. UNCHANGED <<config, cvars, pending, frames, this, mode, refusals, ran, trace, capture,
                  records>>
  BY DEF vars
<1>2. ScheduleTypes' /\ KeysAreCounted'
  BY <1>1 DEF ScheduleInv, ScheduleTypes, KeysAreCounted
<1> QED BY <1>1, <1>2, RestStays DEF ScheduleInv

LEMMA ScheduleInvariant == AllSpec => []ScheduleInv
<1>1. ScheduleInv /\ [AllNext]_allVars => ScheduleInv'
  <2> SUFFICES ASSUME ScheduleInv, [AllNext]_allVars PROVE ScheduleInv'
    OBVIOUS
  <2>1. Next \/ UNCHANGED vars
    BY ComponentsStep
  <2>2. CASE Next
    BY <2>2, IssueDrawStep, IssueCopyStep, PressStep, IssueSwapStep DEF Next
  <2>3. CASE UNCHANGED vars
    BY <2>3, ScheduleStays
  <2> QED BY <2>1, <2>2, <2>3
<1> QED BY <1>1, ComponentsInit, ScheduleInit, PTL DEF AllSpec

(* What is reported as one interval was drawn under one set of conditions,   *)
(* for any settings, schedule and presses: IssueSwap reports when the next   *)
(* frame's phase, asset mode or native toggle is not this one's, a perf      *)
(* benchmark's tuning is a function of the phase, and frame 1, whose tuning  *)
(* may be of the start, is periodic.                                         *)
THEOREM IntervalsArePure == AllSpec => []IntervalIsPure
<1>1. ScheduleInv => IntervalIsPure
  BY DEF ScheduleInv, IntervalIsOfNow, IntervalIsPure
<1> QED BY <1>1, ScheduleInvariant, PTL

(* Trace rows, captures and records are of the frames they name: rows have   *)
(* the refusals of their frame wherever intervals ended, a capture holds its *)
(* frame's draws alone and all of them, the records of a frame number its    *)
(* draws (NativeFrameTrace, UpdateRenderDocCapture, NbCpRecorder).           *)
THEOREM DiagnosticsNameTheirFrames == AllSpec => []DiagnosticsAreOfTheirFrames
<1>1. ScheduleInv => DiagnosticsAreOfTheirFrames
  BY DEF ScheduleInv, TraceFollows, CaptureIsOfFrame, RecordsFollow, DiagnosticsAreOfTheirFrames
<1> QED BY <1>1, ScheduleInvariant, PTL

(***************************************************************************)
(* The GPU budget's capture.                                               *)
(***************************************************************************)
Submission == [frame : Nat, number : Nat, closes : BOOLEAN, ended : BOOLEAN, operations : Nat,
               scopes : Nat, dumps : Int]
Group == [frame : Nat, number : Nat, operations : Nat, ended : BOOLEAN]
Probes ==
  [count : Nat, period : Nat, observed : Int, first : Nat, last : Nat, closes : Nat,
   selected : BOOLEAN, grouped : BOOLEAN, groups_this_frame : Nat, truncated : BOOLEAN,
   previous : Nat, submissions : Seq(Submission), groups : Seq(Group), current : Nat,
   group : Nat, scope : BOOLEAN, submission_overflow : BOOLEAN, group_overflow : BOOLEAN,
   scope_error : BOOLEAN, alignment_error : BOOLEAN, finished : BOOLEAN, proven : BOOLEAN,
   queries : {"held", "retained", "released"}]

(* The slots are among the records, and no record is of a submission after  *)
(* the last.                                                                *)
ProbeIsSound(p) ==
  /\ p \in Probes
  /\ p.current <= Len(p.submissions) /\ p.group <= Len(p.groups)
  /\ Len(p.submissions) <= SubmissionCapacity
  /\ \A i \in 1 .. Len(p.submissions) : p.submissions[i].number <= p.last

(* What only publication and the teardown change. *)
KeepsResult(p, q) ==
  q.finished = p.finished /\ q.proven = p.proven /\ q.queries = p.queries

LEMMA ObservedIsSound ==
  ASSUME NEW p, ProbeIsSound(p), NEW frame \in Nat, NEW due \in BOOLEAN
  PROVE  LET q == Budget!ObserveFrame(p, frame, due)
         IN ProbeIsSound(q) /\ KeepsResult(p, q) /\ q.last = p.last
<1> DEFINE q == Budget!ObserveFrame(p, frame, due)
<1>1. CASE frame = p.observed
  <2>1. q = p
    BY <1>1 DEF Budget!ObserveFrame
  <2> QED BY <2>1 DEF KeepsResult
<1>2. CASE frame # p.observed
  <2>1. PICK first \in Nat, error \in BOOLEAN, selected \in BOOLEAN, grouped \in BOOLEAN :
          q = [p EXCEPT !.first = first, !.observed = frame, !.closes = 0,
                 !.alignment_error = error, !.selected = selected, !.grouped = grouped,
                 !.groups_this_frame = 0, !.truncated = FALSE]
    <3> DEFINE first == IF p.first = 0 /\ due THEN frame ELSE p.first
               checked == first # 0 /\ p.observed # Budget!Never /\ p.observed < first + p.count
               selected == ~p.finished /\ first # 0 /\ frame \in first .. first + p.count - 1
               error == p.alignment_error \/ (checked /\ Budget!Misaligned(p, frame))
               grouped == selected /\ p.period # 0 /\ (frame - first) % p.period = 0
    <3>1. q = [p EXCEPT !.first = first, !.observed = frame, !.closes = 0,
                 !.alignment_error = error, !.selected = selected, !.grouped = grouped,
                 !.groups_this_frame = 0, !.truncated = FALSE]
      BY <1>2 DEF Budget!ObserveFrame
    <3>2. first \in Nat
      BY DEF ProbeIsSound, Probes
    <3>3. error \in BOOLEAN /\ selected \in BOOLEAN /\ grouped \in BOOLEAN
      OBVIOUS
    <3> HIDE DEF first, error, selected, grouped
    <3> QED BY <3>1, <3>2, <3>3, Zenon
  <2>2. q \in Probes
    <3>1. p \in Probes
      BY DEF ProbeIsSound
    <3> HIDE DEF q
    <3>2. 0 \in Nat /\ frame \in Int
      OBVIOUS
    <3> QED BY <2>1, <3>1, <3>2, ZenonT(200) DEF Probes
  <2>3. /\ q.current = p.current /\ q.group = p.group /\ q.submissions = p.submissions
        /\ q.groups = p.groups /\ q.last = p.last /\ q.finished = p.finished
        /\ q.proven = p.proven /\ q.queries = p.queries
    BY <2>1 DEF ProbeIsSound, Probes
  <2> HIDE DEF q
  <2>4. ProbeIsSound(q)
    BY <2>2, <2>3 DEF ProbeIsSound
  <2> QED BY <2>3, <2>4 DEF KeepsResult, q
<1> QED BY <1>1, <1>2

LEMMA BegunIsSound ==
  ASSUME NEW p, ProbeIsSound(p), NEW frame \in Nat, NEW number \in Nat, p.last <= number
  PROVE  LET q == Budget!BeginProbe(p, frame, number)
         IN ProbeIsSound(q) /\ KeepsResult(p, q) /\ q.last <= number
<1> DEFINE idle == [p EXCEPT !.current = 0, !.group = 0]
           record == [frame |-> frame, number |-> number, closes |-> FALSE, ended |-> FALSE,
                      operations |-> 0, scopes |-> 0, dumps |-> 0]
           q == Budget!BeginProbe(p, frame, number)
<1>1. /\ idle \in Probes /\ idle.submissions = p.submissions /\ idle.groups = p.groups
      /\ idle.last = p.last /\ idle.current = 0 /\ idle.group = 0 /\ KeepsResult(p, idle)
      /\ p.submissions \in Seq(Submission) /\ Len(p.submissions) \in Nat
      /\ Len(p.groups) \in Nat /\ p.last \in Nat
  <2>1. p \in Probes
    BY DEF ProbeIsSound
  <2>2. idle \in Probes
    <3>1. 0 \in Nat
      OBVIOUS
    <3> QED BY <2>1, <3>1, ZenonT(60) DEF Probes
  <2>3. /\ idle.submissions = p.submissions /\ idle.groups = p.groups /\ idle.last = p.last
        /\ idle.current = 0 /\ idle.group = 0 /\ idle.finished = p.finished
        /\ idle.proven = p.proven /\ idle.queries = p.queries
    BY <2>1, ZenonT(60) DEF Probes
  <2>4. /\ p.submissions \in Seq(Submission) /\ p.groups \in Seq(Group) /\ p.last \in Nat
    BY <2>1 DEF Probes
  <2> QED BY <2>2, <2>3, <2>4 DEF KeepsResult
<1>2. record \in Submission /\ record.number = number
  BY DEF Submission
<1>3. SubmissionCapacity \in Nat
  BY GuestFramesAssumption DEF Budget!GpuBudgetProbeAssumption
<1>4. /\ Len(p.submissions) <= SubmissionCapacity
      /\ \A i \in 1 .. Len(p.submissions) : p.submissions[i].number <= p.last
  BY DEF ProbeIsSound
<1>5. q = IF ~p.selected THEN idle
          ELSE IF Len(p.submissions) = SubmissionCapacity
          THEN [idle EXCEPT !.submission_overflow = TRUE]
          ELSE [idle EXCEPT !.submissions = Append(@, record),
                            !.current = Len(p.submissions) + 1, !.last = number]
  BY DEF Budget!BeginProbe, Budget!NoSlot
<1> HIDE DEF q, idle, record
<1>6. CASE q = idle
  BY <1>1, <1>4, <1>6 DEF ProbeIsSound, q
<1>7. CASE q = [idle EXCEPT !.submission_overflow = TRUE]
  <2>1. /\ q \in Probes /\ q.submissions = p.submissions /\ q.groups = p.groups
        /\ q.last = p.last /\ q.current = 0 /\ q.group = 0 /\ KeepsResult(p, q)
    BY <1>1, <1>7 DEF Probes, KeepsResult
  <2> QED BY <1>1, <1>4, <2>1 DEF ProbeIsSound, q
<1>8. CASE /\ Len(p.submissions) # SubmissionCapacity
           /\ q = [idle EXCEPT !.submissions = Append(@, record),
                               !.current = Len(p.submissions) + 1, !.last = number]
  <2> DEFINE longer == Append(p.submissions, record)
  <2>1. /\ longer \in Seq(Submission) /\ Len(longer) = Len(p.submissions) + 1
        /\ longer[Len(p.submissions) + 1] = record
        /\ \A i \in 1 .. Len(p.submissions) : longer[i] = p.submissions[i]
    BY <1>1, <1>2, AppendProperties
  <2> HIDE DEF longer
  <2>2. q = [idle EXCEPT !.submissions = longer, !.current = Len(p.submissions) + 1,
                         !.last = number]
    BY <1>1, <1>8 DEF longer
  <2>3. /\ q \in Probes /\ q.submissions = longer /\ q.groups = p.groups
        /\ q.last = number /\ q.current = Len(p.submissions) + 1 /\ q.group = 0
        /\ KeepsResult(p, q)
    <3>1. q \in Probes
      <4>1. Len(p.submissions) + 1 \in Nat
        BY <1>1
      <4> QED BY <1>1, <2>1, <2>2, <4>1, ZenonT(60) DEF Probes
    <3> QED BY <1>1, <2>1, <2>2, <3>1 DEF Probes, KeepsResult
  <2>4. ASSUME NEW i \in 1 .. Len(longer) PROVE longer[i].number <= number
    <3>1. CASE i \in 1 .. Len(p.submissions)
      <4>1. longer[i] = p.submissions[i] /\ longer[i] \in Submission
        BY <1>1, <2>1, <3>1
      <4>2. longer[i].number \in Nat
        BY <4>1 DEF Submission
      <4> QED BY <1>1, <1>4, <3>1, <4>1, <4>2
    <3>2. CASE i = Len(p.submissions) + 1
      BY <1>2, <2>1, <3>2
    <3> QED BY <1>1, <2>1, <3>1, <3>2
  <2>5. Len(longer) <= SubmissionCapacity
    BY <1>1, <1>3, <1>4, <1>8, <2>1
  <2> QED BY <1>1, <2>1, <2>3, <2>4, <2>5 DEF ProbeIsSound, q
<1> QED BY <1>5, <1>6, <1>7, <1>8

LEMMA SubmissionReplaced ==
  ASSUME NEW list \in Seq(Submission), NEW i \in 1 .. Len(list), NEW s \in Submission
  PROVE  /\ [list EXCEPT ![i] = s] \in Seq(Submission)
         /\ Len([list EXCEPT ![i] = s]) = Len(list)
         /\ \A j \in 1 .. Len(list) : [list EXCEPT ![i] = s][j] = IF j = i THEN s ELSE list[j]
OBVIOUS

LEMMA GroupChanged ==
  ASSUME NEW h \in Group
  PROVE  [h EXCEPT !.ended = TRUE] \in Group /\ [h EXCEPT !.operations = @ + 1] \in Group
<1>1. [h EXCEPT !.ended = TRUE] \in Group
  BY DEF Group
<1>2. [h EXCEPT !.operations = h.operations + 1] \in Group
  <2>1. h.operations + 1 \in Nat
    BY DEF Group
  <2> QED BY <2>1 DEF Group
<1> QED BY <1>1, <1>2

LEMMA GroupReplaced ==
  ASSUME NEW list \in Seq(Group), NEW i \in 1 .. Len(list), NEW g \in Group
  PROVE  /\ [list EXCEPT ![i] = g] \in Seq(Group)
         /\ Len([list EXCEPT ![i] = g]) = Len(list)
OBVIOUS

(* A step that keeps the records' numbers and slots among them. *)
Alike(p, q) == KeepsResult(p, q) /\ q.last = p.last

LEMMA AlikeIsSound ==
  ASSUME NEW p, ProbeIsSound(p), NEW q \in Probes, q.last = p.last,
         Len(q.submissions) = Len(p.submissions),
         \A i \in 1 .. Len(p.submissions) : q.submissions[i].number = p.submissions[i].number,
         q.current <= Len(q.submissions), q.group <= Len(q.groups)
  PROVE  ProbeIsSound(q)
BY DEF ProbeIsSound

LEMMA ProbeFields ==
  ASSUME NEW p, ProbeIsSound(p)
  PROVE  /\ p \in Probes /\ p.submissions \in Seq(Submission) /\ p.groups \in Seq(Group)
         /\ Len(p.submissions) \in Nat /\ Len(p.groups) \in Nat
         /\ p.current \in 0 .. Len(p.submissions) /\ p.group \in 0 .. Len(p.groups)
         /\ p.last \in Nat /\ p.closes \in Nat /\ p.previous \in Nat
         /\ p.groups_this_frame \in Nat
         /\ p.scope \in BOOLEAN /\ p.scope_error \in BOOLEAN /\ p.selected \in BOOLEAN
         /\ p.alignment_error \in BOOLEAN
         /\ p.current # 0 => p.submissions[p.current] \in Submission
         /\ p.group # 0 => p.groups[p.group] \in Group
<1>1. /\ p \in Probes /\ p.current <= Len(p.submissions) /\ p.group <= Len(p.groups)
  BY DEF ProbeIsSound
<1>2. /\ p.submissions \in Seq(Submission) /\ p.groups \in Seq(Group)
      /\ p.current \in Nat /\ p.group \in Nat
      /\ p.last \in Nat /\ p.closes \in Nat /\ p.previous \in Nat
      /\ p.groups_this_frame \in Nat
      /\ p.scope \in BOOLEAN /\ p.scope_error \in BOOLEAN /\ p.selected \in BOOLEAN
      /\ p.alignment_error \in BOOLEAN
  BY <1>1 DEF Probes
<1>3. Len(p.submissions) \in Nat /\ Len(p.groups) \in Nat
  BY <1>2
<1>4. p.current \in 0 .. Len(p.submissions) /\ p.group \in 0 .. Len(p.groups)
  BY <1>1, <1>2, <1>3
<1>5. p.current # 0 => p.submissions[p.current] \in Submission
  <2>1. p.current # 0 => p.current \in 1 .. Len(p.submissions)
    BY <1>3, <1>4
  <2> QED BY <1>2, <2>1
<1>6. p.group # 0 => p.groups[p.group] \in Group
  <2>1. p.group # 0 => p.group \in 1 .. Len(p.groups)
    BY <1>3, <1>4
  <2> QED BY <1>2, <2>1
<1> QED BY <1>1, <1>2, <1>3, <1>4, <1>5, <1>6

(* The record at the current slot changes, in anything but its number.      *)
LEMMA RecordChanged ==
  ASSUME NEW p, ProbeIsSound(p), p.current # 0, NEW s \in Submission,
         s.number = p.submissions[p.current].number
  PROVE  LET q == [p EXCEPT !.submissions = [@ EXCEPT ![p.current] = s]]
         IN /\ ProbeIsSound(q) /\ Alike(p, q) /\ q.current = p.current /\ q.group = p.group
            /\ q.groups = p.groups /\ q.scope = p.scope
            /\ q.groups_this_frame = p.groups_this_frame
<1> DEFINE list == [p.submissions EXCEPT ![p.current] = s]
           q == [p EXCEPT !.submissions = list]
<1>1. /\ p \in Probes /\ p.submissions \in Seq(Submission) /\ p.current \in 1 .. Len(p.submissions)
      /\ p.group \in 0 .. Len(p.groups) /\ Len(p.submissions) \in Nat
      /\ Len(p.groups) \in Nat
  BY ProbeFields
<1>2. /\ list \in Seq(Submission) /\ Len(list) = Len(p.submissions)
      /\ \A j \in 1 .. Len(p.submissions) :
           list[j] = IF j = p.current THEN s ELSE p.submissions[j]
  BY <1>1, SubmissionReplaced
<1>3. \A j \in 1 .. Len(p.submissions) : list[j].number = p.submissions[j].number
  BY <1>1, <1>2
<1> HIDE DEF list
<1>4. q \in Probes
  BY <1>1, <1>2, ZenonT(60) DEF Probes
<1>5. /\ q.submissions = list /\ q.current = p.current /\ q.group = p.group
      /\ q.groups = p.groups /\ q.scope = p.scope /\ q.last = p.last
      /\ q.groups_this_frame = p.groups_this_frame
      /\ q.finished = p.finished /\ q.proven = p.proven /\ q.queries = p.queries
  BY <1>1, ZenonT(60) DEF Probes
<1> HIDE DEF q
<1>6. ProbeIsSound(q)
  BY <1>1, <1>2, <1>3, <1>4, <1>5, AlikeIsSound
<1>7. q = [p EXCEPT !.submissions = [@ EXCEPT ![p.current] = s]]
  BY DEF q, list
<1> QED BY <1>5, <1>6, <1>7 DEF Alike, KeepsResult

LEMMA EndedGroupIsSound ==
  ASSUME NEW p, ProbeIsSound(p)
  PROVE  LET q == Budget!EndGroup(p)
         IN /\ ProbeIsSound(q) /\ Alike(p, q) /\ q.submissions = p.submissions
            /\ q.current = p.current
<1> DEFINE q == Budget!EndGroup(p)
           g == [p.groups[p.group] EXCEPT !.ended = TRUE]
           list == [p.groups EXCEPT ![p.group] = g]
<1>1. /\ p \in Probes /\ p.groups \in Seq(Group) /\ Len(p.groups) \in Nat
      /\ p.group \in 0 .. Len(p.groups)
      /\ p.group # 0 => p.groups[p.group] \in Group
      /\ p.current \in 0 .. Len(p.submissions) /\ Len(p.submissions) \in Nat
  BY ProbeFields
<1>2. CASE p.group = 0
  <2>1. q = p
    BY <1>2 DEF Budget!EndGroup, Budget!NoSlot
  <2> QED BY <2>1 DEF Alike, KeepsResult
<1>3. CASE p.group # 0
  <2>1. q = [p EXCEPT !.groups = list, !.group = 0]
    BY <1>3 DEF Budget!EndGroup, Budget!NoSlot
  <2>2. g \in Group
    BY <1>1, <1>3, GroupChanged
  <2> HIDE DEF g
  <2>3. list \in Seq(Group) /\ Len(list) = Len(p.groups)
    <3>1. p.group \in 1 .. Len(p.groups)
      BY <1>1, <1>3
    <3> QED BY <1>1, <2>2, <3>1, GroupReplaced
  <2> HIDE DEF list, q
  <2>4. q \in Probes
    <3>1. 0 \in Nat
      OBVIOUS
    <3> QED BY <1>1, <2>1, <2>3, <3>1, ZenonT(60) DEF Probes
  <2>5. /\ q.submissions = p.submissions /\ q.current = p.current /\ q.group = 0
        /\ q.groups = list /\ q.last = p.last
        /\ q.finished = p.finished /\ q.proven = p.proven /\ q.queries = p.queries
    BY <1>1, <2>1, ZenonT(60) DEF Probes
  <2>6. ProbeIsSound(q)
    BY <1>1, <2>3, <2>4, <2>5, AlikeIsSound
  <2> QED BY <2>5, <2>6 DEF Alike, KeepsResult, q
<1> QED BY <1>2, <1>3

LEMMA CountedIsSound ==
  ASSUME NEW p, ProbeIsSound(p)
  PROVE  LET q == Budget!CountOperation(p) IN ProbeIsSound(q) /\ Alike(p, q) /\ q.current = p.current
<1> DEFINE q == Budget!CountOperation(p)
           r == p.submissions[p.current]
           s == [r EXCEPT !.operations = @ + 1]
           counted == [p EXCEPT !.submissions = [@ EXCEPT ![p.current] = s]]
           h == p.groups[p.group]
           g == [h EXCEPT !.operations = @ + 1]
           list == [p.groups EXCEPT ![p.group] = g]
<1>1. CASE p.current = 0
  <2>1. q = p
    BY <1>1 DEF Budget!CountOperation, Budget!NoSlot
  <2> QED BY <2>1 DEF Alike, KeepsResult
<1>2. CASE p.current # 0
  <2>1. r \in Submission
    BY <1>2, ProbeFields
  <2>2. s \in Submission /\ s.number = r.number
    <3> HIDE DEF r
    <3> QED BY <2>1 DEF Submission
  <2>3. q = IF p.group = 0 THEN counted ELSE [counted EXCEPT !.groups[p.group].operations = @ + 1]
    BY <1>2 DEF Budget!CountOperation, Budget!NoSlot
  <2> HIDE DEF s
  <2>4. /\ ProbeIsSound(counted) /\ Alike(p, counted) /\ counted.current = p.current
        /\ counted.group = p.group /\ counted.groups = p.groups
    BY <1>2, <2>2, RecordChanged
  <2> HIDE DEF counted, q
  <2>5. CASE p.group = 0
    <3>1. q = counted
      BY <2>3, <2>5
    <3> QED BY <2>4, <3>1 DEF q
  <2>6. CASE p.group # 0
    <3>1. h \in Group /\ p.groups \in Seq(Group) /\ Len(p.groups) \in Nat
          /\ p.group \in 1 .. Len(p.groups)
      BY <2>6, ProbeFields
    <3>2. g \in Group
      BY <3>1, GroupChanged
    <3>3. q = [counted EXCEPT !.groups = list]
      BY <2>3, <2>4, <2>6
    <3> HIDE DEF g
    <3>4. list \in Seq(Group) /\ Len(list) = Len(p.groups)
      BY <3>1, <3>2, GroupReplaced
    <3> HIDE DEF list
    <3>5. counted \in Probes /\ counted.current <= Len(counted.submissions)
      BY <2>4 DEF ProbeIsSound
    <3>6. q \in Probes
      BY <3>3, <3>4, <3>5, ZenonT(60) DEF Probes
    <3>7. /\ q.submissions = counted.submissions /\ q.current = counted.current
          /\ q.group = counted.group /\ q.groups = list /\ q.last = counted.last
          /\ q.finished = counted.finished /\ q.proven = counted.proven
          /\ q.queries = counted.queries
      BY <3>3, <3>5, ZenonT(60) DEF Probes
    <3>8. q.group <= Len(q.groups)
      BY <2>4, <3>1, <3>4, <3>7
    <3>9. ProbeIsSound(q)
      BY <2>4, <3>5, <3>6, <3>7, <3>8, AlikeIsSound
    <3> QED BY <2>4, <3>7, <3>9 DEF Alike, KeepsResult, q
  <2> QED BY <2>5, <2>6
<1> QED BY <1>1, <1>2

LEMMA EnteredIsSound ==
  ASSUME NEW p, ProbeIsSound(p), p.current # 0
  PROVE  LET q == Budget!EnterScope(p)
         IN ProbeIsSound(q) /\ Alike(p, q) /\ q.current = p.current
<1> DEFINE q == Budget!EnterScope(p)
           r == p.submissions[p.current]
           s == [r EXCEPT !.scopes = @ + 1]
           changed == [p EXCEPT !.submissions = [@ EXCEPT ![p.current] = s]]
           entered == [p EXCEPT !.scope = TRUE, !.submissions[p.current].scopes = @ + 1]
           begun == [frame |-> r.frame, number |-> r.number, operations |-> 0, ended |-> FALSE]
<1>1. r \in Submission
  BY ProbeFields
<1>2. s \in Submission /\ s.number = r.number
  <2> HIDE DEF r
  <2> QED BY <1>1 DEF Submission
<1>3. /\ ProbeIsSound(changed) /\ Alike(p, changed) /\ changed.current = p.current
      /\ changed.group = p.group /\ changed.groups = p.groups
      /\ changed.groups_this_frame = p.groups_this_frame
  <2> HIDE DEF s
  <2> QED BY <1>2, RecordChanged
<1>4. entered = [changed EXCEPT !.scope = TRUE]
  BY ProbeFields, ZenonT(60) DEF Probes
<1>5. begun \in Group
  BY <1>1 DEF Submission, Group
<1>6. q = IF p.scope THEN [p EXCEPT !.scope_error = TRUE]
          ELSE IF ~p.grouped \/ p.truncated THEN entered
          ELSE IF p.groups_this_frame = GroupsPerFrame
          THEN [entered EXCEPT !.group_overflow = TRUE, !.truncated = TRUE]
          ELSE [entered EXCEPT !.groups = Append(@, begun), !.group = Len(p.groups) + 1,
                               !.groups_this_frame = @ + 1]
  BY DEF Budget!EnterScope
<1> HIDE DEF q, begun, changed
<1>7. /\ ProbeIsSound(entered) /\ Alike(p, entered) /\ entered.current = p.current
      /\ entered.group = p.group /\ entered.groups = p.groups
      /\ entered.groups_this_frame = p.groups_this_frame /\ entered \in Probes
  <2> HIDE DEF entered
  <2>1. changed \in Probes
    BY <1>3 DEF ProbeIsSound
  <2>2. entered \in Probes
    BY <1>4, <2>1, ZenonT(60) DEF Probes
  <2>3. /\ entered.submissions = changed.submissions /\ entered.current = changed.current
        /\ entered.group = changed.group /\ entered.groups = changed.groups
        /\ entered.last = changed.last
        /\ entered.groups_this_frame = changed.groups_this_frame
        /\ entered.finished = changed.finished /\ entered.proven = changed.proven
        /\ entered.queries = changed.queries
    BY <1>4, <2>1, ZenonT(60) DEF Probes
  <2>4. changed.current <= Len(changed.submissions) /\ changed.group <= Len(changed.groups)
    BY <1>3 DEF ProbeIsSound
  <2>5. ProbeIsSound(entered)
    BY <1>3, <2>2, <2>3, <2>4, AlikeIsSound
  <2> QED BY <1>3, <2>2, <2>3, <2>5 DEF Alike, KeepsResult
<1> HIDE DEF entered
<1>8. /\ p \in Probes /\ p.groups \in Seq(Group) /\ Len(p.groups) \in Nat
      /\ p.groups_this_frame \in Nat
  BY ProbeFields
<1>9. CASE q = [p EXCEPT !.scope_error = TRUE]
  <2>1. q \in Probes
    BY <1>8, <1>9, ZenonT(60) DEF Probes
  <2>2. /\ q.submissions = p.submissions /\ q.current = p.current /\ q.group = p.group
        /\ q.groups = p.groups /\ q.last = p.last
        /\ q.finished = p.finished /\ q.proven = p.proven /\ q.queries = p.queries
    BY <1>8, <1>9, ZenonT(60) DEF Probes
  <2>3. ProbeIsSound(q)
    BY <2>1, <2>2 DEF ProbeIsSound
  <2> QED BY <2>2, <2>3 DEF Alike, KeepsResult, q
<1>10. CASE q = entered
  BY <1>7, <1>10 DEF q
<1>11. CASE q = [entered EXCEPT !.group_overflow = TRUE, !.truncated = TRUE]
  <2>1. q \in Probes
    BY <1>7, <1>11, ZenonT(60) DEF Probes
  <2>2. /\ q.submissions = entered.submissions /\ q.current = entered.current
        /\ q.group = entered.group /\ q.groups = entered.groups /\ q.last = entered.last
        /\ q.finished = entered.finished /\ q.proven = entered.proven
        /\ q.queries = entered.queries
    BY <1>7, <1>11, ZenonT(60) DEF Probes
  <2>3. ProbeIsSound(q)
    BY <1>7, <2>1, <2>2 DEF ProbeIsSound
  <2> QED BY <1>7, <2>2, <2>3 DEF Alike, KeepsResult, q
<1>12. CASE q = [entered EXCEPT !.groups = Append(@, begun), !.group = Len(p.groups) + 1,
                                !.groups_this_frame = @ + 1]
  <2> DEFINE longer == Append(p.groups, begun)
  <2>1. longer \in Seq(Group) /\ Len(longer) = Len(p.groups) + 1
    BY <1>5, <1>8, AppendProperties
  <2>2. q = [entered EXCEPT !.groups = longer, !.group = Len(p.groups) + 1,
                            !.groups_this_frame = p.groups_this_frame + 1]
    BY <1>7, <1>12
  <2> HIDE DEF longer
  <2>3. Len(p.groups) + 1 \in Nat /\ p.groups_this_frame + 1 \in Nat
    BY <1>8
  <2>4. q \in Probes
    BY <1>7, <2>1, <2>2, <2>3, ZenonT(60) DEF Probes
  <2>5. /\ q.submissions = entered.submissions /\ q.current = entered.current
        /\ q.group = Len(p.groups) + 1 /\ q.groups = longer /\ q.last = entered.last
        /\ q.finished = entered.finished /\ q.proven = entered.proven
        /\ q.queries = entered.queries
    BY <1>7, <2>2, ZenonT(60) DEF Probes
  <2>6. entered.current <= Len(entered.submissions) /\ q.group <= Len(q.groups)
    <3>1. entered.current <= Len(entered.submissions)
      BY <1>7 DEF ProbeIsSound
    <3> QED BY <1>8, <2>1, <2>5, <3>1
  <2>7. ProbeIsSound(q)
    BY <1>7, <2>4, <2>5, <2>6, AlikeIsSound
  <2> QED BY <1>7, <2>5, <2>7 DEF Alike, KeepsResult, q
<1> QED BY <1>6, <1>9, <1>10, <1>11, <1>12

LEMMA LeftIsSound ==
  ASSUME NEW p, ProbeIsSound(p)
  PROVE  LET q == Budget!LeaveScope(p) IN ProbeIsSound(q) /\ Alike(p, q)
<1> DEFINE error == p.scope_error \/ ~p.scope \/ p.current = 0
           told == [p EXCEPT !.scope_error = error]
           ended == Budget!EndGroup(told)
           q == [ended EXCEPT !.scope = FALSE]
<1>1. Budget!LeaveScope(p) = q
  BY DEF Budget!LeaveScope, Budget!NoSlot
<1>2. error \in BOOLEAN
  OBVIOUS
<1>3. p \in Probes
  BY DEF ProbeIsSound
<1> HIDE DEF error
<1>4. ProbeIsSound(told) /\ Alike(p, told)
  <2>1. told \in Probes
    BY <1>2, <1>3, ZenonT(60) DEF Probes
  <2>2. /\ told.submissions = p.submissions /\ told.current = p.current /\ told.group = p.group
        /\ told.groups = p.groups /\ told.last = p.last
        /\ told.finished = p.finished /\ told.proven = p.proven /\ told.queries = p.queries
    BY <1>3, ZenonT(60) DEF Probes
  <2> HIDE DEF told
  <2>3. ProbeIsSound(told)
    BY <2>1, <2>2 DEF ProbeIsSound
  <2> QED BY <2>2, <2>3 DEF Alike, KeepsResult
<1> HIDE DEF told
<1>5. ProbeIsSound(ended) /\ Alike(told, ended)
  BY <1>4, EndedGroupIsSound
<1> HIDE DEF ended
<1>6. ended \in Probes
  BY <1>5 DEF ProbeIsSound
<1>7. q \in Probes
  BY <1>6, ZenonT(60) DEF Probes
<1>8. /\ q.submissions = ended.submissions /\ q.current = ended.current /\ q.group = ended.group
      /\ q.groups = ended.groups /\ q.last = ended.last
      /\ q.finished = ended.finished /\ q.proven = ended.proven /\ q.queries = ended.queries
  BY <1>6, ZenonT(60) DEF Probes
<1> HIDE DEF q
<1>9. ProbeIsSound(q)
  BY <1>5, <1>7, <1>8 DEF ProbeIsSound
<1> QED BY <1>1, <1>4, <1>5, <1>8, <1>9 DEF Alike, KeepsResult

LEMMA EndedProbeIsSound ==
  ASSUME NEW p, ProbeIsSound(p), NEW closes \in BOOLEAN, NEW dumps \in Nat
  PROVE  LET q == Budget!EndProbe(p, closes, dumps)
         IN ProbeIsSound(q) /\ Alike(p, q) /\ q.current = 0
<1> DEFINE q == Budget!EndProbe(p, closes, dumps)
           error == p.alignment_error \/ (p.selected /\ p.closes # 0)
           counted == IF closes
                      THEN [p EXCEPT !.closes = @ + 1, !.previous = dumps, !.alignment_error = error]
                      ELSE p
           told == [counted EXCEPT !.scope_error = @ \/ p.scope]
           ended == Budget!EndGroup(told)
           r == ended.submissions[p.current]
           s == [r EXCEPT !.closes = closes, !.ended = TRUE,
                          !.dumps = IF closes THEN dumps - p.previous ELSE 0]
           changed == [ended EXCEPT !.submissions = [@ EXCEPT ![ended.current] = s]]
<1>1. /\ p \in Probes /\ p.previous \in Nat /\ p.closes + 1 \in Nat
      /\ p.current \in 0 .. Len(p.submissions) /\ p.group \in 0 .. Len(p.groups)
      /\ Len(p.submissions) \in Nat /\ Len(p.groups) \in Nat
  BY ProbeFields
<1>2. ProbeIsSound(counted) /\ Alike(p, counted) /\ counted.current = p.current
  <2>1. CASE ~closes
    BY <2>1 DEF Alike, KeepsResult
  <2>2. CASE closes
    <3> DEFINE e == error
               c == [p EXCEPT !.closes = p.closes + 1, !.previous = dumps, !.alignment_error = e]
    <3>1. e \in BOOLEAN /\ counted = c
      BY <2>2
    <3> HIDE DEF e, counted
    <3>2. c \in Probes
      BY <1>1, <3>1, ZenonT(60) DEF Probes
    <3>3. /\ c.submissions = p.submissions /\ c.current = p.current /\ c.group = p.group
          /\ c.groups = p.groups /\ c.last = p.last
          /\ c.finished = p.finished /\ c.proven = p.proven /\ c.queries = p.queries
      BY <1>1, ZenonT(60) DEF Probes
    <3> HIDE DEF c
    <3>4. ProbeIsSound(c)
      BY <3>2, <3>3 DEF ProbeIsSound
    <3> QED BY <3>1, <3>3, <3>4 DEF Alike, KeepsResult
  <2> QED BY <2>1, <2>2
<1>3. q = IF p.current = 0 THEN counted
          ELSE [ended EXCEPT !.scope = FALSE, !.current = 0, !.submissions[p.current] = s]
  BY DEF Budget!EndProbe, Budget!NoSlot
<1> HIDE DEF counted, q
<1>4. CASE p.current = 0
  <2>1. q = counted
    BY <1>3, <1>4
  <2> QED BY <1>2, <1>4, <2>1 DEF q
<1>5. CASE p.current # 0
  <2>1. counted \in Probes
    BY <1>2 DEF ProbeIsSound
  <2>2. ProbeIsSound(told) /\ Alike(counted, told) /\ told.current = counted.current
    <3> DEFINE e == counted.scope_error \/ p.scope
               t == [counted EXCEPT !.scope_error = e]
    <3>1. e \in BOOLEAN /\ told = t
      OBVIOUS
    <3> HIDE DEF e, told
    <3>2. t \in Probes
      BY <2>1, <3>1, ZenonT(60) DEF Probes
    <3>3. /\ t.submissions = counted.submissions /\ t.current = counted.current
          /\ t.group = counted.group /\ t.groups = counted.groups /\ t.last = counted.last
          /\ t.finished = counted.finished /\ t.proven = counted.proven
          /\ t.queries = counted.queries
      BY <2>1, ZenonT(60) DEF Probes
    <3> HIDE DEF t
    <3>4. ProbeIsSound(t)
      BY <1>2, <3>2, <3>3 DEF ProbeIsSound
    <3> QED BY <3>1, <3>3, <3>4 DEF Alike, KeepsResult
  <2> HIDE DEF told
  <2>3. ProbeIsSound(ended) /\ Alike(told, ended) /\ ended.current = p.current
    BY <1>2, <2>2, EndedGroupIsSound
  <2> HIDE DEF ended
  <2>4. r \in Submission
    BY <1>5, <2>3, ProbeFields
  <2>5. s \in Submission /\ s.number = r.number
    <3> DEFINE d == IF closes THEN dumps - p.previous ELSE 0
    <3>1. d \in Int
      BY <1>1
    <3> HIDE DEF d, r
    <3>2. s = [r EXCEPT !.closes = closes, !.ended = TRUE, !.dumps = d]
      BY DEF d
    <3> QED BY <2>4, <3>1, <3>2 DEF Submission
  <2> HIDE DEF s
  <2>6. ProbeIsSound(changed) /\ Alike(ended, changed) /\ changed.group = ended.group
        /\ changed.groups = ended.groups
    BY <1>5, <2>3, <2>5, RecordChanged
  <2>7. q = [changed EXCEPT !.scope = FALSE, !.current = 0]
    <3>1. ended \in Probes
      BY <2>3 DEF ProbeIsSound
    <3> DEFINE list == [ended.submissions EXCEPT ![p.current] = s]
    <3>2. q = [ended EXCEPT !.scope = FALSE, !.current = 0, !.submissions = list]
      <4>1. [ended EXCEPT !.scope = FALSE, !.current = 0].submissions = ended.submissions
        BY <3>1, ZenonT(60) DEF Probes
      <4> QED BY <1>3, <1>5, <4>1
    <3>3. changed = [ended EXCEPT !.submissions = list]
      BY <2>3
    <3> HIDE DEF list, changed
    <3> QED BY <3>1, <3>2, <3>3, ZenonT(60) DEF Probes
  <2> HIDE DEF changed
  <2>8. changed \in Probes /\ changed.group <= Len(changed.groups)
    BY <2>6 DEF ProbeIsSound
  <2>9. q \in Probes
    <3>1. 0 \in Nat
      OBVIOUS
    <3> QED BY <2>7, <2>8, <3>1, ZenonT(60) DEF Probes
  <2>10. /\ q.submissions = changed.submissions /\ q.current = 0 /\ q.group = changed.group
         /\ q.groups = changed.groups /\ q.last = changed.last
         /\ q.finished = changed.finished /\ q.proven = changed.proven
         /\ q.queries = changed.queries
    BY <2>7, <2>8, ZenonT(60) DEF Probes
  <2>11. ProbeIsSound(q)
    <3>1. Len(q.submissions) \in Nat /\ q.current <= Len(q.submissions)
      BY <2>9, <2>10 DEF Probes
    <3> QED BY <2>6, <2>8, <2>9, <2>10, <3>1, AlikeIsSound
  <2> QED BY <1>2, <2>2, <2>3, <2>6, <2>10, <2>11 DEF Alike, KeepsResult, q
<1> QED BY <1>4, <1>5

(* What publication and the teardown decided: nothing before; completion is *)
(* proven of ended records the queue has passed, and only then, or if there *)
(* are none, are the queries released.                                      *)
ResultHolds(p, last_passed) ==
  /\ ~p.finished => p.queries = "held" /\ ~p.proven
  /\ p.proven => Budget!AllEnded(p) /\ p.last <= last_passed
  /\ p.queries = "released" => p.proven \/ p.submissions = <<>>

Works == [number : Nat, frame : Nat, operations : Nat, scopes : Nat]
Results == [valid : BOOLEAN, complete : BOOLEAN]

Commands == [frame : Nat, next : Nat, open : BOOLEAN, work : Works, returned : BOOLEAN,
             operations : Nat, dumps : Nat, frame_dumps : Nat, lost : BOOLEAN,
             failures : Nat]

BudgetTypes ==
  /\ commands \in Commands
  /\ passed \in Nat /\ passed < commands.next
  /\ published \in Results

BudgetInv ==
  /\ BudgetTypes /\ ProbeIsSound(probe) /\ probe.last <= commands.next
  /\ ResultHolds(probe, passed)

LEMMA BudgetConstants ==
  /\ Captures \subseteq (Nat \ {0}) \X Nat /\ SubmissionCapacity \in Nat
  /\ MaxFrames \in Nat /\ MaxSubmissions \in Nat /\ MaxScopes \in Nat
  /\ Budget!Removed \in Nat
BY GuestFramesAssumption DEF Budget!GpuBudgetProbeAssumption, Budget!Removed

LEMMA CommandsFields ==
  ASSUME NEW c \in Commands
  PROVE  /\ c.frame \in Nat /\ c.next \in Nat /\ c.open \in BOOLEAN /\ c.work \in Works
         /\ c.returned \in BOOLEAN /\ c.operations \in Nat /\ c.dumps \in Nat
         /\ c.frame_dumps \in Nat /\ c.lost \in BOOLEAN /\ c.failures \in Nat
BY DEF Commands

LEMMA BudgetInit == Budget!Init => BudgetInv
<1> SUFFICES ASSUME Budget!Init PROVE BudgetInv
  OBVIOUS
<1>1. PICK chosen \in Captures :
        probe = [count |-> chosen[1], period |-> chosen[2], observed |-> -1, first |-> 0,
                 last |-> 0, closes |-> 0, selected |-> FALSE, grouped |-> FALSE,
                 groups_this_frame |-> 0, truncated |-> FALSE, previous |-> 0,
                 submissions |-> <<>>, groups |-> <<>>, current |-> 0,
                 group |-> 0, scope |-> FALSE, submission_overflow |-> FALSE,
                 group_overflow |-> FALSE, scope_error |-> FALSE,
                 alignment_error |-> FALSE, finished |-> FALSE, proven |-> FALSE,
                 queries |-> "held"]
  BY DEF Budget!Init, Budget!Never, Budget!NoSlot
<1>2. chosen[1] \in Nat /\ chosen[2] \in Nat
  BY BudgetConstants
<1>3. <<>> \in Seq(Submission) /\ <<>> \in Seq(Group) /\ 0 \in Nat /\ -1 \in Int
  OBVIOUS
<1>4. probe \in Probes
  BY <1>1, <1>2, <1>3, SMTT(60) DEF Probes
<1>5. /\ probe.submissions = <<>> /\ probe.groups = <<>> /\ probe.current = 0 /\ probe.group = 0
      /\ probe.last = 0 /\ probe.finished = FALSE /\ probe.proven = FALSE
      /\ probe.queries = "held"
  BY <1>1
<1>6. ProbeIsSound(probe)
  <2>1. Len(probe.submissions) = 0 /\ Len(probe.groups) = 0
    BY <1>5
  <2> QED BY <1>4, <1>5, <2>1, BudgetConstants DEF ProbeIsSound
<1>7. commands = [frame |-> 1, next |-> 1, open |-> FALSE, work |-> Budget!Idle,
                  returned |-> FALSE, operations |-> 0, dumps |-> 0, frame_dumps |-> 0,
                  lost |-> FALSE, failures |-> 0]
      /\ passed = 0 /\ published = [valid |-> FALSE, complete |-> FALSE]
  BY DEF Budget!Init
<1>8. BudgetTypes
  <2>1. Budget!Idle \in Works
    BY DEF Budget!Idle, Works
  <2> QED BY <1>7, <2>1 DEF BudgetTypes, Results, Commands
<1> QED BY <1>5, <1>6, <1>7, <1>8 DEF BudgetInv, ResultHolds

LEMMA FinishedIsSound ==
  ASSUME NEW p, ProbeIsSound(p), p.queries = "held", NEW idle, NEW completed \in Int, NEW outcome
  PROVE  LET q == Budget!Finished(p, idle, completed, outcome)
         IN /\ ProbeIsSound(q) /\ q.last = p.last /\ q.submissions = p.submissions
            /\ q.finished = TRUE /\ q.queries \in {"held", "retained"}
            /\ q.proven => /\ Budget!AllEnded(q)
                           /\ completed # Budget!Removed /\ completed >= p.last
<1> DEFINE proven == Budget!CompletionProven(p, idle, completed, outcome) /\ Budget!AllEnded(p)
           kept == IF proven THEN p.queries ELSE "retained"
           q == Budget!Finished(p, idle, completed, outcome)
<1>1. /\ proven \in BOOLEAN /\ kept \in {"held", "retained"}
      /\ proven => Budget!AllEnded(p) /\ completed # Budget!Removed /\ completed >= p.last
  BY DEF Budget!CompletionProven
<1>2. q = [p EXCEPT !.finished = TRUE, !.proven = proven, !.queries = kept]
  BY DEF Budget!Finished
<1>3. p \in Probes
  BY DEF ProbeIsSound
<1> HIDE DEF proven, kept, q
<1>4. q \in Probes
  <2>1. kept \in {"held", "retained", "released"}
    BY <1>1
  <2> QED BY <1>1, <1>2, <1>3, <2>1, ZenonT(60) DEF Probes
<1>5. /\ q.submissions = p.submissions /\ q.current = p.current /\ q.group = p.group
      /\ q.groups = p.groups /\ q.last = p.last
      /\ q.finished = TRUE /\ q.proven = proven /\ q.queries = kept
  BY <1>2, <1>3, ZenonT(60) DEF Probes
<1>6. ProbeIsSound(q)
  BY <1>4, <1>5 DEF ProbeIsSound
<1>7. q.proven => Budget!AllEnded(q)
  BY <1>1, <1>5 DEF Budget!AllEnded
<1> QED BY <1>1, <1>5, <1>6, <1>7 DEF q

LEMMA DestroyedIsSound ==
  ASSUME NEW p, ProbeIsSound(p)
  PROVE  LET q == Budget!Destroyed(p)
         IN /\ ProbeIsSound(q) /\ q.last = p.last /\ q.submissions = p.submissions
            /\ q.groups = p.groups /\ q.finished = p.finished /\ q.proven = p.proven
            /\ q.queries \in {"retained", "released"}
            /\ q.queries = "released" => p.proven \/ p.submissions = <<>>
<1> DEFINE kept == IF p.queries = "retained" \/ (~p.proven /\ p.submissions # <<>>)
                   THEN "retained" ELSE "released"
           q == Budget!Destroyed(p)
<1>1. kept \in {"retained", "released"}
      /\ (kept = "released" => p.proven \/ p.submissions = <<>>)
  OBVIOUS
<1>2. q = [p EXCEPT !.queries = kept]
  BY DEF Budget!Destroyed
<1>3. p \in Probes
  BY DEF ProbeIsSound
<1> HIDE DEF kept, q
<1>4. q \in Probes
  <2>1. kept \in {"held", "retained", "released"}
    BY <1>1
  <2> QED BY <1>2, <1>3, <2>1, ZenonT(60) DEF Probes
<1>5. /\ q.submissions = p.submissions /\ q.current = p.current /\ q.group = p.group
      /\ q.groups = p.groups /\ q.last = p.last
      /\ q.finished = p.finished /\ q.proven = p.proven /\ q.queries = kept
  BY <1>2, <1>3, ZenonT(60) DEF Probes
<1>6. ProbeIsSound(q)
  BY <1>4, <1>5 DEF ProbeIsSound
<1> QED BY <1>1, <1>5, <1>6 DEF q

LEMMA ReportShape ==
  ASSUME published \in Results, NEW p, NEW idle, NEW completed, NEW outcome
  PROVE  Budget!Report(p, idle, completed, outcome) \in Results
<1> DEFINE valid == Budget!Valid(p, idle, completed, outcome)
           complete == valid /\ p.period # 0 /\ ~p.group_overflow /\ ~p.scope_error
<1>1. valid \in BOOLEAN /\ complete \in BOOLEAN
  BY DEF Budget!Valid
<1>2. Budget!Report(p, idle, completed, outcome)
        = IF outcome = "unwritten" THEN published ELSE [valid |-> valid, complete |-> complete]
  BY DEF Budget!Report
<1> HIDE DEF valid, complete
<1> QED BY <1>1, <1>2 DEF Results

(* The capture is published, or not yet, behind a submission. *)
LEMMA PublishStep ==
  ASSUME BudgetTypes, NEW p, ProbeIsSound(p), p.last <= commands.next,
         ~p.finished, p.queries = "held", ~p.proven, Budget!Publish(p)
  PROVE  /\ ProbeIsSound(probe') /\ probe'.last = p.last
         /\ passed' \in Nat /\ passed <= passed' /\ passed' <= commands.next
         /\ published' \in Results /\ ResultHolds(probe', passed')
<1>0. commands.next \in Nat /\ passed \in Nat /\ passed < commands.next /\ published \in Results
      /\ p.last \in Nat
  BY ProbeFields DEF BudgetTypes, Commands
<1>1. CASE probe' = p /\ UNCHANGED <<passed, published>>
  BY <1>0, <1>1 DEF ResultHolds
<1>2. ASSUME NEW completed \in 0 .. Budget!Removed, Budget!Read(completed, commands.next),
             probe' = p, UNCHANGED published
      PROVE  /\ ProbeIsSound(probe') /\ probe'.last = p.last
             /\ passed' \in Nat /\ passed <= passed' /\ passed' <= commands.next
             /\ published' \in Results /\ ResultHolds(probe', passed')
  <2>1. passed' \in Nat /\ passed <= passed' /\ passed' <= commands.next
    BY <1>0, <1>2, BudgetConstants DEF Budget!Read
  <2> QED BY <1>0, <1>2, <2>1 DEF ResultHolds
<1>3. ASSUME NEW completed \in 0 .. Budget!Removed, NEW outcome,
             Budget!Read(completed, commands.next),
             probe' = Budget!Finished(p, completed # Budget!Removed, completed, outcome),
             published' = Budget!Report(p, completed # Budget!Removed, completed, outcome)
      PROVE  /\ ProbeIsSound(probe') /\ probe'.last = p.last
             /\ passed' \in Nat /\ passed <= passed' /\ passed' <= commands.next
             /\ published' \in Results /\ ResultHolds(probe', passed')
  <2>1. completed \in Int
    BY BudgetConstants
  <2>2. /\ ProbeIsSound(probe') /\ probe'.last = p.last /\ probe'.submissions = p.submissions
        /\ probe'.finished = TRUE /\ probe'.queries \in {"held", "retained"}
        /\ probe'.proven => /\ Budget!AllEnded(probe')
                            /\ completed # Budget!Removed /\ completed >= p.last
    <3> DEFINE idle == completed # Budget!Removed
               q == Budget!Finished(p, idle, completed, outcome)
    <3>1. /\ ProbeIsSound(q) /\ q.last = p.last /\ q.submissions = p.submissions
          /\ q.finished = TRUE /\ q.queries \in {"held", "retained"}
          /\ q.proven => /\ Budget!AllEnded(q)
                         /\ completed # Budget!Removed /\ completed >= p.last
      <4> HIDE DEF idle
      <4> QED BY <2>1, FinishedIsSound
    <3>2. probe' = q
      BY <1>3
    <3> HIDE DEF q
    <3> QED BY <3>1, <3>2
  <2>3. /\ passed' \in Nat /\ passed <= passed' /\ passed' <= commands.next
        /\ completed # Budget!Removed => passed' = completed
    BY <1>0, <1>3, BudgetConstants DEF Budget!Read
  <2>4. ResultHolds(probe', passed')
    BY <1>0, <2>1, <2>2, <2>3 DEF ResultHolds
  <2>5. published' \in Results
    BY <1>0, <1>3, ReportShape
  <2> QED BY <2>2, <2>3, <2>4, <2>5
<1> QED BY <1>1, <1>2, <1>3 DEF Budget!Publish

(* BeginSubmission opens a submission unless one is. *)
LEMMA SubmissionBegun ==
  ASSUME BudgetTypes, NEW p, ProbeIsSound(p), p.last <= commands.next
  PROVE  LET q == Budget!BeginSubmission(p)
         IN ProbeIsSound(q) /\ KeepsResult(p, q) /\ q.last <= commands.next
<1>1. commands.next \in Nat /\ commands.frame \in Nat
  BY DEF BudgetTypes, Commands
<1>2. CASE commands.open
  BY <1>2 DEF Budget!BeginSubmission, KeepsResult
<1>3. CASE ~commands.open
  <2>1. Budget!BeginSubmission(p) = Budget!BeginProbe(p, commands.frame, commands.next)
    BY <1>3 DEF Budget!BeginSubmission
  <2> QED BY <1>1, <2>1, BegunIsSound
<1> QED BY <1>2, <1>3

LEMMA WorkBegun ==
  ASSUME BudgetTypes
  PROVE  Budget!Work \in Works /\ Budget!Idle \in Works
<1>1. Budget!Idle \in Works
  BY DEF Budget!Idle, Works
<1>2. commands.next \in Nat /\ commands.frame \in Nat /\ commands.work \in Works
  BY DEF BudgetTypes, Commands
<1>3. [Budget!Idle EXCEPT !.number = commands.next, !.frame = commands.frame] \in Works
  BY <1>1, <1>2 DEF Works
<1> QED BY <1>1, <1>2, <1>3 DEF Budget!Work

(* A step before publication keeps the invariant if the probe stays sound.  *)
LEMMA UnpublishedStep ==
  ASSUME BudgetInv, ~probe.finished, ProbeIsSound(probe'), KeepsResult(probe, probe'),
         probe'.last <= commands'.next, UNCHANGED <<passed, published>>,
         commands.next <= commands'.next,
         commands' \in Commands
  PROVE  BudgetInv'
<1>1. /\ BudgetTypes /\ ResultHolds(probe, passed)
  BY DEF BudgetInv
<1>2. BudgetTypes'
  <2>1. commands.next \in Nat /\ commands'.next \in Nat
    BY <1>1, CommandsFields DEF BudgetTypes
  <2> QED BY <1>1, <2>1 DEF BudgetTypes
<1>3. probe'.finished = FALSE /\ probe'.queries = "held" /\ ~probe'.proven
  <2>1. probe \in Probes /\ probe.queries = "held" /\ ~probe.proven
    BY <1>1 DEF ResultHolds, BudgetInv, ProbeIsSound
  <2>2. probe.finished = FALSE
    BY <2>1 DEF Probes
  <2> QED BY <2>1, <2>2 DEF KeepsResult
<1>4. ResultHolds(probe', passed')
  BY <1>3 DEF ResultHolds
<1> QED BY <1>2, <1>4 DEF BudgetInv

LEMMA ProbeBegin ==
  ASSUME BudgetInv, Budget!Begin
  PROVE  BudgetInv'
<1>0. /\ BudgetTypes /\ ProbeIsSound(probe) /\ probe.last <= commands.next
  BY DEF BudgetInv
<1>1. PICK due \in BOOLEAN, begun \in BOOLEAN :
        /\ probe' = IF begun THEN Budget!BeginSubmission(
                                    Budget!ObserveFrame(probe, commands.frame, due))
                    ELSE Budget!ObserveFrame(probe, commands.frame, due)
        /\ commands' = IF begun THEN [commands EXCEPT !.open = TRUE, !.work = Budget!Work]
                       ELSE commands
  BY DEF Budget!Begin
<1>2. ~probe.finished /\ UNCHANGED <<passed, published>>
  BY DEF Budget!Begin, Budget!Running
<1> DEFINE p == Budget!ObserveFrame(probe, commands.frame, due)
<1>3. commands.frame \in Nat /\ commands.next \in Nat
  BY <1>0 DEF BudgetTypes, Commands
<1>4. ProbeIsSound(p) /\ KeepsResult(probe, p) /\ p.last = probe.last
  BY <1>0, <1>3, ObservedIsSound
<1> HIDE DEF p
<1>5. ProbeIsSound(probe') /\ KeepsResult(probe, probe') /\ probe'.last <= commands.next
  <2>1. CASE begun
    <3>1. probe' = Budget!BeginSubmission(p)
      BY <1>1, <2>1 DEF p
    <3>2. ProbeIsSound(probe') /\ KeepsResult(p, probe') /\ probe'.last <= commands.next
      BY <1>0, <1>4, <3>1, SubmissionBegun
    <3> QED BY <1>4, <3>2 DEF KeepsResult
  <2>2. CASE ~begun
    <3>1. probe' = p
      BY <1>1, <2>2 DEF p
    <3> QED BY <1>0, <1>4, <3>1
  <2> QED BY <2>1, <2>2
<1>6. /\ commands' \in Commands
      /\ commands'.next = commands.next
  <2>1. commands \in Commands
    BY <1>0 DEF BudgetTypes
  <2> DEFINE work == Budget!Work
  <2>2. work \in Works /\ TRUE \in BOOLEAN
    BY <1>0, WorkBegun
  <2>3. CASE commands' = commands
    BY <2>1, <2>3
  <2>4. CASE commands' = [commands EXCEPT !.open = TRUE, !.work = work]
    <3> HIDE DEF work
    <3> QED BY <2>1, <2>2, <2>4, ZenonT(60) DEF Commands
  <2> QED BY <1>1, <2>3, <2>4
<1> QED BY <1>2, <1>3, <1>5, <1>6, UnpublishedStep

LEMMA ProbeOperation ==
  ASSUME BudgetInv, Budget!Operation
  PROVE  BudgetInv'
<1>0. BudgetTypes /\ ProbeIsSound(probe) /\ probe.last <= commands.next
  BY DEF BudgetInv
<1>1. /\ ~probe.finished /\ UNCHANGED <<passed, published>>
      /\ commands' = [commands EXCEPT !.operations = @ + 1, !.work.operations = @ + 1]
      /\ probe' = Budget!CountOperation(probe)
  BY DEF Budget!Operation, Budget!Running
<1>2. /\ commands' \in Commands
      /\ commands'.next = commands.next
  <2>1. commands \in Commands
    BY <1>0 DEF BudgetTypes
  <2> DEFINE work == [commands.work EXCEPT !.operations = @ + 1]
  <2>2. commands.operations + 1 \in Nat /\ work \in Works
    BY <2>1, CommandsFields DEF Works
  <2>3. commands' = [commands EXCEPT !.operations = commands.operations + 1, !.work = work]
    BY <1>1, <2>1, ZenonT(60) DEF Commands
  <2> HIDE DEF work
  <2> QED BY <2>1, <2>2, <2>3, ZenonT(60) DEF Commands
<1>3. ProbeIsSound(probe') /\ Alike(probe, probe')
  BY <1>0, <1>1, CountedIsSound
<1>4. commands.next \in Nat
  BY <1>0 DEF BudgetTypes, Commands
<1> QED BY <1>0, <1>1, <1>2, <1>3, <1>4, UnpublishedStep DEF Alike

LEMMA ProbeLeaf ==
  ASSUME BudgetInv, Budget!Leaf
  PROVE  BudgetInv'
<1>0. BudgetTypes /\ ProbeIsSound(probe) /\ probe.last <= commands.next
  BY DEF BudgetInv
<1>1. /\ ~probe.finished /\ UNCHANGED <<passed, published>>
      /\ commands' = [commands EXCEPT !.dumps = @ + 1, !.frame_dumps = @ + 1,
                        !.work.operations = @ + 1, !.work.scopes = @ + 1]
      /\ probe' = IF probe.current = 0 THEN Budget!CountOperation(probe)
                  ELSE Budget!LeaveScope(Budget!CountOperation(Budget!EnterScope(probe)))
  BY DEF Budget!Leaf, Budget!Running, Budget!NoSlot
<1>2. /\ commands' \in Commands
      /\ commands'.next = commands.next
  <2>1. commands \in Commands
    BY <1>0 DEF BudgetTypes
  <2> DEFINE work == [commands.work EXCEPT !.operations = @ + 1, !.scopes = @ + 1]
             dumps == commands.dumps + 1
             frame_dumps == commands.frame_dumps + 1
  <2>2. dumps \in Nat /\ frame_dumps \in Nat /\ commands.work \in Works
    BY <2>1, CommandsFields
  <2>3. commands.work.operations + 1 \in Nat /\ commands.work.scopes + 1 \in Nat
    BY <2>2 DEF Works
  <2>4. work \in Works
    BY <2>2, <2>3, ZenonT(60) DEF Works
  <2>5. commands' = [commands EXCEPT !.dumps = dumps, !.frame_dumps = frame_dumps, !.work = work]
    BY <1>1, <2>1, ZenonT(60) DEF Commands
  <2> HIDE DEF work, dumps, frame_dumps
  <2> QED BY <2>1, <2>2, <2>4, <2>5, ZenonT(60) DEF Commands
<1>3. ProbeIsSound(probe') /\ Alike(probe, probe')
  <2>1. CASE probe.current = 0
    BY <1>0, <1>1, <2>1, CountedIsSound
  <2>2. CASE probe.current # 0
    <3> DEFINE entered == Budget!EnterScope(probe)
               counted == Budget!CountOperation(entered)
    <3>1. ProbeIsSound(entered) /\ Alike(probe, entered)
      BY <1>0, <2>2, EnteredIsSound
    <3>2. ProbeIsSound(counted) /\ Alike(entered, counted)
      <4> HIDE DEF entered
      <4> QED BY <3>1, CountedIsSound
    <3>3. probe' = Budget!LeaveScope(counted)
      BY <1>1, <2>2
    <3> HIDE DEF counted, entered
    <3>4. ProbeIsSound(probe') /\ Alike(counted, probe')
      BY <3>2, <3>3, LeftIsSound
    <3> QED BY <3>1, <3>2, <3>4 DEF Alike, KeepsResult
  <2> QED BY <2>1, <2>2
<1>4. commands.next \in Nat
  BY <1>0 DEF BudgetTypes, Commands
<1> QED BY <1>0, <1>1, <1>2, <1>3, <1>4, UnpublishedStep DEF Alike

LEMMA ProbeLosesSubmission ==
  ASSUME BudgetInv, Budget!LoseSubmission
  PROVE  BudgetInv'
<1>0. BudgetTypes /\ ProbeIsSound(probe) /\ probe.last <= commands.next
  BY DEF BudgetInv
<1>1. /\ ~probe.finished /\ UNCHANGED <<passed, published>>
      /\ commands' = [commands EXCEPT !.lost = TRUE, !.failures = @ + 1]
      /\ probe' = Budget!EndProbe(probe, FALSE, commands.dumps)
  BY DEF Budget!LoseSubmission, Budget!Running
<1>2. /\ commands' \in Commands
      /\ commands'.next = commands.next /\ commands.dumps \in Nat /\ commands.next \in Nat
  <2>1. commands \in Commands
    BY <1>0 DEF BudgetTypes
  <2> DEFINE failures == commands.failures + 1
  <2>2. failures \in Nat /\ TRUE \in BOOLEAN /\ commands.dumps \in Nat /\ commands.next \in Nat
    BY <2>1, CommandsFields
  <2>3. commands' = [commands EXCEPT !.lost = TRUE, !.failures = failures]
    BY <1>1
  <2> HIDE DEF failures
  <2> QED BY <2>1, <2>2, <2>3, ZenonT(60) DEF Commands
<1>3. ProbeIsSound(probe') /\ Alike(probe, probe')
  <2>1. FALSE \in BOOLEAN
    OBVIOUS
  <2> QED BY <1>0, <1>1, <1>2, <2>1, EndedProbeIsSound
<1>4. KeepsResult(probe, probe') /\ probe'.last = probe.last
  BY <1>3 DEF Alike
<1>5. probe'.last <= commands'.next /\ commands.next <= commands'.next
  BY <1>0, <1>2, <1>4
<1> QED BY <1>0, <1>1, <1>2, <1>3, <1>4, <1>5, UnpublishedStep

LEMMA SubmitStep ==
  ASSUME BudgetInv, NEW p, ProbeIsSound(p), KeepsResult(probe, p), p.last <= commands.next,
         ~probe.finished, NEW work, NEW closes \in BOOLEAN, Budget!Submit(p, work, closes),
         commands'.next = commands.next + 1,
         commands' \in Commands
  PROVE  BudgetInv'
<1> DEFINE ended == Budget!EndProbe(p, closes, commands.dumps)
<1>0. BudgetTypes /\ ResultHolds(probe, passed) /\ commands.dumps \in Nat /\ commands.next \in Nat
      /\ passed \in Nat /\ passed < commands.next
  BY DEF BudgetInv, BudgetTypes, Commands
<1>1. ProbeIsSound(ended) /\ Alike(p, ended)
  BY <1>0, EndedProbeIsSound
<1>2. Budget!Publish(ended)
  BY DEF Budget!Submit
<1> HIDE DEF ended
<1>3. ~ended.finished /\ ended.queries = "held" /\ ~ended.proven /\ ended.last <= commands.next
  BY <1>0, <1>1 DEF ResultHolds, Alike, KeepsResult
<1>4. /\ ProbeIsSound(probe') /\ probe'.last = ended.last
      /\ passed' \in Nat /\ passed <= passed' /\ passed' <= commands.next
      /\ published' \in Results /\ ResultHolds(probe', passed')
  BY <1>0, <1>1, <1>2, <1>3, PublishStep
<1>5. BudgetTypes'
  BY <1>0, <1>4 DEF BudgetTypes
<1>6. probe'.last <= commands'.next
  BY <1>0, <1>1, <1>3, <1>4, ProbeFields
<1> QED BY <1>4, <1>5, <1>6 DEF BudgetInv

LEMMA ProbeEndSubmission ==
  ASSUME BudgetInv, Budget!EndSubmission
  PROVE  BudgetInv'
<1>0. BudgetTypes /\ ProbeIsSound(probe) /\ probe.last <= commands.next
  BY DEF BudgetInv
<1>1. /\ ~probe.finished /\ Budget!Submit(probe, commands.work, FALSE)
      /\ commands' = [commands EXCEPT !.open = FALSE, !.work = Budget!Idle, !.next = @ + 1]
  BY DEF Budget!EndSubmission, Budget!Running
<1>2. /\ commands' \in Commands
      /\ commands'.next = commands.next + 1
  <2>1. commands \in Commands
    BY <1>0 DEF BudgetTypes
  <2> DEFINE work == Budget!Idle
             next == commands.next + 1
  <2>2. work \in Works /\ next \in Nat /\ FALSE \in BOOLEAN
    BY <1>0, <2>1, CommandsFields, WorkBegun
  <2>3. commands' = [commands EXCEPT !.open = FALSE, !.work = work, !.next = next]
    BY <1>1
  <2>4. commands' \in Commands /\ commands'.next = next
    <3> HIDE DEF work, next
    <3> QED BY <2>1, <2>2, <2>3, ZenonT(60) DEF Commands
  <2> QED BY <2>4
<1>3. KeepsResult(probe, probe)
  BY DEF KeepsResult
<1> QED BY <1>0, <1>1, <1>2, <1>3, SubmitStep

LEMMA ProbeSwap ==
  ASSUME BudgetInv, Budget!Swap
  PROVE  BudgetInv'
<1>0. BudgetTypes /\ ProbeIsSound(probe) /\ probe.last <= commands.next
  BY DEF BudgetInv
<1>1. PICK due \in BOOLEAN :
        Budget!Submit(Budget!BeginSubmission(Budget!ObserveFrame(probe, commands.frame, due)),
                      Budget!Work, TRUE)
  BY DEF Budget!Swap
<1>2. /\ ~probe.finished
      /\ commands' = [[commands EXCEPT !.open = FALSE, !.work = Budget!Idle, !.next = @ + 1,
                                       !.frame_dumps = 0] EXCEPT !.frame = @ + 1]
  BY DEF Budget!Swap, Budget!Running, Budget!NextFrame
<1>3. /\ commands' \in Commands
      /\ commands'.next = commands.next + 1 /\ commands.frame \in Nat
  <2>1. commands \in Commands
    BY <1>0 DEF BudgetTypes
  <2> DEFINE work == Budget!Idle
             next == commands.next + 1
             frame == commands.frame + 1
  <2>2. /\ work \in Works /\ next \in Nat /\ FALSE \in BOOLEAN /\ frame \in Nat
        /\ commands.frame \in Nat /\ 0 \in Nat
    BY <1>0, <2>1, CommandsFields, WorkBegun
  <2>3. commands' = [commands EXCEPT !.open = FALSE, !.work = work, !.next = next,
                                     !.frame_dumps = 0, !.frame = frame]
    BY <1>2, <2>1, ZenonT(60) DEF Commands
  <2>4. commands' \in Commands /\ commands'.next = next
    <3> HIDE DEF work, next, frame
    <3> QED BY <2>1, <2>2, <2>3, ZenonT(60) DEF Commands
  <2> QED BY <2>2, <2>4
<1> DEFINE observed == Budget!ObserveFrame(probe, commands.frame, due)
           p == Budget!BeginSubmission(observed)
<1>4. ProbeIsSound(observed) /\ KeepsResult(probe, observed) /\ observed.last <= commands.next
  BY <1>0, <1>3, ObservedIsSound
<1>5. Budget!Submit(p, Budget!Work, TRUE)
  BY <1>1
<1> HIDE DEF observed
<1>6. ProbeIsSound(p) /\ KeepsResult(observed, p) /\ p.last <= commands.next
  BY <1>0, <1>4, SubmissionBegun
<1> HIDE DEF p
<1>7. KeepsResult(probe, p)
  BY <1>4, <1>6 DEF KeepsResult
<1> QED BY <1>2, <1>3, <1>5, <1>6, <1>7, SubmitStep

LEMMA ProbeSwapFails ==
  ASSUME BudgetInv, Budget!SwapFails
  PROVE  BudgetInv'
<1>0. BudgetTypes /\ ProbeIsSound(probe) /\ probe.last <= commands.next
  BY DEF BudgetInv
<1>1. PICK step \in {"no_presenter", "not_begun", "not_ended"}, due \in BOOLEAN :
        LET p == Budget!ObserveFrame(probe, commands.frame, due)
        IN /\ probe' = CASE step = "no_presenter" -> probe
                         [] step = "not_begun" -> p
                         [] step = "not_ended" -> Budget!BeginSubmission(p)
           /\ commands' = [[commands EXCEPT
                !.open = @ \/ step = "not_ended",
                !.work = IF step = "not_ended" THEN Budget!Work ELSE @,
                !.failures = IF commands.lost THEN @ ELSE @ + 1] EXCEPT !.frame = @ + 1]
  BY DEF Budget!SwapFails, Budget!NextFrame
<1>2. ~probe.finished /\ UNCHANGED <<passed, published>>
  BY DEF Budget!SwapFails, Budget!Running
<1> DEFINE p == Budget!ObserveFrame(probe, commands.frame, due)
<1>3. commands.frame \in Nat /\ commands.next \in Nat
  BY <1>0 DEF BudgetTypes, Commands
<1>4. ProbeIsSound(p) /\ KeepsResult(probe, p) /\ p.last = probe.last
  BY <1>0, <1>3, ObservedIsSound
<1>5. probe' \in {probe, p, Budget!BeginSubmission(p)}
  BY <1>1
<1> HIDE DEF p
<1>6. ProbeIsSound(probe') /\ KeepsResult(probe, probe') /\ probe'.last <= commands.next
  <2>1. CASE probe' = probe
    BY <1>0, <2>1 DEF KeepsResult
  <2>2. CASE probe' = p
    BY <1>0, <1>4, <2>2
  <2>3. CASE probe' = Budget!BeginSubmission(p)
    <3>1. ProbeIsSound(probe') /\ KeepsResult(p, probe') /\ probe'.last <= commands.next
      BY <1>0, <1>4, <2>3, SubmissionBegun
    <3> QED BY <1>4, <3>1 DEF KeepsResult
  <2> QED BY <1>5, <2>1, <2>2, <2>3
<1>7. /\ commands' \in Commands
      /\ commands'.next = commands.next
  <2> DEFINE open == commands.open \/ step = "not_ended"
             work == IF step = "not_ended" THEN Budget!Work ELSE commands.work
             failures == IF commands.lost THEN commands.failures ELSE commands.failures + 1
             frame == commands.frame + 1
  <2>0. commands \in Commands
    BY <1>0 DEF BudgetTypes
  <2>1. open \in BOOLEAN /\ work \in Works /\ failures \in Nat /\ frame \in Nat
    <3>1. commands.open \in BOOLEAN /\ commands.work \in Works /\ commands.failures \in Nat
          /\ commands.frame \in Nat /\ Budget!Work \in Works
      BY <1>0, <2>0, CommandsFields, WorkBegun
    <3>2. open \in BOOLEAN
      OBVIOUS
    <3>3. work \in Works
      BY <3>1
    <3>4. failures \in Nat /\ frame \in Nat
      <4>1. commands.failures \in Nat /\ commands.frame \in Nat
        BY <3>1, Zenon
      <4>2. commands.failures + 1 \in Nat
        BY <4>1, SMT
      <4>3. frame \in Nat
        BY <4>1, SMT
      <4> QED BY <4>1, <4>2, <4>3, Zenon
    <3> QED BY <3>2, <3>3, <3>4
  <2>2. commands' = [[commands EXCEPT !.open = open, !.work = work, !.failures = failures]
                       EXCEPT !.frame = frame]
    BY <1>1, Zenon
  <2> HIDE DEF open, work, failures, frame
  <2> QED BY <2>0, <2>1, <2>2, ZenonT(60) DEF Commands
<1>8. probe'.last <= commands'.next /\ commands.next <= commands'.next
  <2>1. commands'.next = commands.next /\ commands.next \in Nat /\ probe'.last <= commands.next
    BY <1>3, <1>6, <1>7, Zenon
  <2> QED BY <2>1
<1> QED BY <1>2, <1>6, <1>7, <1>8, UnpublishedStep

LEMMA ProbeShutdown ==
  ASSUME BudgetInv, Budget!Shutdown
  PROVE  BudgetInv'
<1>0. /\ BudgetTypes /\ ProbeIsSound(probe) /\ probe.last <= commands.next
      /\ ResultHolds(probe, passed) /\ commands.next \in Nat /\ passed \in Nat
      /\ passed < commands.next /\ published \in Results
  BY DEF BudgetInv, BudgetTypes, Commands
<1>1. commands' = [commands EXCEPT !.returned = TRUE]
  BY DEF Budget!Shutdown
<1>2. PICK idle \in BOOLEAN, completed \in {passed, commands.next - 1, Budget!Removed},
           outcome \in Budget!Outcomes :
        /\ Budget!Read(completed, commands.next - 1)
        /\ IF probe.finished THEN probe' = Budget!Destroyed(probe) /\ UNCHANGED published
           ELSE /\ probe' = Budget!Destroyed(Budget!Finished(probe, idle, completed, outcome))
                /\ published' = Budget!Report(probe, idle, completed, outcome)
  BY DEF Budget!Shutdown
<1>3. /\ commands' \in Commands
      /\ commands'.next = commands.next
  <2>1. commands \in Commands
    BY <1>0 DEF BudgetTypes
  <2> QED BY <1>1, <2>1 DEF Commands
<1>4. /\ completed \in Int /\ passed' \in Nat /\ passed <= passed' /\ passed' < commands.next
      /\ completed # Budget!Removed => passed' = completed
  <2>1. completed \in Int
    BY <1>0, BudgetConstants
  <2>2. completed # Budget!Removed => completed \in passed .. commands.next - 1 /\ passed' = completed
    BY <1>2 DEF Budget!Read
  <2>3. completed = Budget!Removed => passed' = passed
    BY <1>2 DEF Budget!Read
  <2> QED BY <1>0, <2>1, <2>2, <2>3
<1>5. CASE probe.finished
  <2>1. probe' = Budget!Destroyed(probe) /\ published' = published
    BY <1>2, <1>5
  <2>2. /\ ProbeIsSound(probe') /\ probe'.last = probe.last
        /\ probe'.submissions = probe.submissions /\ probe'.groups = probe.groups
        /\ probe'.finished = probe.finished /\ probe'.proven = probe.proven
        /\ probe'.queries = "released" => probe.proven \/ probe.submissions = <<>>
    BY <1>0, <2>1, DestroyedIsSound
  <2>3. ResultHolds(probe', passed')
    <3>1. probe'.proven => Budget!AllEnded(probe') /\ probe'.last <= passed'
      <4>1. probe.proven => Budget!AllEnded(probe) /\ probe.last <= passed
        BY <1>0 DEF ResultHolds
      <4>2. probe.last \in Nat
        BY <1>0, ProbeFields
      <4> QED BY <1>0, <1>4, <2>2, <4>1, <4>2 DEF Budget!AllEnded
    <3> QED BY <1>5, <2>2, <3>1 DEF ResultHolds
  <2> QED BY <1>0, <1>3, <1>4, <2>1, <2>2, <2>3 DEF BudgetInv, BudgetTypes
<1>6. CASE ~probe.finished
  <2> DEFINE q == Budget!Finished(probe, idle, completed, outcome)
  <2>1. probe' = Budget!Destroyed(q) /\ published' = Budget!Report(probe, idle, completed, outcome)
    BY <1>2, <1>6
  <2>2. probe.queries = "held"
    BY <1>0, <1>6 DEF ResultHolds
  <2>3. /\ ProbeIsSound(q) /\ q.last = probe.last /\ q.finished = TRUE
        /\ q.proven => /\ Budget!AllEnded(q)
                       /\ completed # Budget!Removed /\ completed >= probe.last
    <3>1. ProbeIsSound(probe) /\ completed \in Int
      BY <1>0, <1>4
    <3>2. /\ ProbeIsSound(q) /\ q.last = probe.last /\ q.submissions = probe.submissions
          /\ q.finished = TRUE /\ q.queries \in {"held", "retained"}
          /\ q.proven => /\ Budget!AllEnded(q)
                         /\ completed # Budget!Removed /\ completed >= probe.last
      BY <2>2, <3>1, FinishedIsSound, Zenon
    <3> HIDE DEF q
    <3> QED BY <3>2, Zenon
  <2> HIDE DEF q
  <2>4. /\ ProbeIsSound(probe') /\ probe'.last = q.last
        /\ probe'.submissions = q.submissions /\ probe'.groups = q.groups
        /\ probe'.finished = q.finished /\ probe'.proven = q.proven
        /\ probe'.queries = "released" => q.proven \/ q.submissions = <<>>
    BY <2>1, <2>3, DestroyedIsSound
  <2>5. ResultHolds(probe', passed')
    <3>1. probe'.proven => Budget!AllEnded(probe') /\ probe'.last <= passed'
      <4>1. probe.last \in Nat
        BY <1>0, ProbeFields
      <4> QED BY <1>4, <2>3, <2>4, <4>1 DEF Budget!AllEnded
    <3> QED BY <2>3, <2>4, <3>1 DEF ResultHolds
  <2>6. published' \in Results
    BY <1>0, <2>1, ReportShape
  <2> QED BY <1>0, <1>3, <1>4, <2>3, <2>4, <2>5, <2>6 DEF BudgetInv, BudgetTypes
<1> QED BY <1>5, <1>6

LEMMA BudgetInvariant == AllSpec => []BudgetInv
<1>1. BudgetInv /\ [AllNext]_allVars => BudgetInv'
  <2> SUFFICES ASSUME BudgetInv, [AllNext]_allVars PROVE BudgetInv'
    OBVIOUS
  <2>1. Budget!Next \/ UNCHANGED budgetVars
    BY ComponentsStep
  <2>2. CASE Budget!Next
    BY <2>2, ProbeBegin, ProbeOperation, ProbeLeaf, ProbeEndSubmission, ProbeLosesSubmission,
       ProbeSwap, ProbeSwapFails, ProbeShutdown DEF Budget!Next
  <2>3. CASE UNCHANGED budgetVars
    <3>1. UNCHANGED <<probe, commands, passed, executed, published>>
      BY <2>3 DEF budgetVars
    <3> QED BY <3>1 DEF BudgetInv, BudgetTypes
  <2> QED BY <2>1, <2>2, <2>3
<1> QED BY <1>1, ComponentsInit, BudgetInit, PTL DEF AllSpec

(***************************************************************************)
(* What the capture holds.  p, c and done stand for the probe, the command *)
(* processor and the history of submissions at a place inside a step.      *)
(***************************************************************************)
Execution == [number : Nat, frame : Nat, operations : Nat, scopes : Nat, closes : BOOLEAN,
              dumps : Nat]

InWindow(p, f) == p.first # 0 /\ p.first <= f /\ f < p.first + p.count
IsSampled(p, f) == (f - p.first) % p.period = 0

(* The boundary was observed for this frame or for an earlier one; a frame  *)
(* that is closed is past, with nothing open.                               *)
Clock(p, c, done) ==
  /\ p.observed >= -1 /\ p.observed <= c.frame /\ c.frame >= 1 /\ p.count >= 1
  /\ p.first # 0 => p.first <= p.observed
  /\ p.first = 0 => done = <<>> /\ p.submissions = <<>> /\ p.groups = <<>>
  /\ p.observed = -1 => p.first = 0 /\ ~c.open /\ p.closes = 0
  /\ c.open => c.work.number = c.next /\ c.work.frame <= p.observed
  /\ p.closes \in {0, 1}
  /\ p.closes = 1 => ~c.open /\ p.observed < c.frame
  /\ c.dumps = p.previous + c.frame_dumps
  /\ ~p.scope /\ p.group = 0
  /\ p.truncated => p.group_overflow
  /\ p.selected <=> InWindow(p, p.observed)
  /\ p.grouped <=> p.selected /\ p.period # 0 /\ IsSampled(p, p.observed)

(* Submissions and records are in order, and before the one to come.        *)
Ordered(p, c, done) ==
  /\ Budget!InOrder(done)
  /\ \A k \in DOMAIN done : done[k].number < c.next /\ done[k].frame <= p.observed
  /\ Budget!InOrder(p.submissions)
  /\ \A i \in DOMAIN p.submissions : i # p.current => p.submissions[i].number < c.next

(* The record that is being made is of the open submission.                 *)
CurrentIsOpen(p, c) ==
  p.current # 0 =>
    /\ c.open /\ p.current = Len(p.submissions)
    /\ p.submissions[p.current].number = c.next
    /\ p.submissions[p.current].frame = c.work.frame
    /\ p.submissions[p.current].operations = c.work.operations
    /\ p.submissions[p.current].scopes = c.work.scopes

(* The other records are of submissions of the window, ...                  *)
RecordsAreDone(p, done) ==
  \A i \in DOMAIN p.submissions :
    /\ InWindow(p, p.submissions[i].frame)
    /\ i # p.current =>
         \E k \in DOMAIN done : Budget!WorkOf(done[k]) = Budget!WorkOf(p.submissions[i])

(* ... and of all of them, while there is room.                             *)
DoneIsRecorded(p, c, done) ==
  ~p.submission_overflow =>
    /\ c.open /\ InWindow(p, c.work.frame) => p.current # 0
    /\ \A k \in DOMAIN done : InWindow(p, done[k].frame) =>
         \E i \in DOMAIN p.submissions :
           i # p.current /\ Budget!WorkOf(p.submissions[i]) = Budget!WorkOf(done[k])

(* While no boundary was out of line, each frame of the window so far is    *)
(* closed once, by its last submission.                                     *)
Closes(done, f, k) ==
  /\ done[k].frame = f
  /\ \A j \in DOMAIN done : done[j].frame = f => j <= k /\ (done[j].closes <=> j = k)
FramesAreClosed(p, c, done) ==
  ~p.alignment_error /\ p.first # 0 =>
    /\ c.open => c.work.frame = p.observed \/ c.work.frame >= p.first + p.count
    /\ \A f \in p.first .. p.first + p.count - 1 :
         f < p.observed \/ (f = p.observed /\ p.closes = 1) =>
           \E k \in DOMAIN done : Closes(done, f, k)
    /\ p.closes = 0 =>
         \A k \in DOMAIN done : done[k].frame = p.observed /\ p.selected => ~done[k].closes

(* While no group was left out either, the groups of a sampled record are   *)
(* as many as its leaf scopes, each with the one operation of its leaf.     *)
GroupsWith(p, number) == {g \in DOMAIN p.groups : p.groups[g].number = number}
GroupsAreScopes(p) ==
  ~p.alignment_error /\ ~p.group_overflow /\ p.period # 0 =>
    /\ \A g, h \in DOMAIN p.groups : g < h => p.groups[g].number <= p.groups[h].number
    /\ \A g \in DOMAIN p.groups :
         /\ p.groups[g].operations = 1
         /\ \E i \in DOMAIN p.submissions : /\ p.submissions[i].number = p.groups[g].number
                                            /\ p.submissions[i].frame = p.groups[g].frame
                                            /\ IsSampled(p, p.submissions[i].frame)
    /\ \A i \in DOMAIN p.submissions :
         IsSampled(p, p.submissions[i].frame) =>
           Cardinality(GroupsWith(p, p.submissions[i].number)) = p.submissions[i].scopes

Tracks(p, c, done) ==
  /\ done \in Seq(Execution)
  /\ Clock(p, c, done) /\ Ordered(p, c, done) /\ CurrentIsOpen(p, c)
  /\ RecordsAreDone(p, done) /\ DoneIsRecorded(p, c, done)
  /\ FramesAreClosed(p, c, done) /\ GroupsAreScopes(p)

(* The two results, of a probe, a history and what the queue has reached.    *)
MeasuredBy(p, done) == {k \in DOMAIN done : done[k].frame \in p.first .. p.first + p.count - 1}
Whole(p, done, reached) ==
  LET measured == MeasuredBy(p, done)
  IN /\ Budget!InOrder(p.submissions) /\ Budget!InOrder(done)
     /\ {Budget!WorkOf(p.submissions[i]) : i \in DOMAIN p.submissions}
          = {Budget!WorkOf(done[k]) : k \in measured}
     /\ \A f \in p.first .. p.first + p.count - 1 :
          \E k \in measured :
            /\ done[k].frame = f
            /\ \A j \in measured : done[j].frame = f => j <= k /\ (done[j].closes <=> j = k)
     /\ \A k \in measured : done[k].number <= reached
Attributed(p, done) ==
  LET sampled == {k \in MeasuredBy(p, done) : IsSampled(p, done[k].frame)}
  IN /\ \A g, h \in DOMAIN p.groups : g < h => p.groups[g].number <= p.groups[h].number
     /\ \A g \in DOMAIN p.groups :
          /\ p.groups[g].operations = 1
          /\ \E k \in sampled : /\ done[k].number = p.groups[g].number
                                /\ done[k].frame = p.groups[g].frame
     /\ \A k \in sampled : Cardinality(GroupsWith(p, done[k].number)) = done[k].scopes

CaptureInv ==
  /\ BudgetInv
  /\ executed \in Seq(Execution)
  /\ ~probe.finished /\ ~commands.lost => Tracks(probe, commands, executed)
  /\ ~probe.finished => ~published.valid /\ ~published.complete
  /\ published.valid => Whole(probe, executed, passed)
  /\ published.complete => Attributed(probe, executed)

(* The members after each of the probe's steps.                             *)
LEMMA ObservedFields ==
  ASSUME NEW p, ProbeIsSound(p), NEW frame \in Nat, NEW due \in BOOLEAN, frame # p.observed
  PROVE  LET q == Budget!ObserveFrame(p, frame, due)
         IN /\ q.count = p.count /\ q.period = p.period /\ q.previous = p.previous
            /\ q.submissions = p.submissions /\ q.groups = p.groups /\ q.current = p.current
            /\ q.group = p.group /\ q.scope = p.scope /\ q.finished = p.finished
            /\ q.submission_overflow = p.submission_overflow
            /\ q.group_overflow = p.group_overflow
            /\ q.observed = frame /\ q.closes = 0 /\ ~q.truncated
            /\ q.first = IF p.first = 0 /\ due THEN frame ELSE p.first
            /\ q.selected <=> ~p.finished /\ InWindow(q, frame)
            /\ q.grouped <=> q.selected /\ p.period # 0 /\ IsSampled(q, frame)
            /\ ~q.alignment_error =>
                 /\ ~p.alignment_error
                 /\ q.first # 0 /\ p.observed # -1 /\ p.observed < q.first + p.count =>
                      frame = p.observed + 1 /\ p.closes = 1 /\ p.current = 0
<1> DEFINE first == IF p.first = 0 /\ due THEN frame ELSE p.first
           checked == first # 0 /\ p.observed # -1 /\ p.observed < first + p.count
           selected == ~p.finished /\ first # 0 /\ frame \in first .. first + p.count - 1
           error == p.alignment_error \/ (checked /\ Budget!Misaligned(p, frame))
           grouped == selected /\ p.period # 0 /\ (frame - first) % p.period = 0
           q == Budget!ObserveFrame(p, frame, due)
<1>1. /\ p \in Probes /\ p.first \in Nat /\ p.count \in Nat /\ p.observed \in Int
  BY DEF ProbeIsSound, Probes
<1>2. q = [p EXCEPT !.first = first, !.observed = frame, !.closes = 0,
             !.alignment_error = error, !.selected = selected, !.grouped = grouped,
             !.groups_this_frame = 0, !.truncated = FALSE]
  BY DEF Budget!ObserveFrame, Budget!Never
<1>3. first \in Nat
  BY <1>1
<1> HIDE DEF first, error, selected, grouped, q
<1>4. /\ q.count = p.count /\ q.period = p.period /\ q.previous = p.previous
      /\ q.submissions = p.submissions /\ q.groups = p.groups /\ q.current = p.current
      /\ q.group = p.group /\ q.scope = p.scope /\ q.finished = p.finished
      /\ q.submission_overflow = p.submission_overflow
      /\ q.group_overflow = p.group_overflow
      /\ q.observed = frame /\ q.closes = 0 /\ q.truncated = FALSE
      /\ q.first = first /\ q.selected = selected /\ q.grouped = grouped
      /\ q.alignment_error = error
  BY <1>1, <1>2, ZenonT(60) DEF Probes
<1>5. selected <=> ~p.finished /\ InWindow(q, frame)
  BY <1>1, <1>3, <1>4 DEF selected, InWindow
<1>6. grouped <=> selected /\ p.period # 0 /\ IsSampled(q, frame)
  BY <1>4 DEF grouped, IsSampled
<1>7. ~error => /\ ~p.alignment_error
                /\ first # 0 /\ p.observed # -1 /\ p.observed < first + p.count =>
                     frame = p.observed + 1 /\ p.closes = 1 /\ p.current = 0
  BY DEF error, Budget!Misaligned, Budget!NoSlot
<1>8. ~q.truncated
  BY <1>4
<1>9. q.first = IF p.first = 0 /\ due THEN frame ELSE p.first
  BY <1>4 DEF first
<1> QED BY <1>4, <1>5, <1>6, <1>7, <1>8, <1>9 DEF q

LEMMA BegunFields ==
  ASSUME NEW p, ProbeIsSound(p), NEW frame \in Nat, NEW number \in Nat
  PROVE  LET q == Budget!BeginProbe(p, frame, number)
             record == [frame |-> frame, number |-> number, closes |-> FALSE, ended |-> FALSE,
                        operations |-> 0, scopes |-> 0, dumps |-> 0]
         IN /\ q.count = p.count /\ q.period = p.period /\ q.previous = p.previous
            /\ q.first = p.first /\ q.observed = p.observed /\ q.closes = p.closes
            /\ q.selected = p.selected /\ q.grouped = p.grouped /\ q.truncated = p.truncated
            /\ q.groups = p.groups /\ q.group = 0 /\ q.scope = p.scope
            /\ q.finished = p.finished /\ q.alignment_error = p.alignment_error
            /\ q.group_overflow = p.group_overflow
            /\ \/ /\ q.current = 0 /\ q.submissions = p.submissions
                  /\ p.selected => q.submission_overflow
                  /\ q.submission_overflow \/ q.submission_overflow = p.submission_overflow
               \/ /\ p.selected /\ q.submission_overflow = p.submission_overflow
                  /\ q.submissions = Append(p.submissions, record)
                  /\ q.current = Len(p.submissions) + 1
<1> DEFINE idle == [p EXCEPT !.current = 0, !.group = 0]
           record == [frame |-> frame, number |-> number, closes |-> FALSE, ended |-> FALSE,
                      operations |-> 0, scopes |-> 0, dumps |-> 0]
           longer == Append(p.submissions, record)
           slot == Len(p.submissions) + 1
           q == Budget!BeginProbe(p, frame, number)
<1>1. p \in Probes
  BY DEF ProbeIsSound
<1>2. q = IF ~p.selected THEN idle
          ELSE IF Len(p.submissions) = SubmissionCapacity
          THEN [idle EXCEPT !.submission_overflow = TRUE]
          ELSE [idle EXCEPT !.submissions = Append(@, record), !.current = slot, !.last = number]
  BY DEF Budget!BeginProbe, Budget!NoSlot
<1> HIDE DEF q, record, longer, slot
<1>3. CASE ~p.selected
  <2>1. q = [p EXCEPT !.current = 0, !.group = 0]
    BY <1>2, <1>3
  <2>2. /\ q.count = p.count /\ q.period = p.period /\ q.previous = p.previous
        /\ q.first = p.first /\ q.observed = p.observed /\ q.closes = p.closes
        /\ q.selected = p.selected /\ q.grouped = p.grouped /\ q.truncated = p.truncated
        /\ q.groups = p.groups /\ q.group = 0 /\ q.scope = p.scope
        /\ q.finished = p.finished /\ q.alignment_error = p.alignment_error
        /\ q.group_overflow = p.group_overflow /\ q.current = 0
        /\ q.submissions = p.submissions /\ q.submission_overflow = p.submission_overflow
    BY <1>1, <2>1, ZenonT(60) DEF Probes
  <2> QED BY <1>3, <2>2 DEF q, record
<1>4. CASE p.selected /\ Len(p.submissions) = SubmissionCapacity
  <2>1. q = [idle EXCEPT !.submission_overflow = TRUE]
    BY <1>2, <1>4
  <2>2. /\ q.count = p.count /\ q.period = p.period /\ q.previous = p.previous
        /\ q.first = p.first /\ q.observed = p.observed /\ q.closes = p.closes
        /\ q.selected = p.selected /\ q.grouped = p.grouped /\ q.truncated = p.truncated
        /\ q.groups = p.groups /\ q.group = 0 /\ q.scope = p.scope
        /\ q.finished = p.finished /\ q.alignment_error = p.alignment_error
        /\ q.group_overflow = p.group_overflow /\ q.current = 0
        /\ q.submissions = p.submissions /\ q.submission_overflow = TRUE
    BY <1>1, <2>1, ZenonT(60) DEF Probes
  <2> QED BY <1>4, <2>2 DEF q, record
<1>5. CASE p.selected /\ Len(p.submissions) # SubmissionCapacity
  <2>1. idle.submissions = p.submissions
    BY <1>1, ZenonT(60) DEF Probes
  <2>2. q = [idle EXCEPT !.submissions = longer, !.current = slot, !.last = number]
    BY <1>2, <1>5, <2>1 DEF longer
  <2>3. /\ q.count = p.count /\ q.period = p.period /\ q.previous = p.previous
        /\ q.first = p.first /\ q.observed = p.observed /\ q.closes = p.closes
        /\ q.selected = p.selected /\ q.grouped = p.grouped /\ q.truncated = p.truncated
        /\ q.groups = p.groups /\ q.group = 0 /\ q.scope = p.scope
        /\ q.finished = p.finished /\ q.alignment_error = p.alignment_error
        /\ q.group_overflow = p.group_overflow /\ q.current = slot
        /\ q.submissions = longer /\ q.submission_overflow = p.submission_overflow
    BY <1>1, <2>2, ZenonT(60) DEF Probes
  <2> QED BY <1>5, <2>3 DEF q, record, longer, slot
<1> QED BY <1>3, <1>4, <1>5

(* What no count changes; and what a count changes of the record that is     *)
(* being made.                                                              *)
Kept(p, q) ==
  /\ q.count = p.count /\ q.period = p.period /\ q.first = p.first /\ q.observed = p.observed
  /\ q.closes = p.closes /\ q.previous = p.previous /\ q.selected = p.selected
  /\ q.grouped = p.grouped /\ q.current = p.current /\ q.finished = p.finished
  /\ q.submission_overflow = p.submission_overflow /\ q.alignment_error = p.alignment_error

Recounted(p, q, operations, scopes) ==
  /\ Len(q.submissions) = Len(p.submissions)
  /\ \A i \in 1 .. Len(p.submissions) :
       LET s == p.submissions[i]
           t == q.submissions[i]
           here == i = p.current
       IN /\ t.number = s.number /\ t.frame = s.frame
          /\ t.closes = s.closes /\ t.dumps = s.dumps
          /\ t.operations = IF here THEN s.operations + operations ELSE s.operations
          /\ t.scopes = IF here THEN s.scopes + scopes ELSE s.scopes

LEMMA CountedFields ==
  ASSUME NEW p, ProbeIsSound(p), p.current # 0
  PROVE  LET q == Budget!CountOperation(p)
         IN /\ Kept(p, q) /\ Recounted(p, q, 1, 0) /\ q.group = p.group /\ q.scope = p.scope
            /\ q.truncated = p.truncated /\ q.group_overflow = p.group_overflow
            /\ p.group = 0 => q.groups = p.groups
            /\ p.group # 0 =>
                 LET g == p.groups[p.group]
                 IN q.groups = [p.groups EXCEPT ![p.group] =
                                  [g EXCEPT !.operations = g.operations + 1]]
<1> DEFINE q == Budget!CountOperation(p)
           r == p.submissions[p.current]
           s == [r EXCEPT !.operations = @ + 1]
           list == [p.submissions EXCEPT ![p.current] = s]
           counted == [p EXCEPT !.submissions = list]
           h == p.groups[p.group]
           g == [h EXCEPT !.operations = @ + 1]
           groups == [p.groups EXCEPT ![p.group] = g]
<1>1. /\ p \in Probes /\ p.submissions \in Seq(Submission) /\ r \in Submission
      /\ p.current \in 1 .. Len(p.submissions) /\ Len(p.submissions) \in Nat
  BY ProbeFields
<1>2. /\ s \in Submission /\ s.number = r.number /\ s.frame = r.frame /\ s.closes = r.closes
      /\ s.dumps = r.dumps /\ s.operations = r.operations + 1 /\ s.scopes = r.scopes
      /\ r.scopes \in Nat
  <2> HIDE DEF r
  <2>0. r \in Submission
    BY <1>1
  <2>1. r.operations + 1 \in Nat /\ r.scopes \in Nat
    BY <2>0 DEF Submission
  <2>2. s \in Submission
    BY <1>1, <2>1, ZenonT(60) DEF Submission
  <2>3. /\ s.number = r.number /\ s.frame = r.frame /\ s.closes = r.closes
        /\ s.dumps = r.dumps /\ s.operations = r.operations + 1 /\ s.scopes = r.scopes
    BY <1>1, ZenonT(60) DEF Submission
  <2> QED BY <2>1, <2>2, <2>3
<1>3. q = IF p.group = 0 THEN counted ELSE [counted EXCEPT !.groups[p.group].operations = @ + 1]
  BY DEF Budget!CountOperation, Budget!NoSlot
<1> HIDE DEF s
<1>4. /\ list \in Seq(Submission) /\ Len(list) = Len(p.submissions)
      /\ \A j \in 1 .. Len(p.submissions) :
           list[j] = IF j = p.current THEN s ELSE p.submissions[j]
  BY <1>1, <1>2, SubmissionReplaced
<1> HIDE DEF list, q
<1>5. /\ Kept(p, counted) /\ counted.group = p.group /\ counted.groups = p.groups
      /\ counted.scope = p.scope /\ counted.submissions = list
      /\ counted.truncated = p.truncated /\ counted.group_overflow = p.group_overflow
  <2>1. counted.submissions = list
    BY <1>1, ZenonT(60) DEF Probes
  <2>2. Kept(p, counted)
    BY <1>1, ZenonT(60) DEF Probes, Kept
  <2> QED BY <1>1, <2>1, <2>2, ZenonT(60) DEF Probes
<1>6. ASSUME NEW t, t.submissions = list
      PROVE  Recounted(p, t, 1, 0)
  <2> SUFFICES ASSUME NEW i \in 1 .. Len(p.submissions)
               PROVE  LET old == p.submissions[i]
                          new == list[i]
                          here == i = p.current
                      IN /\ new.number = old.number /\ new.frame = old.frame
                         /\ new.closes = old.closes /\ new.dumps = old.dumps
                         /\ new.operations = IF here THEN old.operations + 1 ELSE old.operations
                         /\ new.scopes = IF here THEN old.scopes + 0 ELSE old.scopes
    BY <1>4, <1>6 DEF Recounted
  <2>1. CASE i = p.current
    BY <1>2, <1>4, <2>1
  <2>2. CASE i # p.current
    BY <1>4, <2>2
  <2> QED BY <2>1, <2>2
<1>7. CASE p.group = 0
  <2>1. q = counted
    BY <1>3, <1>7
  <2>2. Recounted(p, q, 1, 0)
    BY <1>5, <1>6, <2>1
  <2>3. /\ Kept(p, q) /\ q.group = p.group /\ q.scope = p.scope /\ q.groups = p.groups
        /\ q.truncated = p.truncated /\ q.group_overflow = p.group_overflow
    <3> HIDE DEF counted
    <3> QED BY <1>5, <2>1
  <2> QED BY <1>7, <2>2, <2>3 DEF q
<1>8. CASE p.group # 0
  <2>1. q = [counted EXCEPT !.groups = groups]
    BY <1>3, <1>5, <1>8
  <2>2. counted \in Probes
    BY <1>1, <1>4, ZenonT(60) DEF Probes
  <2> HIDE DEF counted, groups
  <2>4. /\ Kept(counted, q) /\ q.group = counted.group /\ q.groups = groups
        /\ q.scope = counted.scope /\ q.submissions = counted.submissions
        /\ q.truncated = counted.truncated /\ q.group_overflow = counted.group_overflow
    <3>1. q.groups = groups
      BY <2>1, <2>2, ZenonT(60) DEF Probes
    <3>2. Kept(counted, q)
      BY <2>1, <2>2, ZenonT(60) DEF Probes, Kept
    <3> QED BY <2>1, <2>2, <3>1, <3>2, ZenonT(60) DEF Probes
  <2>5. Kept(p, q)
    BY <1>5, <2>4 DEF Kept
  <2>6. Recounted(p, q, 1, 0)
    BY <1>5, <1>6, <2>4
  <2> QED BY <1>5, <1>8, <2>4, <2>5, <2>6 DEF q, groups
<1> QED BY <1>7, <1>8

LEMMA EnteredFields ==
  ASSUME NEW p, ProbeIsSound(p), p.current # 0, ~p.scope, p.group = 0
  PROVE  LET q == Budget!EnterScope(p)
             r == p.submissions[p.current]
             begun == [frame |-> r.frame, number |-> r.number, operations |-> 0, ended |-> FALSE]
         IN /\ Kept(p, q) /\ Recounted(p, q, 0, 1) /\ q.scope = TRUE
            /\ \/ /\ ~p.grouped \/ p.truncated
                  /\ q.groups = p.groups /\ q.group = 0 /\ q.truncated = p.truncated
                  /\ q.group_overflow = p.group_overflow
               \/ /\ p.grouped
                  /\ q.groups = p.groups /\ q.group = 0 /\ q.group_overflow = TRUE
               \/ /\ p.grouped /\ ~p.truncated
                  /\ q.groups = Append(p.groups, begun) /\ q.group = Len(p.groups) + 1
                  /\ q.truncated = p.truncated /\ q.group_overflow = p.group_overflow
<1> DEFINE q == Budget!EnterScope(p)
           r == p.submissions[p.current]
           s == [r EXCEPT !.scopes = @ + 1]
           list == [p.submissions EXCEPT ![p.current] = s]
           entered == [p EXCEPT !.scope = TRUE, !.submissions = list]
           begun == [frame |-> r.frame, number |-> r.number, operations |-> 0, ended |-> FALSE]
           longer == Append(p.groups, begun)
           slot == Len(p.groups) + 1
           many == p.groups_this_frame + 1
<1>1. /\ p \in Probes /\ p.submissions \in Seq(Submission) /\ r \in Submission
      /\ p.current \in 1 .. Len(p.submissions) /\ Len(p.submissions) \in Nat
      /\ Len(p.groups) \in Nat /\ p.groups_this_frame \in Nat
  BY ProbeFields
<1>2. /\ s \in Submission /\ s.number = r.number /\ s.frame = r.frame /\ s.closes = r.closes
      /\ s.dumps = r.dumps /\ s.operations = r.operations /\ s.scopes = r.scopes + 1
      /\ r.operations \in Nat
  <2> HIDE DEF r
  <2>0. r \in Submission
    BY <1>1
  <2>1. r.operations \in Nat /\ r.scopes + 1 \in Nat
    BY <2>0 DEF Submission
  <2>2. s \in Submission
    BY <1>1, <2>1, ZenonT(60) DEF Submission
  <2>3. /\ s.number = r.number /\ s.frame = r.frame /\ s.closes = r.closes
        /\ s.dumps = r.dumps /\ s.operations = r.operations /\ s.scopes = r.scopes + 1
    BY <1>1, ZenonT(60) DEF Submission
  <2> QED BY <2>1, <2>2, <2>3
<1>3. q = IF ~p.grouped \/ p.truncated THEN entered
          ELSE IF p.groups_this_frame = GroupsPerFrame
          THEN [entered EXCEPT !.group_overflow = TRUE, !.truncated = TRUE]
          ELSE [entered EXCEPT !.groups = Append(@, begun), !.group = slot,
                               !.groups_this_frame = @ + 1]
  <2>1. [p EXCEPT !.scope = TRUE, !.submissions[p.current].scopes = @ + 1] = entered
    BY <1>1, ZenonT(60) DEF Probes
  <2> QED BY <2>1 DEF Budget!EnterScope
<1> HIDE DEF s, begun
<1>4. /\ list \in Seq(Submission) /\ Len(list) = Len(p.submissions)
      /\ \A j \in 1 .. Len(p.submissions) :
           list[j] = IF j = p.current THEN s ELSE p.submissions[j]
  BY <1>1, <1>2, SubmissionReplaced
<1> HIDE DEF list, q, slot
<1>5. entered \in Probes
  BY <1>1, <1>4, ZenonT(60) DEF Probes
<1>6. /\ Kept(p, entered) /\ entered.group = 0 /\ entered.groups = p.groups
      /\ entered.scope = TRUE /\ entered.submissions = list
      /\ entered.truncated = p.truncated /\ entered.group_overflow = p.group_overflow
      /\ entered.groups_this_frame = p.groups_this_frame
  <2>1. entered.submissions = list
    BY <1>1, ZenonT(60) DEF Probes
  <2>2. Kept(p, entered)
    BY <1>1, ZenonT(60) DEF Probes, Kept
  <2> QED BY <1>1, <2>1, <2>2, ZenonT(60) DEF Probes
<1> HIDE DEF entered
<1>7. ASSUME NEW t, t.submissions = list
      PROVE  Recounted(p, t, 0, 1)
  <2> SUFFICES ASSUME NEW i \in 1 .. Len(p.submissions)
               PROVE  LET old == p.submissions[i]
                          new == list[i]
                          here == i = p.current
                      IN /\ new.number = old.number /\ new.frame = old.frame
                         /\ new.closes = old.closes /\ new.dumps = old.dumps
                         /\ new.operations = IF here THEN old.operations + 0 ELSE old.operations
                         /\ new.scopes = IF here THEN old.scopes + 1 ELSE old.scopes
    BY <1>4, <1>7 DEF Recounted
  <2>1. CASE i = p.current
    BY <1>2, <1>4, <2>1
  <2>2. CASE i # p.current
    BY <1>4, <2>2
  <2> QED BY <2>1, <2>2
<1>8. CASE q = entered /\ (~p.grouped \/ p.truncated)
  <2>1. Recounted(p, q, 0, 1)
    BY <1>6, <1>7, <1>8
  <2> QED BY <1>6, <1>8, <2>1 DEF q
<1>9. CASE q = [entered EXCEPT !.group_overflow = TRUE, !.truncated = TRUE] /\ p.grouped
  <2>1. /\ Kept(entered, q) /\ q.group = entered.group /\ q.groups = entered.groups
        /\ q.scope = entered.scope /\ q.submissions = entered.submissions
        /\ q.group_overflow = TRUE
    BY <1>5, <1>9, ZenonT(60) DEF Probes, Kept
  <2>2. Kept(p, q) /\ Recounted(p, q, 0, 1)
    <3>1. Kept(p, q)
      BY <1>6, <2>1 DEF Kept
    <3> QED BY <1>6, <1>7, <2>1, <3>1
  <2> QED BY <1>6, <1>9, <2>1, <2>2 DEF q
<1>10. CASE /\ p.grouped /\ ~p.truncated
            /\ q = [entered EXCEPT !.groups = Append(@, begun), !.group = slot,
                                   !.groups_this_frame = @ + 1]
  <2>1. q = [entered EXCEPT !.groups = longer, !.group = slot, !.groups_this_frame = many]
    BY <1>6, <1>10
  <2> HIDE DEF longer, many
  <2>2. /\ Kept(entered, q) /\ q.group = slot /\ q.groups = longer
        /\ q.scope = entered.scope /\ q.submissions = entered.submissions
        /\ q.group_overflow = entered.group_overflow /\ q.truncated = entered.truncated
    BY <1>5, <2>1, ZenonT(60) DEF Probes, Kept
  <2>3. Kept(p, q) /\ Recounted(p, q, 0, 1)
    <3>1. Kept(p, q)
      BY <1>6, <2>2 DEF Kept
    <3> QED BY <1>6, <1>7, <2>2, <3>1
  <2> QED BY <1>6, <1>10, <2>2, <2>3 DEF q, longer, begun, slot
<1> QED BY <1>3, <1>8, <1>9, <1>10

LEMMA LeftFields ==
  ASSUME NEW p, ProbeIsSound(p)
  PROVE  LET q == Budget!LeaveScope(p)
         IN /\ Kept(p, q) /\ q.submissions = p.submissions /\ q.group = 0 /\ q.scope = FALSE
            /\ q.truncated = p.truncated /\ q.group_overflow = p.group_overflow
            /\ p.group = 0 => q.groups = p.groups
            /\ p.group # 0 =>
                 LET g == p.groups[p.group]
                 IN q.groups = [p.groups EXCEPT ![p.group] = [g EXCEPT !.ended = TRUE]]
<1> DEFINE error == p.scope_error \/ ~p.scope \/ p.current = 0
           told == [p EXCEPT !.scope_error = error]
           g == p.groups[p.group]
           list == [p.groups EXCEPT ![p.group] = [g EXCEPT !.ended = TRUE]]
           q == Budget!LeaveScope(p)
<1>1. p \in Probes
  BY DEF ProbeIsSound
<1>2. q = IF p.group = 0 THEN [p EXCEPT !.scope_error = error, !.scope = FALSE]
          ELSE [p EXCEPT !.scope_error = error, !.groups = list, !.group = 0, !.scope = FALSE]
  <2>1. told.group = p.group /\ told.groups = p.groups
    BY <1>1, ZenonT(60) DEF Probes
  <2>2. Budget!EndGroup(told)
          = IF p.group = 0 THEN told ELSE [told EXCEPT !.groups = list, !.group = 0]
    <3>1. CASE p.group = 0
      BY <2>1, <3>1 DEF Budget!EndGroup, Budget!NoSlot
    <3>2. CASE p.group # 0
      <4>1. Budget!EndGroup(told) = [told EXCEPT !.groups[told.group].ended = TRUE, !.group = 0]
        BY <2>1, <3>2 DEF Budget!EndGroup, Budget!NoSlot
      <4> HIDE DEF told
      <4> QED BY <2>1, <3>2, <4>1
    <3> QED BY <3>1, <3>2
  <2>3. q = [Budget!EndGroup(told) EXCEPT !.scope = FALSE]
    BY DEF Budget!LeaveScope, Budget!NoSlot
  <2> QED BY <2>2, <2>3
<1> HIDE DEF error, list, q
<1>3. CASE p.group = 0
  <2>1. q = [p EXCEPT !.scope_error = error, !.scope = FALSE]
    BY <1>2, <1>3
  <2>2. /\ Kept(p, q) /\ q.submissions = p.submissions /\ q.group = p.group /\ q.scope = FALSE
        /\ q.truncated = p.truncated /\ q.group_overflow = p.group_overflow
        /\ q.groups = p.groups
    BY <1>1, <2>1, ZenonT(60) DEF Probes, Kept
  <2> QED BY <1>3, <2>2 DEF q
<1>4. CASE p.group # 0
  <2>1. q = [p EXCEPT !.scope_error = error, !.groups = list, !.group = 0, !.scope = FALSE]
    BY <1>2, <1>4
  <2>2. /\ Kept(p, q) /\ q.submissions = p.submissions /\ q.group = 0 /\ q.scope = FALSE
        /\ q.truncated = p.truncated /\ q.group_overflow = p.group_overflow
        /\ q.groups = list
    BY <1>1, <2>1, ZenonT(60) DEF Probes, Kept
  <2> QED BY <1>4, <2>2 DEF q, list
<1> QED BY <1>3, <1>4

LEMMA LeafFields ==
  ASSUME NEW p, ProbeIsSound(p), p.current # 0, ~p.scope, p.group = 0
  PROVE  LET q == Budget!LeaveScope(Budget!CountOperation(Budget!EnterScope(p)))
             r == p.submissions[p.current]
             last == Len(p.groups) + 1
         IN /\ Kept(p, q) /\ Recounted(p, q, 1, 1) /\ q.scope = FALSE /\ q.group = 0
            /\ \/ /\ ~p.grouped \/ p.truncated
                  /\ q.groups = p.groups /\ q.truncated = p.truncated
                  /\ q.group_overflow = p.group_overflow
               \/ /\ p.grouped /\ q.groups = p.groups /\ q.group_overflow = TRUE
               \/ /\ p.grouped /\ ~p.truncated
                  /\ q.truncated = p.truncated /\ q.group_overflow = p.group_overflow
                  /\ Len(q.groups) = last
                  /\ \A h \in 1 .. Len(p.groups) : q.groups[h] = p.groups[h]
                  /\ q.groups[last].number = r.number /\ q.groups[last].frame = r.frame
                  /\ q.groups[last].operations = 1
<1> DEFINE e == Budget!EnterScope(p)
           n == Budget!CountOperation(e)
           q == Budget!LeaveScope(n)
           r == p.submissions[p.current]
           last == Len(p.groups) + 1
           begun == [frame |-> r.frame, number |-> r.number, operations |-> 0, ended |-> FALSE]
<1>1. /\ p \in Probes /\ p.submissions \in Seq(Submission) /\ r \in Submission
      /\ p.current \in 1 .. Len(p.submissions) /\ Len(p.submissions) \in Nat
      /\ Len(p.groups) \in Nat /\ p.groups \in Seq(Group)
  BY ProbeFields
<1>2. ProbeIsSound(e) /\ e.current = p.current
  BY EnteredIsSound
<1>3. /\ Kept(p, e) /\ Recounted(p, e, 0, 1) /\ e.scope = TRUE
      /\ \/ /\ ~p.grouped \/ p.truncated
            /\ e.groups = p.groups /\ e.group = 0 /\ e.truncated = p.truncated
            /\ e.group_overflow = p.group_overflow
         \/ /\ p.grouped
            /\ e.groups = p.groups /\ e.group = 0 /\ e.group_overflow = TRUE
         \/ /\ p.grouped /\ ~p.truncated
            /\ e.groups = Append(p.groups, begun) /\ e.group = last
            /\ e.truncated = p.truncated /\ e.group_overflow = p.group_overflow
  BY EnteredFields
<1> HIDE DEF e
<1>4. ProbeIsSound(n) /\ n.current = p.current
  BY <1>2, CountedIsSound
<1>5. /\ Kept(e, n) /\ Recounted(e, n, 1, 0) /\ n.group = e.group /\ n.scope = e.scope
      /\ n.truncated = e.truncated /\ n.group_overflow = e.group_overflow
      /\ e.group = 0 => n.groups = e.groups
      /\ e.group # 0 => LET g == e.groups[e.group]
                        IN n.groups = [e.groups EXCEPT ![e.group] =
                                         [g EXCEPT !.operations = g.operations + 1]]
  BY <1>2, CountedFields
<1> HIDE DEF n
<1>6. /\ Kept(n, q) /\ q.submissions = n.submissions /\ q.group = 0 /\ q.scope = FALSE
      /\ q.truncated = n.truncated /\ q.group_overflow = n.group_overflow
      /\ n.group = 0 => q.groups = n.groups
      /\ n.group # 0 => LET g == n.groups[n.group]
                        IN q.groups = [n.groups EXCEPT ![n.group] = [g EXCEPT !.ended = TRUE]]
  BY <1>4, LeftFields
<1> HIDE DEF q
<1>7. Kept(p, q)
  BY <1>3, <1>5, <1>6 DEF Kept
<1>8. Recounted(p, q, 1, 1)
  <2>1. Len(q.submissions) = Len(p.submissions)
    BY <1>3, <1>5, <1>6 DEF Recounted
  <2> SUFFICES ASSUME NEW i \in 1 .. Len(p.submissions)
               PROVE  LET old == p.submissions[i]
                          new == q.submissions[i]
                          here == i = p.current
                      IN /\ new.number = old.number /\ new.frame = old.frame
                         /\ new.closes = old.closes /\ new.dumps = old.dumps
                         /\ new.operations = IF here THEN old.operations + 1 ELSE old.operations
                         /\ new.scopes = IF here THEN old.scopes + 1 ELSE old.scopes
    BY <2>1 DEF Recounted
  <2> DEFINE old == p.submissions[i]
             mid == e.submissions[i]
             new == n.submissions[i]
             here == i = p.current
  <2>2. old.operations \in Nat /\ old.scopes \in Nat
    <3>1. old \in Submission
      BY <1>1
    <3> QED BY <3>1 DEF Submission
  <2>3. /\ mid.number = old.number /\ mid.frame = old.frame
        /\ mid.closes = old.closes /\ mid.dumps = old.dumps
        /\ mid.operations = IF here THEN old.operations + 0 ELSE old.operations
        /\ mid.scopes = IF here THEN old.scopes + 1 ELSE old.scopes
    BY <1>3 DEF Recounted
  <2>4. /\ new.number = mid.number /\ new.frame = mid.frame
        /\ new.closes = mid.closes /\ new.dumps = mid.dumps
        /\ new.operations = IF here THEN mid.operations + 1 ELSE mid.operations
        /\ new.scopes = IF here THEN mid.scopes + 0 ELSE mid.scopes
    <3>1. i \in 1 .. Len(e.submissions)
      BY <1>3 DEF Recounted
    <3> QED BY <1>2, <1>5, <3>1 DEF Recounted
  <2>5. q.submissions[i] = new
    BY <1>6
  <2> HIDE DEF old, mid, new
  <2>6. CASE here
    BY <2>2, <2>3, <2>4, <2>5, <2>6 DEF old
  <2>7. CASE ~here
    BY <2>2, <2>3, <2>4, <2>5, <2>7 DEF old
  <2> QED BY <2>6, <2>7
<1>9. CASE /\ ~p.grouped \/ p.truncated
           /\ e.groups = p.groups /\ e.group = 0 /\ e.truncated = p.truncated
           /\ e.group_overflow = p.group_overflow
  <2>1. /\ q.groups = p.groups /\ q.truncated = p.truncated /\ q.group_overflow = p.group_overflow
    BY <1>5, <1>6, <1>9
  <2> QED BY <1>6, <1>7, <1>8, <1>9, <2>1 DEF q, n, e
<1>10. CASE p.grouped /\ e.groups = p.groups /\ e.group = 0 /\ e.group_overflow = TRUE
  <2>1. q.groups = p.groups /\ q.group_overflow = TRUE
    BY <1>5, <1>6, <1>10
  <2> QED BY <1>6, <1>7, <1>8, <1>10, <2>1 DEF q, n, e
<1>11. CASE /\ p.grouped /\ ~p.truncated
            /\ e.groups = Append(p.groups, begun) /\ e.group = last
            /\ e.truncated = p.truncated /\ e.group_overflow = p.group_overflow
  <2>1. /\ begun \in Group /\ begun.frame = r.frame /\ begun.number = r.number
        /\ begun.operations = 0
    <3> HIDE DEF r
    <3>1. r.frame \in Nat /\ r.number \in Nat
      <4>1. r \in Submission
        BY <1>1
      <4> QED BY <4>1 DEF Submission
    <3> QED BY <3>1 DEF Group
  <2> HIDE DEF begun
  <2>2. /\ e.groups \in Seq(Group) /\ Len(e.groups) = last /\ last \in 1 .. last
        /\ e.groups[last] = begun
        /\ \A h \in 1 .. Len(p.groups) : e.groups[h] = p.groups[h]
    BY <1>1, <1>11, <2>1, AppendProperties
  <2> DEFINE g1 == [begun EXCEPT !.operations = 1]
             g2 == [g1 EXCEPT !.ended = TRUE]
  <2>3. g1 \in Group /\ g1.frame = r.frame /\ g1.number = r.number /\ g1.operations = 1
    BY <2>1, ZenonT(60) DEF Group
  <2>4. g2 \in Group /\ g2.frame = r.frame /\ g2.number = r.number /\ g2.operations = 1
    <3> HIDE DEF g1
    <3> QED BY <2>3, ZenonT(60) DEF Group
  <2>5. n.groups = [e.groups EXCEPT ![last] = g1]
    <3>1. e.group # 0
      BY <1>1, <1>11
    <3>2. begun.operations + 1 = 1
      BY <2>1
    <3>3. n.groups = [e.groups EXCEPT ![e.group] =
                        [e.groups[e.group] EXCEPT !.operations = e.groups[e.group].operations + 1]]
      BY <1>5, <3>1, Zenon
    <3>4. e.groups[e.group] = begun
      BY <1>11, <2>2
    <3>5. n.groups = [e.groups EXCEPT ![last] =
                        [begun EXCEPT !.operations = begun.operations + 1]]
      BY <1>11, <3>3, <3>4, Zenon
    <3> QED BY <3>2, <3>5, Zenon
  <2> HIDE DEF g1
  <2>6. /\ n.groups \in Seq(Group) /\ Len(n.groups) = last /\ n.groups[last] = g1
        /\ \A h \in 1 .. Len(p.groups) : n.groups[h] = p.groups[h]
    BY <1>1, <2>2, <2>3, <2>5
  <2>7. q.groups = [n.groups EXCEPT ![last] = g2]
    <3>1. n.group # 0 /\ n.group = last
      BY <1>1, <1>5, <1>11
    <3> QED BY <1>6, <2>6, <3>1
  <2> HIDE DEF g2
  <2>8. /\ Len(q.groups) = last /\ q.groups[last] = g2
        /\ \A h \in 1 .. Len(p.groups) : q.groups[h] = p.groups[h]
    BY <1>1, <2>4, <2>6, <2>7
  <2>9. q.truncated = p.truncated /\ q.group_overflow = p.group_overflow
    BY <1>5, <1>6, <1>11
  <2> QED BY <1>6, <1>7, <1>8, <1>11, <2>4, <2>8, <2>9 DEF q, n, e
<1> QED BY <1>3, <1>9, <1>10, <1>11

(* What the end of a submission changes: its record, and what counts a close. *)
EndedAs(p, q, closes, dumps) ==
  /\ q.count = p.count /\ q.period = p.period /\ q.first = p.first
  /\ q.observed = p.observed /\ q.selected = p.selected /\ q.grouped = p.grouped
  /\ q.truncated = p.truncated /\ q.finished = p.finished
  /\ q.submission_overflow = p.submission_overflow
  /\ q.group_overflow = p.group_overflow /\ q.groups = p.groups
  /\ q.current = 0 /\ q.group = 0 /\ ~q.scope
  /\ q.closes = IF closes THEN p.closes + 1 ELSE p.closes
  /\ q.previous = IF closes THEN dumps ELSE p.previous
  /\ ~q.alignment_error => ~p.alignment_error
  /\ Len(q.submissions) = Len(p.submissions)
  /\ \A i \in 1 .. Len(p.submissions) :
       LET s == p.submissions[i]
           t == q.submissions[i]
       IN /\ t.number = s.number /\ t.frame = s.frame
          /\ t.operations = s.operations /\ t.scopes = s.scopes
          /\ i # p.current => t.closes = s.closes /\ t.dumps = s.dumps
          /\ i = p.current => /\ t.closes = closes
                              /\ t.dumps = IF closes THEN dumps - p.previous ELSE 0

LEMMA EndedFields ==
  ASSUME NEW p, ProbeIsSound(p), ~p.scope, p.group = 0, NEW closes \in BOOLEAN,
         NEW dumps \in Nat
  PROVE  EndedAs(p, Budget!EndProbe(p, closes, dumps), closes, dumps)
<1> DEFINE q == Budget!EndProbe(p, closes, dumps)
           error == p.alignment_error \/ (p.selected /\ p.closes # 0)
           counted == IF closes
                      THEN [p EXCEPT !.closes = @ + 1, !.previous = dumps, !.alignment_error = error]
                      ELSE p
           told == [counted EXCEPT !.scope_error = @ \/ p.scope]
           r == p.submissions[p.current]
           d == IF closes THEN dumps - p.previous ELSE 0
           s == [r EXCEPT !.closes = closes, !.ended = TRUE, !.dumps = d]
           list == [p.submissions EXCEPT ![p.current] = s]
<1>1. /\ p \in Probes /\ p.submissions \in Seq(Submission) /\ Len(p.submissions) \in Nat
      /\ p.current \in 0 .. Len(p.submissions) /\ p.closes \in Nat /\ p.previous \in Nat
      /\ p.current # 0 => r \in Submission
      /\ p.scope = FALSE
  BY ProbeFields
<1>2. /\ counted \in Probes
      /\ counted.count = p.count /\ counted.period = p.period /\ counted.first = p.first
      /\ counted.observed = p.observed /\ counted.selected = p.selected
      /\ counted.grouped = p.grouped /\ counted.truncated = p.truncated
      /\ counted.finished = p.finished /\ counted.submission_overflow = p.submission_overflow
      /\ counted.group_overflow = p.group_overflow /\ counted.groups = p.groups
      /\ counted.current = p.current /\ counted.group = 0 /\ counted.scope = FALSE
      /\ counted.submissions = p.submissions
      /\ counted.closes = IF closes THEN p.closes + 1 ELSE p.closes
      /\ counted.previous = IF closes THEN dumps ELSE p.previous
      /\ ~counted.alignment_error => ~p.alignment_error
  <2>1. CASE ~closes
    BY <1>1, <2>1
  <2>2. CASE closes
    <3> DEFINE many == p.closes + 1
               e == error
               c == [p EXCEPT !.closes = many, !.previous = dumps, !.alignment_error = e]
    <3>1. counted = c /\ e \in BOOLEAN /\ many \in Nat /\ (~e => ~p.alignment_error)
      BY <1>1, <2>2
    <3> HIDE DEF e, many, counted
    <3>2. c \in Probes
      BY <1>1, <3>1, ZenonT(60) DEF Probes
    <3>3. /\ c.count = p.count /\ c.period = p.period /\ c.first = p.first
          /\ c.observed = p.observed /\ c.selected = p.selected
          /\ c.grouped = p.grouped /\ c.truncated = p.truncated
          /\ c.finished = p.finished /\ c.submission_overflow = p.submission_overflow
          /\ c.group_overflow = p.group_overflow /\ c.groups = p.groups
          /\ c.current = p.current /\ c.group = p.group /\ c.scope = p.scope
          /\ c.submissions = p.submissions
          /\ c.closes = many /\ c.previous = dumps /\ c.alignment_error = e
      BY <1>1, ZenonT(60) DEF Probes
    <3> HIDE DEF c
    <3>4. /\ c.closes = IF closes THEN p.closes + 1 ELSE p.closes
          /\ c.previous = IF closes THEN dumps ELSE p.previous
      BY <2>2, <3>3 DEF many
    <3> QED BY <1>1, <3>1, <3>2, <3>3, <3>4
  <2> QED BY <2>1, <2>2
<1>3. q = IF p.current = 0 THEN counted
          ELSE [told EXCEPT !.scope = FALSE, !.current = 0, !.submissions[p.current] = s]
  <2> HIDE DEF counted
  <2>1. told.group = 0 /\ told.submissions = p.submissions
    BY <1>2, ZenonT(60) DEF Probes
  <2> HIDE DEF told
  <2>2. Budget!EndGroup(told) = told
    BY <2>1 DEF Budget!EndGroup, Budget!NoSlot
  <2>3. q = IF p.current = 0 THEN counted
            ELSE [Budget!EndGroup(told) EXCEPT !.scope = FALSE, !.current = 0,
                    !.submissions[p.current] = [@ EXCEPT !.closes = closes, !.ended = TRUE,
                       !.dumps = IF closes THEN dumps - p.previous ELSE 0]]
    BY DEF q, Budget!EndProbe, Budget!NoSlot, told, counted
  <2> QED BY <2>1, <2>2, <2>3
<1> HIDE DEF counted, q, d, s
<1>4. CASE p.current = 0
  <2>1. q = counted
    BY <1>3, <1>4
  <2>2. \A i \in 1 .. Len(p.submissions) : i # p.current
    BY <1>4
  <2> QED BY <1>2, <1>4, <2>1, <2>2 DEF q, EndedAs
<1>5. CASE p.current # 0
  <2>1. /\ s \in Submission /\ s.number = r.number /\ s.frame = r.frame
        /\ s.operations = r.operations /\ s.scopes = r.scopes
        /\ s.closes = closes /\ s.dumps = d
    <3>1. r \in Submission
      BY <1>1, <1>5
    <3>2. d \in Int
      BY <1>1 DEF d
    <3>3. TRUE \in BOOLEAN
      OBVIOUS
    <3> HIDE DEF r
    <3> QED BY <3>1, <3>2, <3>3, ZenonT(60) DEF Submission, s
  <2>2. /\ list \in Seq(Submission) /\ Len(list) = Len(p.submissions)
        /\ \A j \in 1 .. Len(p.submissions) :
             list[j] = IF j = p.current THEN s ELSE p.submissions[j]
    <3>1. p.current \in 1 .. Len(p.submissions)
      BY <1>1, <1>5
    <3> QED BY <1>1, <2>1, <3>1, SubmissionReplaced
  <2> DEFINE e == counted.scope_error \/ p.scope
  <2>3. q = [counted EXCEPT !.scope_error = e, !.scope = FALSE, !.current = 0, !.submissions = list]
    <3>1. q = [told EXCEPT !.scope = FALSE, !.current = 0, !.submissions[p.current] = s]
      BY <1>3, <1>5
    <3>2. told = [counted EXCEPT !.scope_error = e]
      OBVIOUS
    <3>3. told.submissions = p.submissions
      BY <1>2, ZenonT(60) DEF Probes
    <3>4. q = [told EXCEPT !.scope = FALSE, !.current = 0, !.submissions = list]
      <4> HIDE DEF told
      <4>1. [told EXCEPT !.scope = FALSE, !.current = 0].submissions = told.submissions
        BY <1>2, ZenonT(60) DEF Probes, told
      <4> QED BY <3>1, <3>3, <4>1
    <3> HIDE DEF list, e
    <3> QED BY <1>2, <3>4, ZenonT(60) DEF Probes, told, e
  <2> HIDE DEF e, list
  <2>4. /\ q.count = counted.count /\ q.period = counted.period /\ q.first = counted.first
        /\ q.observed = counted.observed /\ q.selected = counted.selected
        /\ q.grouped = counted.grouped /\ q.truncated = counted.truncated
        /\ q.finished = counted.finished /\ q.submission_overflow = counted.submission_overflow
        /\ q.group_overflow = counted.group_overflow /\ q.groups = counted.groups
        /\ q.current = 0 /\ q.group = counted.group /\ q.scope = FALSE
        /\ q.submissions = list /\ q.closes = counted.closes /\ q.previous = counted.previous
        /\ q.alignment_error = counted.alignment_error
    BY <1>2, <2>3, ZenonT(60) DEF Probes
  <2>5. ASSUME NEW i \in 1 .. Len(p.submissions)
        PROVE  LET old == p.submissions[i]
                   new == list[i]
               IN /\ new.number = old.number /\ new.frame = old.frame
                  /\ new.operations = old.operations /\ new.scopes = old.scopes
                  /\ i # p.current => new.closes = old.closes /\ new.dumps = old.dumps
                  /\ i = p.current => new.closes = closes /\ new.dumps = d
    <3>1. CASE i = p.current
      BY <2>1, <2>2, <3>1
    <3>2. CASE i # p.current
      BY <2>2, <3>2
    <3> QED BY <3>1, <3>2
  <2>6. ~q.scope
    BY <2>4
  <2> QED BY <1>2, <2>2, <2>4, <2>5, <2>6 DEF q, d, EndedAs
<1> QED BY <1>4, <1>5

LEMMA ProbeNumbers ==
  ASSUME NEW p, ProbeIsSound(p)
  PROVE  /\ p.observed \in Int /\ p.first \in Nat /\ p.count \in Nat /\ p.period \in Nat
         /\ p.closes \in Nat /\ p.previous \in Nat /\ p.current \in Nat
         /\ Len(p.submissions) \in Nat /\ Len(p.groups) \in Nat
         /\ p.current # 0 => p.current \in 1 .. Len(p.submissions)
         /\ DOMAIN p.submissions = 1 .. Len(p.submissions)
         /\ DOMAIN p.groups = 1 .. Len(p.groups)
         /\ \A i \in 1 .. Len(p.submissions) :
              /\ p.submissions[i].number \in Nat /\ p.submissions[i].frame \in Nat
              /\ p.submissions[i].operations \in Nat /\ p.submissions[i].scopes \in Nat
         /\ \A g \in 1 .. Len(p.groups) :
              p.groups[g].number \in Nat /\ p.groups[g].frame \in Nat
<1>1. /\ p \in Probes /\ p.submissions \in Seq(Submission) /\ p.groups \in Seq(Group)
      /\ Len(p.submissions) \in Nat /\ Len(p.groups) \in Nat
      /\ p.current \in 0 .. Len(p.submissions)
  BY ProbeFields
<1>2. /\ p.observed \in Int /\ p.first \in Nat /\ p.count \in Nat /\ p.period \in Nat
      /\ p.closes \in Nat /\ p.previous \in Nat
  BY <1>1 DEF Probes
<1>3. ASSUME NEW i \in 1 .. Len(p.submissions)
      PROVE  /\ p.submissions[i].number \in Nat /\ p.submissions[i].frame \in Nat
             /\ p.submissions[i].operations \in Nat /\ p.submissions[i].scopes \in Nat
  <2>1. p.submissions[i] \in Submission
    BY <1>1
  <2> QED BY <2>1 DEF Submission
<1>4. ASSUME NEW g \in 1 .. Len(p.groups)
      PROVE  p.groups[g].number \in Nat /\ p.groups[g].frame \in Nat
  <2>1. p.groups[g] \in Group
    BY <1>1
  <2> QED BY <2>1 DEF Group
<1> QED BY <1>1, <1>2, <1>3, <1>4

LEMMA DoneNumbers ==
  ASSUME NEW done \in Seq(Execution)
  PROVE  /\ Len(done) \in Nat /\ DOMAIN done = 1 .. Len(done)
         /\ \A k \in 1 .. Len(done) :
              /\ done[k].number \in Nat /\ done[k].frame \in Nat /\ done[k].closes \in BOOLEAN
              /\ done[k].operations \in Nat /\ done[k].scopes \in Nat /\ done[k].dumps \in Nat
<1> SUFFICES ASSUME NEW k \in 1 .. Len(done)
             PROVE  /\ done[k].number \in Nat /\ done[k].frame \in Nat
                    /\ done[k].closes \in BOOLEAN
                    /\ done[k].operations \in Nat /\ done[k].scopes \in Nat /\ done[k].dumps \in Nat
  OBVIOUS
<1>1. done[k] \in Execution
  OBVIOUS
<1> QED BY <1>1 DEF Execution

LEMMA WorkNumbers ==
  ASSUME NEW c \in Commands
  PROVE  /\ c.frame \in Nat /\ c.next \in Nat /\ c.dumps \in Nat /\ c.frame_dumps \in Nat
         /\ c.work.number \in Nat /\ c.work.frame \in Nat
         /\ c.work.operations \in Nat /\ c.work.scopes \in Nat
<1>1. /\ c.frame \in Nat /\ c.next \in Nat /\ c.dumps \in Nat /\ c.frame_dumps \in Nat
      /\ c.work \in Works
  BY CommandsFields
<1> QED BY <1>1 DEF Works

(* The frame counter advances, and what is counted of the open submission    *)
(* changes, if no record of it is being made.                               *)
LEMMA CommandsMoveOn ==
  ASSUME NEW p, ProbeIsSound(p), NEW c \in Commands, NEW d \in Commands, NEW done,
         Tracks(p, c, done), d.next = c.next, d.open = c.open, d.frame >= c.frame,
         d.dumps - d.frame_dumps = c.dumps - c.frame_dumps,
         d.work.number = c.work.number, d.work.frame = c.work.frame,
         p.current # 0 => d.work.operations = c.work.operations /\ d.work.scopes = c.work.scopes
  PROVE  Tracks(p, d, done)
<1>1. /\ c.frame \in Nat /\ c.dumps \in Nat /\ c.frame_dumps \in Nat
      /\ d.frame \in Nat /\ d.dumps \in Nat /\ d.frame_dumps \in Nat
      /\ p.observed \in Int /\ p.previous \in Nat
  BY ProbeNumbers, WorkNumbers
<1>2. /\ done \in Seq(Execution)
      /\ Clock(p, c, done) /\ Ordered(p, c, done) /\ CurrentIsOpen(p, c)
      /\ RecordsAreDone(p, done) /\ DoneIsRecorded(p, c, done)
      /\ FramesAreClosed(p, c, done) /\ GroupsAreScopes(p)
  BY DEF Tracks
<1>3. Clock(p, d, done)
  <2>1. /\ p.observed <= d.frame /\ d.frame >= 1 /\ d.dumps = p.previous + d.frame_dumps
        /\ p.closes = 1 => p.observed < d.frame
    <3>1. /\ p.observed <= c.frame /\ c.frame >= 1 /\ c.dumps = p.previous + c.frame_dumps
          /\ p.closes = 1 => p.observed < c.frame
      BY <1>2, Zenon DEF Clock
    <3> QED BY <1>1, <3>1
  <2> QED BY <1>2, <2>1 DEF Clock
<1>4. Ordered(p, d, done) /\ CurrentIsOpen(p, d)
  BY <1>2 DEF Ordered, CurrentIsOpen
<1>5. DoneIsRecorded(p, d, done) /\ FramesAreClosed(p, d, done)
  BY <1>2 DEF DoneIsRecorded, FramesAreClosed
<1> QED BY <1>2, <1>3, <1>4, <1>5 DEF Tracks

(* A boundary is observed: an open submission stays the frame's that began   *)
(* it, and a window is entered, or a frame of it followed, only from a       *)
(* frame that was closed, or the capture is out of line.                     *)
LEMMA ObservedTracks ==
  ASSUME NEW p, ProbeIsSound(p), ~p.finished, NEW c \in Commands, NEW done,
         Tracks(p, c, done), NEW due \in BOOLEAN
  PROVE  LET q == Budget!ObserveFrame(p, c.frame, due)
         IN Tracks(q, c, done) /\ q.observed = c.frame
<1> DEFINE q == Budget!ObserveFrame(p, c.frame, due)
<1>1. /\ done \in Seq(Execution)
      /\ Clock(p, c, done) /\ Ordered(p, c, done) /\ CurrentIsOpen(p, c)
      /\ RecordsAreDone(p, done) /\ DoneIsRecorded(p, c, done)
      /\ FramesAreClosed(p, c, done) /\ GroupsAreScopes(p)
  BY DEF Tracks
<1>2. CASE c.frame = p.observed
  BY <1>2 DEF Budget!ObserveFrame
<1>3. CASE c.frame # p.observed
  <2>1. c.frame \in Nat /\ c.work.frame \in Nat
    BY WorkNumbers
  <2>2. /\ q.count = p.count /\ q.period = p.period /\ q.previous = p.previous
        /\ q.submissions = p.submissions /\ q.groups = p.groups /\ q.current = p.current
        /\ q.group = p.group /\ q.scope = p.scope
        /\ q.submission_overflow = p.submission_overflow
        /\ q.group_overflow = p.group_overflow
        /\ q.observed = c.frame /\ q.closes = 0 /\ ~q.truncated
        /\ q.first = IF p.first = 0 /\ due THEN c.frame ELSE p.first
        /\ q.selected <=> InWindow(q, c.frame)
        /\ q.grouped <=> q.selected /\ p.period # 0 /\ IsSampled(q, c.frame)
        /\ ~q.alignment_error =>
             /\ ~p.alignment_error
             /\ q.first # 0 /\ p.observed # -1 /\ p.observed < q.first + p.count =>
                  c.frame = p.observed + 1 /\ p.closes = 1 /\ p.current = 0
    BY <1>3, <2>1, ObservedFields
  <2> HIDE DEF q
  <2>3. /\ p.observed \in Int /\ p.first \in Nat /\ p.count \in Nat /\ p.current \in Nat
        /\ Len(p.submissions) \in Nat /\ p.current # 0 => p.current \in 1 .. Len(p.submissions)
        /\ DOMAIN p.submissions = 1 .. Len(p.submissions)
        /\ \A i \in 1 .. Len(p.submissions) : p.submissions[i].frame \in Nat
    BY ProbeNumbers
  <2>4. /\ Len(done) \in Nat /\ DOMAIN done = 1 .. Len(done)
        /\ \A k \in 1 .. Len(done) : done[k].frame \in Nat
    BY <1>1, DoneNumbers
  <2>5. p.observed < c.frame
    BY <1>1, <1>3, <2>1, <2>3 DEF Clock
  <2>6. /\ p.first # 0 => q.first = p.first
        /\ p.first = 0 => /\ q.first \in {0, c.frame} /\ p.current = 0
                          /\ Len(done) = 0 /\ Len(p.submissions) = 0
                          /\ done = <<>> /\ p.submissions = <<>> /\ p.groups = <<>>
    <3>1. p.first = 0 => done = <<>> /\ p.submissions = <<>> /\ p.groups = <<>>
      BY <1>1 DEF Clock
    <3>2. p.first = 0 => Len(done) = 0 /\ Len(p.submissions) = 0
      BY <3>1
    <3>3. p.first = 0 => p.current = 0
      BY <2>3, <3>2
    <3> QED BY <2>2, <3>1, <3>2, <3>3
  <2>7. Clock(q, c, done)
    <3>1. q.first # 0 => q.first <= c.frame
      BY <1>1, <2>1, <2>2, <2>3, <2>5, <2>6 DEF Clock
    <3>2. q.first = 0 => done = <<>> /\ q.submissions = <<>> /\ q.groups = <<>>
      BY <2>2, <2>6
    <3>3. c.open => c.work.number = c.next /\ c.work.frame <= c.frame
      BY <1>1, <2>1, <2>3, <2>5 DEF Clock
    <3>4. /\ c.frame >= 1 /\ p.count >= 1 /\ c.dumps = p.previous + c.frame_dumps
          /\ ~p.scope /\ p.group = 0
      BY <1>1 DEF Clock
    <3>5. c.frame >= -1 /\ c.frame <= c.frame /\ c.frame # -1
      BY <2>1
    <3> QED BY <2>2, <3>1, <3>2, <3>3, <3>4, <3>5 DEF Clock
  <2>8. Ordered(q, c, done)
    <3>1. \A k \in DOMAIN done : done[k].frame <= c.frame
      BY <1>1, <2>1, <2>3, <2>4, <2>5 DEF Ordered
    <3> QED BY <1>1, <2>2, <3>1 DEF Ordered
  <2>9. CurrentIsOpen(q, c)
    BY <1>1, <2>2 DEF CurrentIsOpen
  <2>10. p.first # 0 => \A f : (InWindow(q, f) <=> InWindow(p, f)) /\ IsSampled(q, f) = IsSampled(p, f)
    BY <2>2, <2>6 DEF InWindow, IsSampled
  <2>11. RecordsAreDone(q, done)
    <3>1. CASE p.first # 0
      BY <1>1, <2>2, <2>10, <3>1 DEF RecordsAreDone
    <3>2. CASE p.first = 0
      BY <2>2, <2>3, <2>6, <3>2 DEF RecordsAreDone
    <3> QED BY <3>1, <3>2
  <2>12. DoneIsRecorded(q, c, done)
    <3>1. CASE p.first # 0
      BY <1>1, <2>2, <2>10, <3>1 DEF DoneIsRecorded
    <3>2. CASE p.first = 0
      <4>1. c.open => c.work.frame < c.frame
        BY <1>1, <2>1, <2>3, <2>5 DEF Clock
      <4>2. c.open => ~InWindow(q, c.work.frame)
        BY <2>1, <2>6, <3>2, <4>1 DEF InWindow
      <4>3. DOMAIN done = {}
        BY <2>4, <2>6, <3>2
      <4> QED BY <4>2, <4>3 DEF DoneIsRecorded
    <3> QED BY <3>1, <3>2
  <2>13. FramesAreClosed(q, c, done)
    <3> SUFFICES ASSUME ~q.alignment_error, q.first # 0
                 PROVE  /\ c.open => c.work.frame = c.frame \/ c.work.frame >= q.first + p.count
                        /\ \A f \in q.first .. q.first + p.count - 1 :
                             f < c.frame => \E k \in DOMAIN done : Closes(done, f, k)
                        /\ \A k \in DOMAIN done : done[k].frame = c.frame /\ q.selected =>
                             ~done[k].closes
      BY <2>2 DEF FramesAreClosed
    <3>1. /\ ~p.alignment_error
          /\ p.observed # -1 /\ p.observed < q.first + p.count =>
               c.frame = p.observed + 1 /\ p.closes = 1 /\ p.current = 0
      BY <2>2
    <3>2. c.open => c.work.frame = c.frame \/ c.work.frame >= q.first + p.count
      <4> SUFFICES ASSUME c.open PROVE c.work.frame >= q.first + p.count
        OBVIOUS
      <4>1. p.observed # -1 /\ p.closes # 1 /\ c.work.frame <= p.observed
        BY <1>1 DEF Clock
      <4>2. p.observed >= q.first + p.count
        BY <2>1, <2>2, <2>3, <3>1, <4>1
      <4>3. p.first # 0
        BY <2>1, <2>3, <2>5, <2>6, <4>2
      <4>4. c.work.frame = p.observed \/ c.work.frame >= p.first + p.count
        BY <1>1, <3>1, <4>3 DEF FramesAreClosed
      <4> QED BY <2>1, <2>3, <2>6, <4>2, <4>3, <4>4
    <3>3. ASSUME NEW f \in q.first .. q.first + p.count - 1, f < c.frame
          PROVE  \E k \in DOMAIN done : Closes(done, f, k)
      <4>1. p.first # 0
        BY <2>1, <2>3, <2>6, <3>3
      <4>2. q.first = p.first /\ p.first <= p.observed /\ p.observed # -1
        BY <1>1, <2>3, <2>6, <4>1 DEF Clock
      <4>3. f < p.observed \/ (f = p.observed /\ p.closes = 1)
        <5>1. CASE f < p.observed
          BY <5>1
        <5>2. CASE f >= p.observed
          <6>1. p.observed < q.first + p.count
            BY <2>3, <3>3, <4>2, <5>2
          <6>2. c.frame = p.observed + 1 /\ p.closes = 1
            BY <3>1, <4>2, <6>1
          <6> QED BY <2>1, <2>3, <3>3, <4>2, <5>2, <6>2
        <5> QED BY <2>3, <3>3, <4>2, <5>1, <5>2
      <4> QED BY <1>1, <3>1, <3>3, <4>1, <4>2, <4>3 DEF FramesAreClosed
    <3>4. \A k \in DOMAIN done : done[k].frame # c.frame
      BY <1>1, <2>1, <2>3, <2>4, <2>5 DEF Ordered
    <3> QED BY <3>2, <3>3, <3>4
  <2>14. GroupsAreScopes(q)
    <3>1. CASE p.first # 0
      <4>1. \A number : GroupsWith(q, number) = GroupsWith(p, number)
        BY <2>2 DEF GroupsWith
      <4> QED BY <1>1, <2>2, <2>10, <3>1, <4>1 DEF GroupsAreScopes
    <3>2. CASE p.first = 0
      <4>1. DOMAIN q.groups = {} /\ DOMAIN q.submissions = {}
        BY <2>2, <2>6, <3>2
      <4> QED BY <4>1 DEF GroupsAreScopes
    <3> QED BY <3>1, <3>2
  <2> QED BY <1>1, <2>2, <2>7, <2>8, <2>9, <2>11, <2>12, <2>13, <2>14 DEF Tracks, q
<1> QED BY <1>2, <1>3

(* A submission is begun in the frame that was observed: in the window it    *)
(* gets a record, while there is room.                                      *)
LEMMA BegunTracks ==
  ASSUME NEW p, ProbeIsSound(p), NEW c \in Commands, NEW d \in Commands, NEW done,
         Tracks(p, c, done), ~c.open, p.observed = c.frame,
         d.open, d.frame = c.frame, d.next = c.next, d.dumps = c.dumps,
         d.frame_dumps = c.frame_dumps, d.work.number = c.next, d.work.frame = c.frame,
         d.work.operations = 0, d.work.scopes = 0
  PROVE  Tracks(Budget!BeginProbe(p, c.frame, c.next), d, done)
<1> DEFINE q == Budget!BeginProbe(p, c.frame, c.next)
           record == [frame |-> c.frame, number |-> c.next, closes |-> FALSE, ended |-> FALSE,
                      operations |-> 0, scopes |-> 0, dumps |-> 0]
           slot == Len(p.submissions) + 1
<1>1. /\ done \in Seq(Execution)
      /\ Clock(p, c, done) /\ Ordered(p, c, done) /\ CurrentIsOpen(p, c)
      /\ RecordsAreDone(p, done) /\ DoneIsRecorded(p, c, done)
      /\ FramesAreClosed(p, c, done) /\ GroupsAreScopes(p)
  BY DEF Tracks
<1>2. c.frame \in Nat /\ c.next \in Nat
  BY WorkNumbers
<1>3. /\ q.count = p.count /\ q.period = p.period /\ q.previous = p.previous
      /\ q.first = p.first /\ q.observed = p.observed /\ q.closes = p.closes
      /\ q.selected = p.selected /\ q.grouped = p.grouped /\ q.truncated = p.truncated
      /\ q.groups = p.groups /\ q.group = 0 /\ q.scope = p.scope
      /\ q.alignment_error = p.alignment_error
      /\ q.group_overflow = p.group_overflow
      /\ \/ /\ q.current = 0 /\ q.submissions = p.submissions
            /\ p.selected => q.submission_overflow
            /\ q.submission_overflow \/ q.submission_overflow = p.submission_overflow
         \/ /\ p.selected /\ q.submission_overflow = p.submission_overflow
            /\ q.submissions = Append(p.submissions, record)
            /\ q.current = slot
  BY <1>2, BegunFields
<1> HIDE DEF q
<1>4. /\ p.observed \in Int /\ p.first \in Nat /\ p.count \in Nat /\ p.current \in Nat
      /\ Len(p.submissions) \in Nat /\ p.submissions \in Seq(Submission)
      /\ DOMAIN p.submissions = 1 .. Len(p.submissions)
      /\ \A i \in 1 .. Len(p.submissions) :
           p.submissions[i].number \in Nat /\ p.submissions[i].frame \in Nat
  BY ProbeNumbers, ProbeFields
<1>5. p.current = 0 /\ p.closes = 0
  BY <1>1, <1>2, <1>4 DEF CurrentIsOpen, Clock
<1>6. Clock(q, d, done)
  <2>1. q.first = 0 => done = <<>> /\ q.submissions = <<>> /\ q.groups = <<>>
    <3>1. p.first = 0 => done = <<>> /\ p.submissions = <<>> /\ p.groups = <<>>
      BY <1>1 DEF Clock
    <3>2. q.submissions = p.submissions \/ p.selected
      BY <1>3
    <3>3. p.selected => p.first # 0
      BY <1>1 DEF Clock, InWindow
    <3> QED BY <1>3, <3>1, <3>2, <3>3
  <2>2. /\ p.observed # -1 /\ c.next = c.next /\ c.frame <= p.observed
    BY <1>2, <1>4
  <2>3. /\ q.selected <=> InWindow(q, q.observed)
        /\ q.grouped <=> q.selected /\ q.period # 0 /\ IsSampled(q, q.observed)
    BY <1>1, <1>3 DEF Clock, InWindow, IsSampled
  <2> QED BY <1>1, <1>3, <1>5, <2>1, <2>2, <2>3 DEF Clock
<1>7. \A f : (InWindow(q, f) <=> InWindow(p, f)) /\ IsSampled(q, f) = IsSampled(p, f)
  BY <1>3 DEF InWindow, IsSampled
<1>8. \A number : GroupsWith(q, number) = GroupsWith(p, number)
  BY <1>3 DEF GroupsWith
<1>9. FramesAreClosed(q, d, done)
  <2>1. d.work.frame = q.observed
    BY <1>3
  <2> QED BY <1>1, <1>3, <2>1 DEF FramesAreClosed
<1>10. CASE /\ q.current = 0 /\ q.submissions = p.submissions
            /\ p.selected => q.submission_overflow
            /\ q.submission_overflow \/ q.submission_overflow = p.submission_overflow
  <2>1. Ordered(q, d, done) /\ CurrentIsOpen(q, d)
    BY <1>1, <1>3, <1>5, <1>10 DEF Ordered, CurrentIsOpen
  <2>2. RecordsAreDone(q, done)
    BY <1>1, <1>5, <1>7, <1>10 DEF RecordsAreDone
  <2>3. DoneIsRecorded(q, d, done)
    <3> SUFFICES ASSUME ~q.submission_overflow PROVE DoneIsRecorded(q, d, done)
      BY DEF DoneIsRecorded
    <3>1. ~p.selected /\ ~p.submission_overflow
      BY <1>10
    <3>2. ~InWindow(q, d.work.frame)
      BY <1>1, <1>7, <3>1 DEF Clock
    <3> QED BY <1>1, <1>5, <1>7, <1>10, <3>1, <3>2 DEF DoneIsRecorded
  <2>4. GroupsAreScopes(q)
    BY <1>1, <1>3, <1>7, <1>8, <1>10 DEF GroupsAreScopes
  <2> QED BY <1>1, <1>6, <1>9, <2>1, <2>2, <2>3, <2>4 DEF Tracks, q
<1>11. CASE /\ p.selected /\ q.submission_overflow = p.submission_overflow
            /\ q.submissions = Append(p.submissions, record)
            /\ q.current = slot
  <2>1. /\ record.frame = c.frame /\ record.number = c.next /\ record.operations = 0
        /\ record.scopes = 0 /\ record \in Submission
    BY <1>2 DEF Submission
  <2> HIDE DEF record
  <2>2. /\ Len(q.submissions) = slot /\ q.submissions[slot] = record
        /\ \A i \in 1 .. Len(p.submissions) : q.submissions[i] = p.submissions[i]
        /\ DOMAIN q.submissions = 1 .. slot
    <3>1. /\ q.submissions \in Seq(Submission) /\ Len(q.submissions) = slot
          /\ q.submissions[slot] = record
          /\ \A i \in 1 .. Len(p.submissions) : q.submissions[i] = p.submissions[i]
      BY <1>4, <1>11, <2>1, AppendProperties
    <3> QED BY <3>1
  <2>3. \A i \in 1 .. slot : i = slot \/ i \in 1 .. Len(p.submissions)
    BY <1>4
  <2>4. slot # 0 /\ slot \in 1 .. slot /\ slot \notin 1 .. Len(p.submissions)
    BY <1>4
  <2>5. \A i \in 1 .. Len(p.submissions) :
          q.submissions[i].number < c.next /\ i \in 1 .. slot /\ i # slot
    <3> SUFFICES ASSUME NEW i \in 1 .. Len(p.submissions)
                 PROVE  q.submissions[i].number < c.next /\ i \in 1 .. slot /\ i # slot
      OBVIOUS
    <3>1. i \in 1 .. slot /\ i # slot /\ i # p.current
      BY <1>4, <1>5
    <3>2. p.submissions[i].number < c.next
      BY <1>1, <1>4, <3>1 DEF Ordered
    <3> QED BY <2>2, <3>1, <3>2
  <2>6. Ordered(q, d, done)
    <3>1. Budget!InOrder(q.submissions)
      <4> SUFFICES ASSUME NEW i \in 1 .. slot, NEW j \in 1 .. slot, i < j
                   PROVE  q.submissions[i].number < q.submissions[j].number
        BY <2>2 DEF Budget!InOrder
      <4>1. i \in 1 .. Len(p.submissions)
        BY <1>4
      <4>2. CASE j = slot
        BY <2>1, <2>2, <2>5, <4>1, <4>2
      <4>3. CASE j \in 1 .. Len(p.submissions)
        BY <1>1, <1>4, <2>2, <4>1, <4>3 DEF Ordered, Budget!InOrder
      <4> QED BY <2>3, <4>2, <4>3
    <3>2. \A i \in DOMAIN q.submissions : i # q.current => q.submissions[i].number < d.next
      BY <1>11, <2>2, <2>3, <2>5
    <3> QED BY <1>1, <1>3, <3>1, <3>2 DEF Ordered
  <2>7. CurrentIsOpen(q, d)
    BY <1>11, <2>1, <2>2 DEF CurrentIsOpen
  <2>8. InWindow(q, c.frame)
    BY <1>1, <1>7, <1>11 DEF Clock
  <2>9. RecordsAreDone(q, done)
    <3> SUFFICES ASSUME NEW i \in 1 .. slot
                 PROVE  /\ InWindow(q, q.submissions[i].frame)
                        /\ i # slot =>
                             \E k \in DOMAIN done :
                               Budget!WorkOf(done[k]) = Budget!WorkOf(q.submissions[i])
      BY <1>11, <2>2 DEF RecordsAreDone
    <3>1. CASE i = slot
      BY <2>1, <2>2, <2>8, <3>1
    <3>2. CASE i \in 1 .. Len(p.submissions)
      <4>1. i # p.current /\ i \in DOMAIN p.submissions
        BY <1>4, <1>5, <3>2
      <4> QED BY <1>1, <1>7, <2>2, <3>2, <4>1 DEF RecordsAreDone
    <3> QED BY <2>3, <3>1, <3>2
  <2>10. DoneIsRecorded(q, d, done)
    <3> SUFFICES ASSUME ~p.submission_overflow, NEW k \in DOMAIN done, InWindow(q, done[k].frame)
                 PROVE  \E i \in DOMAIN q.submissions :
                          i # slot /\ Budget!WorkOf(q.submissions[i]) = Budget!WorkOf(done[k])
      BY <1>11, <2>4 DEF DoneIsRecorded
    <3>1. PICK i \in DOMAIN p.submissions :
            Budget!WorkOf(p.submissions[i]) = Budget!WorkOf(done[k])
      BY <1>1, <1>7 DEF DoneIsRecorded
    <3>2. i \in DOMAIN q.submissions /\ i # slot /\ q.submissions[i] = p.submissions[i]
      BY <1>4, <2>2, <2>5
    <3> QED BY <3>1, <3>2
  <2>11. GroupsAreScopes(q)
    <3> SUFFICES ASSUME ~q.alignment_error, ~q.group_overflow, q.period # 0
                 PROVE  GroupsAreScopes(q)
      BY DEF GroupsAreScopes
    <3>1. /\ \A g, h \in DOMAIN p.groups : g < h => p.groups[g].number <= p.groups[h].number
          /\ \A g \in DOMAIN p.groups :
               /\ p.groups[g].operations = 1
               /\ \E i \in DOMAIN p.submissions : /\ p.submissions[i].number = p.groups[g].number
                                                  /\ p.submissions[i].frame = p.groups[g].frame
                                                  /\ IsSampled(p, p.submissions[i].frame)
          /\ \A i \in DOMAIN p.submissions :
               IsSampled(p, p.submissions[i].frame) =>
                 Cardinality(GroupsWith(p, p.submissions[i].number)) = p.submissions[i].scopes
      BY <1>1, <1>3 DEF GroupsAreScopes
    <3>2. ASSUME NEW g \in DOMAIN q.groups
          PROVE  /\ q.groups[g].operations = 1
                 /\ \E i \in DOMAIN q.submissions : /\ q.submissions[i].number = q.groups[g].number
                                                    /\ q.submissions[i].frame = q.groups[g].frame
                                                    /\ IsSampled(q, q.submissions[i].frame)
      <4>1. PICK i \in DOMAIN p.submissions : /\ p.submissions[i].number = p.groups[g].number
                                              /\ p.submissions[i].frame = p.groups[g].frame
                                              /\ IsSampled(p, p.submissions[i].frame)
        BY <1>3, <3>1
      <4>2. i \in DOMAIN q.submissions /\ q.submissions[i] = p.submissions[i]
        BY <1>4, <2>2, <2>5
      <4> QED BY <1>3, <1>7, <3>1, <4>1, <4>2
    <3>3. ASSUME NEW i \in 1 .. slot, IsSampled(q, q.submissions[i].frame)
          PROVE  Cardinality(GroupsWith(q, q.submissions[i].number)) = q.submissions[i].scopes
      <4>1. CASE i \in 1 .. Len(p.submissions)
        <5>1. q.submissions[i] = p.submissions[i]
          BY <2>2, <4>1
        <5>2. IsSampled(p, p.submissions[i].frame)
          BY <1>7, <3>3, <5>1
        <5>3. Cardinality(GroupsWith(p, p.submissions[i].number)) = p.submissions[i].scopes
          BY <1>4, <3>1, <4>1, <5>2
        <5> QED BY <1>8, <5>1, <5>3
      <4>2. CASE i = slot
        <5>1. GroupsWith(p, c.next) = {}
          <6> SUFFICES ASSUME NEW g \in DOMAIN p.groups, p.groups[g].number = c.next
                       PROVE  FALSE
            BY DEF GroupsWith
          <6>1. PICK j \in DOMAIN p.submissions : p.submissions[j].number = p.groups[g].number
            BY <3>1
          <6>2. q.submissions[j] = p.submissions[j] /\ q.submissions[j].number < c.next
            BY <1>4, <2>2, <2>5
          <6>3. p.submissions[j].number \in Nat
            BY <1>4
          <6> QED BY <1>2, <6>1, <6>2, <6>3
        <5>2. Cardinality({}) = 0
          BY FS_EmptySet
        <5> QED BY <1>8, <2>1, <2>2, <4>2, <5>1, <5>2
      <4> QED BY <2>3, <4>1, <4>2
    <3> QED BY <1>3, <2>2, <3>1, <3>2, <3>3 DEF GroupsAreScopes
  <2> QED BY <1>1, <1>6, <1>9, <2>6, <2>7, <2>9, <2>10, <2>11 DEF Tracks, q
<1> QED BY <1>3, <1>10, <1>11

(* The open submission's record counts what the submission does.             *)
LEMMA RecountedTracks ==
  ASSUME NEW p, ProbeIsSound(p), NEW q, ProbeIsSound(q), NEW c \in Commands, NEW d \in Commands,
         NEW done, Tracks(p, c, done), p.current # 0, NEW scopes \in Nat,
         Kept(p, q), Recounted(p, q, 1, scopes), ~q.scope, q.group = 0,
         q.truncated => q.group_overflow, GroupsAreScopes(q),
         q.groups = <<>> \/ p.first # 0,
         d.next = c.next, d.open = c.open, d.frame = c.frame,
         d.dumps - d.frame_dumps = c.dumps - c.frame_dumps,
         d.work.number = c.work.number, d.work.frame = c.work.frame,
         d.work.operations = c.work.operations + 1, d.work.scopes = c.work.scopes + scopes
  PROVE  Tracks(q, d, done)
<1>1. /\ done \in Seq(Execution)
      /\ Clock(p, c, done) /\ Ordered(p, c, done) /\ CurrentIsOpen(p, c)
      /\ RecordsAreDone(p, done) /\ DoneIsRecorded(p, c, done)
      /\ FramesAreClosed(p, c, done)
  BY DEF Tracks
<1>2. /\ c.frame \in Nat /\ c.dumps \in Nat /\ c.frame_dumps \in Nat
      /\ d.dumps \in Nat /\ d.frame_dumps \in Nat
  BY WorkNumbers
<1>3. /\ p.observed \in Int /\ p.previous \in Nat /\ p.current \in 1 .. Len(p.submissions)
      /\ Len(p.submissions) \in Nat /\ DOMAIN p.submissions = 1 .. Len(p.submissions)
      /\ \A i \in 1 .. Len(p.submissions) : p.submissions[i].number \in Nat
  BY ProbeNumbers
<1>4. /\ q.count = p.count /\ q.period = p.period /\ q.first = p.first /\ q.observed = p.observed
      /\ q.closes = p.closes /\ q.previous = p.previous /\ q.selected = p.selected
      /\ q.grouped = p.grouped /\ q.current = p.current
      /\ q.submission_overflow = p.submission_overflow /\ q.alignment_error = p.alignment_error
  BY DEF Kept
<1>5. Len(q.submissions) = Len(p.submissions) /\ DOMAIN q.submissions = DOMAIN p.submissions
  BY <1>3, ProbeNumbers DEF Recounted
<1>6. ASSUME NEW i \in DOMAIN p.submissions
      PROVE  /\ q.submissions[i].number = p.submissions[i].number
             /\ q.submissions[i].frame = p.submissions[i].frame
             /\ i # p.current => Budget!WorkOf(q.submissions[i]) = Budget!WorkOf(p.submissions[i])
  BY <1>3 DEF Recounted, Budget!WorkOf
<1>7. \A f : (InWindow(q, f) <=> InWindow(p, f)) /\ IsSampled(q, f) = IsSampled(p, f)
  BY <1>4 DEF InWindow, IsSampled
<1>8. Clock(q, d, done)
  <2>1. p.first # 0
    <3>1. p.submissions # <<>>
      BY <1>3
    <3> QED BY <1>1, <3>1 DEF Clock
  <2>2. d.dumps = p.previous + d.frame_dumps
    <3>1. c.dumps = p.previous + c.frame_dumps
      BY <1>1, Zenon DEF Clock
    <3> QED BY <1>2, <1>3, <3>1
  <2>3. /\ q.selected <=> InWindow(q, q.observed)
        /\ q.grouped <=> q.selected /\ q.period # 0 /\ IsSampled(q, q.observed)
    BY <1>1, <1>4 DEF Clock, InWindow, IsSampled
  <2> QED BY <1>1, <1>4, <2>1, <2>2, <2>3 DEF Clock
<1>9. Ordered(q, d, done)
  <2>1. Budget!InOrder(q.submissions)
    BY <1>1, <1>5, <1>6 DEF Ordered, Budget!InOrder
  <2> QED BY <1>1, <1>4, <1>5, <1>6, <2>1 DEF Ordered
<1>10. CurrentIsOpen(q, d)
  <2>1. /\ q.submissions[p.current].number = p.submissions[p.current].number
        /\ q.submissions[p.current].frame = p.submissions[p.current].frame
        /\ q.submissions[p.current].operations = p.submissions[p.current].operations + 1
        /\ q.submissions[p.current].scopes = p.submissions[p.current].scopes + scopes
    BY <1>3 DEF Recounted
  <2> QED BY <1>1, <1>4, <1>5, <2>1 DEF CurrentIsOpen
<1>11. RecordsAreDone(q, done)
  BY <1>1, <1>4, <1>5, <1>6, <1>7 DEF RecordsAreDone
<1>12. DoneIsRecorded(q, d, done)
  <2> SUFFICES ASSUME ~p.submission_overflow, NEW k \in DOMAIN done, InWindow(q, done[k].frame)
               PROVE  \E i \in DOMAIN q.submissions :
                        i # p.current /\ Budget!WorkOf(q.submissions[i]) = Budget!WorkOf(done[k])
    BY <1>4 DEF DoneIsRecorded
  <2>1. PICK i \in DOMAIN p.submissions :
          i # p.current /\ Budget!WorkOf(p.submissions[i]) = Budget!WorkOf(done[k])
    BY <1>1, <1>7 DEF DoneIsRecorded
  <2> QED BY <1>5, <1>6, <2>1
<1>13. FramesAreClosed(q, d, done)
  BY <1>1, <1>4 DEF FramesAreClosed
<1> QED BY <1>1, <1>8, <1>9, <1>10, <1>11, <1>12, <1>13 DEF Tracks

(* While nothing is out of line, the record that is being made is of the     *)
(* frame that was observed.                                                  *)
LEMMA CurrentIsObserved ==
  ASSUME NEW p, ProbeIsSound(p), NEW c \in Commands, NEW done, Tracks(p, c, done),
         p.current # 0, ~p.alignment_error
  PROVE  /\ p.first # 0 /\ p.submissions[p.current].frame = p.observed
         /\ p.period # 0 => (p.grouped <=> IsSampled(p, p.submissions[p.current].frame))
<1>1. /\ Clock(p, c, done) /\ CurrentIsOpen(p, c) /\ RecordsAreDone(p, done)
      /\ FramesAreClosed(p, c, done)
  BY DEF Tracks
<1>2. /\ p.observed \in Int /\ p.first \in Nat /\ p.count \in Nat
      /\ p.current \in DOMAIN p.submissions /\ p.submissions[p.current].frame \in Nat
  BY ProbeNumbers
<1>3. InWindow(p, p.submissions[p.current].frame)
  BY <1>1, <1>2 DEF RecordsAreDone
<1>4. c.open /\ c.work.frame = p.submissions[p.current].frame
  BY <1>1 DEF CurrentIsOpen
<1>5. p.first # 0 /\ c.work.frame < p.first + p.count
  BY <1>3, <1>4 DEF InWindow
<1>6. c.work.frame = p.observed
  BY <1>1, <1>2, <1>4, <1>5 DEF FramesAreClosed
<1>7. p.selected
  BY <1>1, <1>3, <1>4, <1>6 DEF Clock
<1> QED BY <1>1, <1>4, <1>5, <1>6, <1>7 DEF Clock

LEMMA OperationTracks ==
  ASSUME NEW p, ProbeIsSound(p), NEW c \in Commands, NEW d \in Commands, NEW done,
         Tracks(p, c, done), d.next = c.next, d.open = c.open, d.frame = c.frame,
         d.dumps - d.frame_dumps = c.dumps - c.frame_dumps,
         d.work.number = c.work.number, d.work.frame = c.work.frame,
         d.work.operations = c.work.operations + 1,
         p.current # 0 => d.work.scopes = c.work.scopes
  PROVE  Tracks(Budget!CountOperation(p), d, done)
<1> DEFINE q == Budget!CountOperation(p)
<1>1. CASE p.current = 0
  <2>1. q = p
    BY <1>1 DEF Budget!CountOperation, Budget!NoSlot
  <2>2. d.frame >= c.frame
    BY WorkNumbers
  <2>3. Tracks(p, d, done)
    BY <1>1, <2>2, CommandsMoveOn
  <2> QED BY <2>1, <2>3
<1>2. CASE p.current # 0
  <2>1. ProbeIsSound(q)
    BY CountedIsSound
  <2>2. p.group = 0 /\ ~p.scope /\ (p.truncated => p.group_overflow) /\ GroupsAreScopes(p)
    BY DEF Tracks, Clock
  <2>3. /\ Kept(p, q) /\ Recounted(p, q, 1, 0) /\ q.group = p.group /\ q.scope = p.scope
        /\ q.truncated = p.truncated /\ q.group_overflow = p.group_overflow
        /\ q.groups = p.groups
    BY <1>2, <2>2, CountedFields
  <2> HIDE DEF q
  <2>4. d.work.scopes = c.work.scopes + 0
    BY <1>2, WorkNumbers
  <2>5. /\ DOMAIN p.submissions = 1 .. Len(p.submissions)
        /\ DOMAIN q.submissions = 1 .. Len(p.submissions)
        /\ \A i \in 1 .. Len(p.submissions) : p.submissions[i].scopes \in Nat
    BY <2>1, <2>3, ProbeNumbers DEF Recounted
  <2>6. ASSUME NEW i \in 1 .. Len(p.submissions)
        PROVE  /\ q.submissions[i].number = p.submissions[i].number
               /\ q.submissions[i].frame = p.submissions[i].frame
               /\ q.submissions[i].scopes = p.submissions[i].scopes
    BY <2>3, <2>5 DEF Recounted
  <2>7. GroupsAreScopes(q)
    <3>1. \A number : GroupsWith(q, number) = GroupsWith(p, number)
      BY <2>3 DEF GroupsWith
    <3>2. \A f : IsSampled(q, f) = IsSampled(p, f)
      BY <2>3 DEF IsSampled, Kept
    <3>3. q.alignment_error = p.alignment_error /\ q.period = p.period
      BY <2>3 DEF Kept
    <3> QED BY <2>2, <2>3, <2>5, <2>6, <3>1, <3>2, <3>3 DEF GroupsAreScopes
  <2>8. q.groups = <<>> \/ p.first # 0
    <3>1. p.first = 0 => p.groups = <<>>
      BY DEF Tracks, Clock
    <3> QED BY <2>3, <3>1
  <2>9. Tracks(q, d, done)
    BY <1>2, <2>1, <2>2, <2>3, <2>4, <2>7, <2>8, RecountedTracks
  <2> QED BY <2>9 DEF q
<1> QED BY <1>1, <1>2

(* A leaf of a sampled frame has its group, or a group was left out.         *)
LEMMA LeafGroups ==
  ASSUME NEW p, ProbeIsSound(p), NEW c \in Commands, NEW done, Tracks(p, c, done),
         p.current # 0, NEW q, ProbeIsSound(q), Kept(p, q), Recounted(p, q, 1, 1),
         \/ /\ ~p.grouped \/ p.truncated
            /\ q.groups = p.groups /\ q.group_overflow = p.group_overflow
         \/ /\ p.grouped /\ q.groups = p.groups /\ q.group_overflow = TRUE
         \/ /\ p.grouped /\ q.group_overflow = p.group_overflow
            /\ Len(q.groups) = Len(p.groups) + 1
            /\ \A h \in 1 .. Len(p.groups) : q.groups[h] = p.groups[h]
            /\ q.groups[Len(p.groups) + 1].number = p.submissions[p.current].number
            /\ q.groups[Len(p.groups) + 1].frame = p.submissions[p.current].frame
            /\ q.groups[Len(p.groups) + 1].operations = 1
  PROVE  GroupsAreScopes(q)
<1> SUFFICES ASSUME ~q.alignment_error, ~q.group_overflow, q.period # 0
             PROVE  GroupsAreScopes(q)
  BY DEF GroupsAreScopes
<1> DEFINE last == Len(p.groups) + 1
           r == p.submissions[p.current]
<1>1. /\ p.current \in 1 .. Len(p.submissions) /\ Len(p.groups) \in Nat
      /\ DOMAIN p.submissions = 1 .. Len(p.submissions) /\ DOMAIN p.groups = 1 .. Len(p.groups)
      /\ DOMAIN q.submissions = 1 .. Len(p.submissions) /\ DOMAIN q.groups = 1 .. Len(q.groups)
      /\ \A i \in 1 .. Len(p.submissions) :
           p.submissions[i].number \in Nat /\ p.submissions[i].scopes \in Nat
      /\ \A g \in 1 .. Len(p.groups) : p.groups[g].number \in Nat
  BY ProbeNumbers DEF Recounted
<1>2. /\ ~p.alignment_error /\ ~p.group_overflow /\ p.period # 0
      /\ \A f : IsSampled(q, f) = IsSampled(p, f)
  BY DEF Kept, IsSampled
<1>3. /\ \A g, h \in DOMAIN p.groups : g < h => p.groups[g].number <= p.groups[h].number
      /\ \A g \in DOMAIN p.groups :
           /\ p.groups[g].operations = 1
           /\ \E i \in DOMAIN p.submissions : /\ p.submissions[i].number = p.groups[g].number
                                              /\ p.submissions[i].frame = p.groups[g].frame
                                              /\ IsSampled(p, p.submissions[i].frame)
      /\ \A i \in DOMAIN p.submissions :
           IsSampled(p, p.submissions[i].frame) =>
             Cardinality(GroupsWith(p, p.submissions[i].number)) = p.submissions[i].scopes
  BY <1>2 DEF Tracks, GroupsAreScopes
<1>4. ASSUME NEW i \in 1 .. Len(p.submissions)
      PROVE  /\ q.submissions[i].number = p.submissions[i].number
             /\ q.submissions[i].frame = p.submissions[i].frame
             /\ q.submissions[i].scopes = IF i = p.current THEN p.submissions[i].scopes + 1
                                          ELSE p.submissions[i].scopes
  BY DEF Recounted
<1>5. p.grouped <=> IsSampled(p, r.frame)
  BY <1>2, CurrentIsObserved
<1>6. CASE (~p.grouped \/ p.truncated) /\ q.groups = p.groups
  <2>1. ~p.grouped
    BY <1>2, <1>6 DEF Tracks, Clock
  <2>2. \A number : GroupsWith(q, number) = GroupsWith(p, number)
    BY <1>6 DEF GroupsWith
  <2>3. ASSUME NEW i \in 1 .. Len(p.submissions), IsSampled(q, q.submissions[i].frame)
        PROVE  Cardinality(GroupsWith(q, q.submissions[i].number)) = q.submissions[i].scopes
    <3>1. IsSampled(p, p.submissions[i].frame)
      BY <1>2, <1>4, <2>3
    <3>2. i # p.current
      BY <1>5, <2>1, <3>1
    <3>3. Cardinality(GroupsWith(p, p.submissions[i].number)) = p.submissions[i].scopes
      BY <1>1, <1>3, <3>1
    <3> QED BY <1>4, <2>2, <3>2, <3>3
  <2>4. ASSUME NEW g \in DOMAIN q.groups
        PROVE  /\ q.groups[g].operations = 1
               /\ \E i \in DOMAIN q.submissions : /\ q.submissions[i].number = q.groups[g].number
                                                  /\ q.submissions[i].frame = q.groups[g].frame
                                                  /\ IsSampled(q, q.submissions[i].frame)
    <3>1. q.groups[g].operations = 1
      BY <1>3, <1>6
    <3>2. PICK i \in DOMAIN p.submissions : /\ p.submissions[i].number = p.groups[g].number
                                            /\ p.submissions[i].frame = p.groups[g].frame
                                            /\ IsSampled(p, p.submissions[i].frame)
      BY <1>3, <1>6
    <3>3. /\ i \in DOMAIN q.submissions
          /\ q.submissions[i].number = p.submissions[i].number
          /\ q.submissions[i].frame = p.submissions[i].frame
      BY <1>1, <1>4
    <3> QED BY <1>2, <1>6, <3>1, <3>2, <3>3
  <2> QED BY <1>1, <1>3, <1>6, <2>3, <2>4 DEF GroupsAreScopes
<1>7. CASE /\ p.grouped
           /\ Len(q.groups) = Len(p.groups) + 1
           /\ \A h \in 1 .. Len(p.groups) : q.groups[h] = p.groups[h]
           /\ q.groups[Len(p.groups) + 1].number = p.submissions[p.current].number
           /\ q.groups[Len(p.groups) + 1].frame = p.submissions[p.current].frame
           /\ q.groups[Len(p.groups) + 1].operations = 1
  <2>1. /\ DOMAIN q.groups = 1 .. last
        /\ \A g \in 1 .. last : g = last \/ g \in 1 .. Len(p.groups)
        /\ last \in 1 .. last /\ last \notin 1 .. Len(p.groups)
        /\ \A g \in 1 .. Len(p.groups) : g \in 1 .. last
    BY <1>1, <1>7
  <2>2. r.number \in Nat /\ IsSampled(p, r.frame)
    BY <1>1, <1>5, <1>7
  <2>3. ASSUME NEW i \in 1 .. Len(p.submissions)
        PROVE  p.submissions[i].number <= r.number /\ (i # p.current => p.submissions[i].number # r.number)
    <3>1. Ordered(p, c, done) /\ CurrentIsOpen(p, c) /\ c.next \in Nat
      BY WorkNumbers DEF Tracks
    <3>2. r.number = c.next
      BY <3>1 DEF CurrentIsOpen
    <3>3. i # p.current => p.submissions[i].number < c.next
      BY <1>1, <3>1 DEF Ordered
    <3> QED BY <1>1, <3>1, <3>2, <3>3
  <2>4. ASSUME NEW g \in 1 .. Len(p.groups)
        PROVE  p.groups[g].number <= r.number
    <3>1. PICK i \in DOMAIN p.submissions : p.submissions[i].number = p.groups[g].number
      BY <1>1, <1>3
    <3> QED BY <1>1, <2>3, <3>1
  <2>5. ASSUME NEW g \in 1 .. last, NEW h \in 1 .. last, g < h
        PROVE  q.groups[g].number <= q.groups[h].number
    <3>1. g \in 1 .. Len(p.groups)
      BY <1>1, <2>5
    <3>2. CASE h = last
      BY <1>7, <2>4, <3>1, <3>2
    <3>3. CASE h \in 1 .. Len(p.groups)
      BY <1>1, <1>3, <1>7, <2>5, <3>1, <3>3
    <3> QED BY <2>1, <3>2, <3>3
  <2>6. ASSUME NEW g \in 1 .. last
        PROVE  /\ q.groups[g].operations = 1
               /\ \E i \in DOMAIN q.submissions : /\ q.submissions[i].number = q.groups[g].number
                                                  /\ q.submissions[i].frame = q.groups[g].frame
                                                  /\ IsSampled(q, q.submissions[i].frame)
    <3>1. CASE g = last
      <4>1. /\ p.current \in DOMAIN q.submissions
            /\ q.submissions[p.current].number = r.number
            /\ q.submissions[p.current].frame = r.frame
        BY <1>1, <1>4
      <4> QED BY <1>2, <1>7, <2>2, <3>1, <4>1
    <3>2. CASE g \in 1 .. Len(p.groups)
      <4>1. p.groups[g].operations = 1 /\ q.groups[g] = p.groups[g]
        BY <1>1, <1>3, <1>7, <3>2
      <4>2. PICK i \in DOMAIN p.submissions : /\ p.submissions[i].number = p.groups[g].number
                                              /\ p.submissions[i].frame = p.groups[g].frame
                                              /\ IsSampled(p, p.submissions[i].frame)
        BY <1>1, <1>3, <3>2
      <4>3. /\ i \in DOMAIN q.submissions
            /\ q.submissions[i].number = p.submissions[i].number
            /\ q.submissions[i].frame = p.submissions[i].frame
        BY <1>1, <1>4
      <4> QED BY <1>2, <4>1, <4>2, <4>3
    <3> QED BY <2>1, <3>1, <3>2
  <2>7. ASSUME NEW i \in 1 .. Len(p.submissions), IsSampled(q, q.submissions[i].frame)
        PROVE  Cardinality(GroupsWith(q, q.submissions[i].number)) = q.submissions[i].scopes
    <3>1. IsSampled(p, p.submissions[i].frame)
      BY <1>2, <1>4, <2>7
    <3>2. Cardinality(GroupsWith(p, p.submissions[i].number)) = p.submissions[i].scopes
      BY <1>1, <1>3, <3>1
    <3>3. CASE i # p.current
      <4>1. p.submissions[i].number # r.number
        BY <2>3, <3>3
      <4>2. GroupsWith(q, p.submissions[i].number) = GroupsWith(p, p.submissions[i].number)
        BY <1>1, <1>7, <2>1, <4>1 DEF GroupsWith
      <4> QED BY <1>4, <3>2, <3>3, <4>2
    <3>4. CASE i = p.current
      <4>1. GroupsWith(q, r.number) = GroupsWith(p, r.number) \cup {last}
        BY <1>1, <1>7, <2>1 DEF GroupsWith
      <4>2. last \notin GroupsWith(p, r.number)
        BY <1>1, <2>1 DEF GroupsWith
      <4>3. IsFiniteSet(GroupsWith(p, r.number))
        <5>1. IsFiniteSet(1 .. Len(p.groups))
          BY <1>1, FS_Interval
        <5>2. GroupsWith(p, r.number) \subseteq 1 .. Len(p.groups)
          BY <1>1 DEF GroupsWith
        <5> QED BY <5>1, <5>2, FS_Subset
      <4>4. Cardinality(GroupsWith(q, r.number)) = Cardinality(GroupsWith(p, r.number)) + 1
        BY <4>1, <4>2, <4>3, FS_AddElement
      <4> QED BY <1>1, <1>4, <3>2, <3>4, <4>4
    <3> QED BY <3>3, <3>4
  <2> QED BY <1>1, <2>1, <2>5, <2>6, <2>7 DEF GroupsAreScopes
<1> QED BY <1>2, <1>6, <1>7

LEMMA LeafTracks ==
  ASSUME NEW p, ProbeIsSound(p), NEW c \in Commands, NEW d \in Commands, NEW done,
         Tracks(p, c, done), p.current # 0, d.next = c.next, d.open = c.open,
         d.frame = c.frame, d.dumps - d.frame_dumps = c.dumps - c.frame_dumps,
         d.work.number = c.work.number, d.work.frame = c.work.frame,
         d.work.operations = c.work.operations + 1, d.work.scopes = c.work.scopes + 1
  PROVE  Tracks(Budget!LeaveScope(Budget!CountOperation(Budget!EnterScope(p))), d, done)
<1> DEFINE e == Budget!EnterScope(p)
           n == Budget!CountOperation(e)
           q == Budget!LeaveScope(n)
           r == p.submissions[p.current]
           last == Len(p.groups) + 1
<1>1. ProbeIsSound(q)
  <2>1. ProbeIsSound(e)
    BY EnteredIsSound
  <2> HIDE DEF e
  <2>2. ProbeIsSound(n)
    BY <2>1, CountedIsSound
  <2> HIDE DEF n
  <2> QED BY <2>2, LeftIsSound
<1>2. ~p.scope /\ p.group = 0 /\ (p.truncated => p.group_overflow)
  BY DEF Tracks, Clock
<1>3. /\ Kept(p, q) /\ Recounted(p, q, 1, 1) /\ q.scope = FALSE /\ q.group = 0
      /\ \/ /\ ~p.grouped \/ p.truncated
            /\ q.groups = p.groups /\ q.truncated = p.truncated
            /\ q.group_overflow = p.group_overflow
         \/ /\ p.grouped /\ q.groups = p.groups /\ q.group_overflow = TRUE
         \/ /\ p.grouped /\ ~p.truncated
            /\ q.truncated = p.truncated /\ q.group_overflow = p.group_overflow
            /\ Len(q.groups) = last
            /\ \A h \in 1 .. Len(p.groups) : q.groups[h] = p.groups[h]
            /\ q.groups[last].number = r.number /\ q.groups[last].frame = r.frame
            /\ q.groups[last].operations = 1
  BY <1>2, LeafFields
<1> HIDE DEF q
<1>4. GroupsAreScopes(q)
  BY <1>1, <1>3, LeafGroups
<1>5. q.truncated => q.group_overflow
  BY <1>2, <1>3
<1>6. q.groups = <<>> \/ p.first # 0
  <2>1. p.submissions # <<>>
    <3>1. p.current \in 1 .. Len(p.submissions)
      BY ProbeNumbers
    <3> QED BY <3>1
  <2> QED BY <2>1 DEF Tracks, Clock
<1>7. Tracks(q, d, done)
  BY <1>1, <1>3, <1>4, <1>5, <1>6, RecountedTracks
<1> QED BY <1>7 DEF q

(* What the submission was is what its record says, and it is behind what    *)
(* was done before.                                                         *)
Executed(work, closes, dumps) ==
  [number |-> work.number, frame |-> work.frame, operations |-> work.operations,
   scopes |-> work.scopes, closes |-> closes, dumps |-> IF closes THEN dumps ELSE 0]

LEMMA SubmittedTracks ==
  ASSUME NEW p, ProbeIsSound(p), NEW c \in Commands, NEW d \in Commands, NEW done,
         Tracks(p, c, done), c.open, NEW closes \in BOOLEAN, closes => p.observed = c.frame,
         ~d.open, d.next = c.next + 1, d.dumps = c.dumps,
         closes => d.frame = c.frame + 1 /\ d.frame_dumps = 0,
         ~closes => d.frame = c.frame /\ d.frame_dumps = c.frame_dumps
  PROVE  Tracks(Budget!EndProbe(p, closes, c.dumps), d,
                IF p.first = 0 THEN done
                ELSE Append(done, Executed(c.work, closes, c.frame_dumps)))
<1> DEFINE q == Budget!EndProbe(p, closes, c.dumps)
           e == Executed(c.work, closes, c.frame_dumps)
           last == Len(done) + 1
           more == IF p.first = 0 THEN done ELSE Append(done, e)
<1>1. /\ done \in Seq(Execution)
      /\ Clock(p, c, done) /\ Ordered(p, c, done) /\ CurrentIsOpen(p, c)
      /\ RecordsAreDone(p, done) /\ DoneIsRecorded(p, c, done)
      /\ FramesAreClosed(p, c, done) /\ GroupsAreScopes(p)
  BY DEF Tracks
<1>2. /\ c.frame \in Nat /\ c.next \in Nat /\ c.dumps \in Nat /\ c.frame_dumps \in Nat
      /\ c.work.number \in Nat /\ c.work.frame \in Nat
      /\ c.work.operations \in Nat /\ c.work.scopes \in Nat
  BY WorkNumbers
<1>3. /\ p.observed \in Int /\ p.first \in Nat /\ p.count \in Nat /\ p.previous \in Nat
      /\ p.current \in Nat /\ (p.current # 0 => p.current \in 1 .. Len(p.submissions))
      /\ Len(p.submissions) \in Nat /\ DOMAIN p.submissions = 1 .. Len(p.submissions)
      /\ \A i \in 1 .. Len(p.submissions) :
           p.submissions[i].number \in Nat /\ p.submissions[i].frame \in Nat
  BY ProbeNumbers
<1>4. /\ Len(done) \in Nat /\ DOMAIN done = 1 .. Len(done)
      /\ \A k \in 1 .. Len(done) :
           done[k].number \in Nat /\ done[k].frame \in Nat /\ done[k].closes \in BOOLEAN
  BY <1>1, DoneNumbers
<1>5. /\ ~p.scope /\ p.group = 0 /\ p.closes = 0 /\ p.observed # -1
      /\ c.work.number = c.next /\ c.work.frame <= p.observed
      /\ c.dumps - p.previous = c.frame_dumps
  <2>1. /\ ~p.scope /\ p.group = 0 /\ p.closes \in {0, 1} /\ p.closes # 1 /\ p.observed # -1
        /\ c.work.number = c.next /\ c.work.frame <= p.observed
        /\ c.dumps = p.previous + c.frame_dumps
    BY <1>1 DEF Clock
  <2>2. c.dumps - p.previous = c.frame_dumps
    BY <1>2, <1>3, <2>1
  <2> QED BY <2>1, <2>2
<1>0. EndedAs(p, q, closes, c.dumps)
  BY <1>2, <1>5, EndedFields
<1> HIDE DEF q
<1>6. /\ q.count = p.count /\ q.period = p.period /\ q.first = p.first
      /\ q.observed = p.observed /\ q.selected = p.selected /\ q.grouped = p.grouped
      /\ q.truncated = p.truncated
      /\ q.submission_overflow = p.submission_overflow
      /\ q.group_overflow = p.group_overflow /\ q.groups = p.groups
      /\ q.current = 0 /\ q.group = 0 /\ ~q.scope
      /\ q.closes = IF closes THEN p.closes + 1 ELSE p.closes
      /\ q.previous = IF closes THEN c.dumps ELSE p.previous
      /\ ~q.alignment_error => ~p.alignment_error
      /\ Len(q.submissions) = Len(p.submissions)
      /\ \A i \in 1 .. Len(p.submissions) :
           LET s == p.submissions[i]
               t == q.submissions[i]
           IN /\ t.number = s.number /\ t.frame = s.frame
              /\ t.operations = s.operations /\ t.scopes = s.scopes
              /\ i # p.current => t.closes = s.closes /\ t.dumps = s.dumps
              /\ i = p.current => /\ t.closes = closes
                                  /\ t.dumps = IF closes THEN c.dumps - p.previous ELSE 0
  BY <1>0 DEF EndedAs
<1>7. ProbeIsSound(q)
  BY <1>2, EndedProbeIsSound DEF q
<1>8. DOMAIN q.submissions = 1 .. Len(p.submissions)
  BY <1>6, <1>7, ProbeNumbers
<1>9. /\ e \in Execution /\ e.number = c.next /\ e.frame = c.work.frame
      /\ e.closes = closes
      /\ Budget!WorkOf(e) = <<c.next, c.work.frame, closes, c.work.operations, c.work.scopes,
                              IF closes THEN c.frame_dumps ELSE 0>>
  BY <1>2, <1>5 DEF Executed, Execution, Budget!WorkOf
<1> HIDE DEF e
<1>10. ASSUME NEW i \in 1 .. Len(p.submissions)
       PROVE  /\ q.submissions[i].number = p.submissions[i].number
              /\ q.submissions[i].frame = p.submissions[i].frame
              /\ q.submissions[i].scopes = p.submissions[i].scopes
              /\ i # p.current => Budget!WorkOf(q.submissions[i]) = Budget!WorkOf(p.submissions[i])
              /\ i = p.current => Budget!WorkOf(q.submissions[i]) = Budget!WorkOf(e)
  <2>1. /\ q.submissions[i].number = p.submissions[i].number
        /\ q.submissions[i].frame = p.submissions[i].frame
        /\ q.submissions[i].operations = p.submissions[i].operations
        /\ q.submissions[i].scopes = p.submissions[i].scopes
    BY <1>6
  <2>2. i # p.current => Budget!WorkOf(q.submissions[i]) = Budget!WorkOf(p.submissions[i])
    BY <1>6, <2>1 DEF Budget!WorkOf
  <2>3. ASSUME i = p.current PROVE Budget!WorkOf(q.submissions[i]) = Budget!WorkOf(e)
    <3>1. p.current # 0
      BY <1>3, <2>3
    <3>2. /\ p.submissions[i].number = c.next /\ p.submissions[i].frame = c.work.frame
          /\ p.submissions[i].operations = c.work.operations
          /\ p.submissions[i].scopes = c.work.scopes
      BY <1>1, <2>3, <3>1 DEF CurrentIsOpen
    <3>3. /\ q.submissions[i].closes = closes
          /\ q.submissions[i].dumps = IF closes THEN c.frame_dumps ELSE 0
      BY <1>5, <1>6, <2>3
    <3> QED BY <1>9, <2>1, <3>2, <3>3 DEF Budget!WorkOf
  <2> QED BY <2>1, <2>2, <2>3
<1>11. p.first # 0 => /\ more \in Seq(Execution) /\ Len(more) = last /\ more[last] = e
                      /\ \A k \in 1 .. Len(done) : more[k] = done[k]
                      /\ DOMAIN more = 1 .. last
  <2> SUFFICES ASSUME p.first # 0
               PROVE  LET a == Append(done, e)
                      IN /\ a \in Seq(Execution) /\ Len(a) = last /\ a[last] = e
                         /\ \A k \in 1 .. Len(done) : a[k] = done[k]
                         /\ DOMAIN a = 1 .. last
    OBVIOUS
  <2> DEFINE a == Append(done, e)
  <2>1. /\ a \in Seq(Execution) /\ Len(a) = last /\ a[last] = e
        /\ \A k \in 1 .. Len(done) : a[k] = done[k]
    BY <1>1, <1>4, <1>9, AppendProperties
  <2> HIDE DEF a
  <2>2. DOMAIN a = 1 .. last
    BY <2>1
  <2> QED BY <2>1, <2>2 DEF a
<1>12. p.first = 0 => more = done /\ done = <<>> /\ p.submissions = <<>> /\ p.groups = <<>>
  BY <1>1 DEF Clock
<1> HIDE DEF more
<1>13. /\ last \in 1 .. last /\ last \notin 1 .. Len(done)
       /\ \A k \in 1 .. last : k = last \/ k \in 1 .. Len(done)
       /\ \A k \in 1 .. Len(done) : k \in 1 .. last /\ k < last
  BY <1>4
<1>14. \A f : (InWindow(q, f) <=> InWindow(p, f)) /\ IsSampled(q, f) = IsSampled(p, f)
  BY <1>6 DEF InWindow, IsSampled
<1>15. more \in Seq(Execution)
  BY <1>1, <1>11, <1>12
<1>16. Clock(q, d, more)
  <2>1. q.first = 0 => more = <<>> /\ q.submissions = <<>> /\ q.groups = <<>>
    <3>1. p.first = 0 => Len(q.submissions) = 0 /\ q.submissions \in Seq(Submission)
      <4>1. p.first = 0 => Len(p.submissions) = 0
        BY <1>12
      <4> QED BY <1>6, <1>7, <4>1, ProbeFields
    <3>2. p.first = 0 => q.submissions = <<>>
      BY <3>1
    <3> QED BY <1>6, <1>12, <3>2
  <2>2. q.closes \in {0, 1} /\ (q.closes = 1 => p.observed < d.frame)
    <3>1. c.frame \in Nat /\ p.closes = 0
      BY <1>2, <1>5
    <3>2. CASE closes
      <4>1. q.closes = p.closes + 1 /\ d.frame = c.frame + 1 /\ p.observed = c.frame
        BY <1>6, <3>2, Zenon
      <4> QED BY <3>1, <4>1
    <3>3. CASE ~closes
      <4>1. q.closes = p.closes
        BY <1>6, <3>3, Zenon
      <4> QED BY <3>1, <4>1
    <3> QED BY <3>2, <3>3
  <2>3. p.observed <= d.frame /\ d.frame >= 1
    <3>1. p.observed <= c.frame /\ c.frame >= 1
      BY <1>1, Zenon DEF Clock
    <3>2. d.frame = c.frame \/ d.frame = c.frame + 1
      BY Zenon
    <3>3. c.frame \in Nat /\ p.observed \in Int
      BY <1>2, <1>3
    <3> QED BY <3>1, <3>2, <3>3
  <2>4. d.dumps = q.previous + d.frame_dumps
    <3>1. /\ c.dumps \in Nat /\ p.previous \in Nat /\ c.frame_dumps \in Nat
          /\ c.dumps - p.previous = c.frame_dumps /\ d.dumps = c.dumps
      BY <1>2, <1>3, <1>5
    <3>2. CASE closes
      <4>1. q.previous = c.dumps /\ d.frame_dumps = 0
        BY <1>6, <3>2, Zenon
      <4> QED BY <3>1, <4>1
    <3>3. CASE ~closes
      <4>1. q.previous = p.previous /\ d.frame_dumps = c.frame_dumps
        BY <1>6, <3>3, Zenon
      <4> QED BY <3>1, <4>1
    <3> QED BY <3>2, <3>3
  <2>5. /\ q.selected <=> InWindow(q, q.observed)
        /\ q.grouped <=> q.selected /\ q.period # 0 /\ IsSampled(q, q.observed)
    BY <1>1, <1>6 DEF Clock, InWindow, IsSampled
  <2> QED BY <1>1, <1>5, <1>6, <2>1, <2>2, <2>3, <2>4, <2>5 DEF Clock
<1>17. Ordered(q, d, more)
  <2>1. Budget!InOrder(q.submissions)
    BY <1>1, <1>3, <1>8, <1>10 DEF Ordered, Budget!InOrder
  <2>2. \A i \in DOMAIN q.submissions : q.submissions[i].number < d.next
    <3> SUFFICES ASSUME NEW i \in 1 .. Len(p.submissions)
                 PROVE  p.submissions[i].number < c.next + 1
      BY <1>8, <1>10
    <3>1. CASE i = p.current
      <4>1. p.submissions[i].number = c.next
        BY <1>1, <1>3, <3>1 DEF CurrentIsOpen
      <4>2. c.next < c.next + 1
        BY <1>2
      <4> QED BY <4>1, <4>2, Zenon
    <3>2. CASE i # p.current
      <4>1. p.submissions[i].number < c.next /\ p.submissions[i].number \in Nat
        BY <1>1, <1>3, <3>2 DEF Ordered
      <4>2. c.next \in Nat
        BY <1>2
      <4> QED BY <4>1, <4>2
    <3> QED BY <3>1, <3>2
  <2>3. CASE p.first = 0
    <3>1. DOMAIN more = {}
      BY <1>12, <2>3
    <3> QED BY <2>1, <2>2, <3>1 DEF Ordered, Budget!InOrder
  <2>4. CASE p.first # 0
    <3>1. \A k \in 1 .. Len(done) : done[k].number < c.next /\ done[k].frame <= p.observed
      BY <1>1, <1>4 DEF Ordered
    <3>2. \A k \in DOMAIN more : more[k].number < d.next /\ more[k].frame <= q.observed
      <4> SUFFICES ASSUME NEW k \in 1 .. last
                   PROVE  more[k].number < c.next + 1 /\ more[k].frame <= p.observed
        BY <1>6, <1>11, <2>4
      <4>1. CASE k = last
        <5>1. more[k].number = c.next /\ more[k].frame = c.work.frame
          BY <1>9, <1>11, <2>4, <4>1
        <5>2. c.work.frame <= p.observed
          BY <1>5
        <5> QED BY <1>2, <5>1, <5>2
      <4>2. CASE k \in 1 .. Len(done)
        <5>1. more[k] = done[k]
          BY <1>11, <2>4, <4>2
        <5>2. /\ done[k].number \in Nat /\ done[k].number < c.next
              /\ done[k].frame <= p.observed
          BY <1>4, <3>1, <4>2
        <5> QED BY <1>2, <5>1, <5>2
      <4> QED BY <1>13, <4>1, <4>2
    <3>3. Budget!InOrder(more)
      <4> SUFFICES ASSUME NEW j \in 1 .. last, NEW k \in 1 .. last, j < k
                   PROVE  more[j].number < more[k].number
        BY <1>11, <2>4 DEF Budget!InOrder
      <4>1. j \in 1 .. Len(done)
        BY <1>4
      <4>2. CASE k = last
        BY <1>9, <1>11, <2>4, <3>1, <4>1, <4>2
      <4>3. CASE k \in 1 .. Len(done)
        BY <1>1, <1>4, <1>11, <2>4, <4>1, <4>3 DEF Ordered, Budget!InOrder
      <4> QED BY <1>13, <4>2, <4>3
    <3> QED BY <2>1, <2>2, <3>2, <3>3 DEF Ordered
  <2> QED BY <2>3, <2>4
<1>18. CurrentIsOpen(q, d)
  BY <1>6 DEF CurrentIsOpen
<1>19. RecordsAreDone(q, more)
  <2> SUFFICES ASSUME NEW i \in 1 .. Len(p.submissions)
               PROVE  /\ InWindow(q, q.submissions[i].frame)
                      /\ \E k \in DOMAIN more :
                           Budget!WorkOf(more[k]) = Budget!WorkOf(q.submissions[i])
    BY <1>8 DEF RecordsAreDone
  <2>1. p.first # 0
    <3>1. p.submissions # <<>>
      OBVIOUS
    <3> QED BY <1>12, <3>1
  <2>2. InWindow(q, q.submissions[i].frame)
    BY <1>1, <1>3, <1>10, <1>14 DEF RecordsAreDone
  <2>3. CASE i = p.current
    <3>1. last \in DOMAIN more /\ more[last] = e
      BY <1>11, <1>13, <2>1
    <3> QED BY <1>10, <2>2, <2>3, <3>1
  <2>4. CASE i # p.current
    <3>1. PICK k \in DOMAIN done : Budget!WorkOf(done[k]) = Budget!WorkOf(p.submissions[i])
      BY <1>1, <1>3, <2>4 DEF RecordsAreDone
    <3>2. k \in DOMAIN more /\ more[k] = done[k]
      BY <1>4, <1>11, <1>13, <2>1
    <3> QED BY <1>10, <2>2, <2>4, <3>1, <3>2
  <2> QED BY <2>3, <2>4
<1>20. DoneIsRecorded(q, d, more)
  <2> SUFFICES ASSUME ~p.submission_overflow, NEW k \in DOMAIN more, InWindow(p, more[k].frame)
               PROVE  \E i \in DOMAIN q.submissions :
                        Budget!WorkOf(q.submissions[i]) = Budget!WorkOf(more[k])
    <3>1. \A i \in DOMAIN q.submissions : i # q.current
      BY <1>3, <1>6, <1>8
    <3> QED BY <1>6, <1>14, <3>1 DEF DoneIsRecorded
  <2>1. p.first # 0
    BY DEF InWindow
  <2>2. CASE k = last
    <3>1. p.current # 0
      BY <1>1, <1>9, <1>11, <2>1, <2>2 DEF DoneIsRecorded
    <3>2. p.current \in DOMAIN q.submissions
          /\ Budget!WorkOf(q.submissions[p.current]) = Budget!WorkOf(e)
      BY <1>3, <1>8, <1>10, <3>1
    <3> QED BY <1>11, <2>1, <2>2, <3>2
  <2>3. CASE k \in 1 .. Len(done)
    <3>1. more[k] = done[k] /\ k \in DOMAIN done
      BY <1>4, <1>11, <2>1, <2>3
    <3>2. PICK i \in DOMAIN p.submissions :
            i # p.current /\ Budget!WorkOf(p.submissions[i]) = Budget!WorkOf(done[k])
      BY <1>1, <3>1 DEF DoneIsRecorded
    <3>3. i \in DOMAIN q.submissions
          /\ Budget!WorkOf(q.submissions[i]) = Budget!WorkOf(p.submissions[i])
      BY <1>3, <1>8, <1>10, <3>2
    <3> QED BY <3>1, <3>2, <3>3
  <2> QED BY <1>11, <1>13, <2>1, <2>2, <2>3
<1>21. FramesAreClosed(q, d, more)
  <2> SUFFICES ASSUME ~q.alignment_error, p.first # 0
               PROVE  FramesAreClosed(q, d, more)
    BY <1>6 DEF FramesAreClosed
  <2>1. /\ c.work.frame = p.observed \/ c.work.frame >= p.first + p.count
        /\ \A f \in p.first .. p.first + p.count - 1 :
             f < p.observed => \E k \in DOMAIN done : Closes(done, f, k)
        /\ \A k \in DOMAIN done : done[k].frame = p.observed /\ p.selected => ~done[k].closes
    BY <1>1, <1>5, <1>6 DEF FramesAreClosed
  <2>2. ASSUME NEW f \in p.first .. p.first + p.count - 1,
               f < p.observed \/ (f = p.observed /\ q.closes = 1)
        PROVE  \E k \in DOMAIN more : Closes(more, f, k)
    <3>1. CASE f < p.observed
      <4>1. PICK k \in DOMAIN done : Closes(done, f, k)
        BY <2>1, <3>1
      <4>2. e.frame # f
        <5>1. e.frame = p.observed \/ e.frame >= p.first + p.count
          BY <1>9, <2>1
        <5>2. p.first \in Nat /\ p.count \in Nat /\ p.observed \in Int
          BY <1>3
        <5> QED BY <3>1, <5>1, <5>2
      <4>3. k \in DOMAIN more /\ more[k].frame = f
        BY <1>4, <1>11, <1>13, <4>1 DEF Closes
      <4>4. ASSUME NEW j \in DOMAIN more, more[j].frame = f
            PROVE  j <= k /\ (more[j].closes <=> j = k)
        <5>1. j \in 1 .. Len(done) /\ more[j] = done[j]
          BY <1>11, <1>13, <4>2, <4>4
        <5> QED BY <1>4, <4>1, <4>4, <5>1 DEF Closes
      <4> QED BY <4>3, <4>4 DEF Closes
    <3>2. CASE f = p.observed /\ q.closes = 1
      <4>1. closes /\ c.work.frame = p.observed /\ p.selected
        <5>1. closes
          BY <1>5, <1>6, <3>2
        <5>2. c.work.frame = p.observed
          <6>1. c.work.frame = p.observed \/ c.work.frame >= p.first + p.count
            BY <2>1
          <6>2. c.work.frame <= p.observed /\ p.observed < p.first + p.count
            BY <1>3, <1>5, <3>2
          <6>3. /\ c.work.frame \in Nat /\ p.observed \in Int
                /\ p.first \in Nat /\ p.count \in Nat
            BY <1>2, <1>3
          <6> QED BY <6>1, <6>2, <6>3
        <5>3. p.selected
          BY <1>1, <1>3, <2>2, <3>2 DEF Clock, InWindow
        <5> QED BY <5>1, <5>2, <5>3
      <4>2. last \in DOMAIN more /\ more[last].frame = f /\ more[last].closes
        BY <1>9, <1>11, <1>13, <3>2, <4>1
      <4>3. ASSUME NEW j \in DOMAIN more, more[j].frame = f
            PROVE  j <= last /\ (more[j].closes <=> j = last)
        <5>1. CASE j = last
          BY <1>4, <4>2, <5>1
        <5>2. CASE j \in 1 .. Len(done)
          <6>1. more[j] = done[j] /\ j <= last /\ j # last
            BY <1>4, <1>11, <5>2
          <6>2. ~done[j].closes
            BY <1>4, <2>1, <3>2, <4>1, <4>3, <5>2, <6>1
          <6> QED BY <6>1, <6>2
        <5> QED BY <1>11, <1>13, <5>1, <5>2
      <4> QED BY <4>2, <4>3 DEF Closes
    <3> QED BY <2>2, <3>1, <3>2
  <2>3. ASSUME q.closes = 0, NEW k \in DOMAIN more, more[k].frame = p.observed, p.selected
        PROVE  ~more[k].closes
    <3>1. ~closes
      BY <1>5, <1>6, <2>3
    <3>2. CASE k = last
      BY <1>9, <1>11, <3>1, <3>2
    <3>3. CASE k \in 1 .. Len(done)
      BY <1>4, <1>11, <2>1, <2>3, <3>3
    <3> QED BY <1>11, <1>13, <3>2, <3>3
  <2> QED BY <1>6, <2>2, <2>3 DEF FramesAreClosed
<1>22. GroupsAreScopes(q)
  <2>1. \A number : GroupsWith(q, number) = GroupsWith(p, number)
    BY <1>6 DEF GroupsWith
  <2> SUFFICES ASSUME ~q.alignment_error, ~q.group_overflow, q.period # 0
               PROVE  GroupsAreScopes(q)
    BY DEF GroupsAreScopes
  <2>2. /\ \A g, h \in DOMAIN p.groups : g < h => p.groups[g].number <= p.groups[h].number
        /\ \A g \in DOMAIN p.groups :
             /\ p.groups[g].operations = 1
             /\ \E i \in DOMAIN p.submissions : /\ p.submissions[i].number = p.groups[g].number
                                                /\ p.submissions[i].frame = p.groups[g].frame
                                                /\ IsSampled(p, p.submissions[i].frame)
        /\ \A i \in DOMAIN p.submissions :
             IsSampled(p, p.submissions[i].frame) =>
               Cardinality(GroupsWith(p, p.submissions[i].number)) = p.submissions[i].scopes
    BY <1>1, <1>6 DEF GroupsAreScopes
  <2>3. ASSUME NEW g \in DOMAIN q.groups
        PROVE  /\ q.groups[g].operations = 1
               /\ \E i \in DOMAIN q.submissions : /\ q.submissions[i].number = q.groups[g].number
                                                  /\ q.submissions[i].frame = q.groups[g].frame
                                                  /\ IsSampled(q, q.submissions[i].frame)
    <3>1. PICK i \in DOMAIN p.submissions : /\ p.submissions[i].number = p.groups[g].number
                                            /\ p.submissions[i].frame = p.groups[g].frame
                                            /\ IsSampled(p, p.submissions[i].frame)
      BY <1>6, <2>2
    <3>2. /\ i \in DOMAIN q.submissions
          /\ q.submissions[i].number = p.submissions[i].number
          /\ q.submissions[i].frame = p.submissions[i].frame
      BY <1>3, <1>8, <1>10
    <3> QED BY <1>6, <1>14, <2>2, <3>1, <3>2
  <2>4. ASSUME NEW i \in 1 .. Len(p.submissions), IsSampled(q, q.submissions[i].frame)
        PROVE  Cardinality(GroupsWith(q, q.submissions[i].number)) = q.submissions[i].scopes
    <3>1. IsSampled(p, p.submissions[i].frame)
      BY <1>10, <1>14, <2>4
    <3> QED BY <1>3, <1>10, <2>1, <2>2, <3>1
  <2> QED BY <1>6, <1>8, <2>2, <2>3, <2>4 DEF GroupsAreScopes
<1> QED BY <1>15, <1>16, <1>17, <1>18, <1>19, <1>20, <1>21, <1>22 DEF Tracks, q, e, more

LEMMA ResultsAreStated ==
  /\ Budget!ValidIsWhole <=> (published.valid => Whole(probe, executed, passed))
  /\ Budget!CompleteIsAttributed <=> (published.complete => Attributed(probe, executed))
<1>1. Budget!ValidIsWhole <=> (published.valid => Whole(probe, executed, passed))
  BY Zenon DEF Budget!ValidIsWhole, Whole, MeasuredBy, Budget!Measured, Budget!Window
<1>2. Budget!CompleteIsAttributed <=> (published.complete => Attributed(probe, executed))
  <2> DEFINE sampled == {k \in MeasuredBy(probe, executed) : IsSampled(probe, executed[k].frame)}
  <2>0. ASSUME NEW S PROVE Budget!Cardinality(S) = Cardinality(S)
    BY DEF Budget!Cardinality, Cardinality
  <2>1. sampled = Budget!Sampled
    BY DEF MeasuredBy, IsSampled, Budget!Sampled, Budget!Measured, Budget!Window
  <2>2. \A number : GroupsWith(probe, number) = Budget!GroupsOf(number)
    BY DEF GroupsWith, Budget!GroupsOf
  <2> HIDE DEF sampled
  <2>3. (\A k \in sampled :
           Cardinality(GroupsWith(probe, executed[k].number)) = executed[k].scopes)
        <=> (\A k \in Budget!Sampled :
               Cardinality(Budget!GroupsOf(executed[k].number)) = executed[k].scopes)
    BY <2>1, <2>2
  <2>4. ASSUME NEW g \in DOMAIN probe.groups
        PROVE  (\E k \in sampled : /\ executed[k].number = probe.groups[g].number
                                    /\ executed[k].frame = probe.groups[g].frame)
               <=> (\E k \in Budget!Sampled : /\ executed[k].number = probe.groups[g].number
                                              /\ executed[k].frame = probe.groups[g].frame)
    BY <2>1
  <2>5. Attributed(probe, executed)
          <=> /\ \A g, h \in DOMAIN probe.groups :
                   g < h => probe.groups[g].number <= probe.groups[h].number
              /\ \A g \in DOMAIN probe.groups :
                   /\ probe.groups[g].operations = 1
                   /\ \E k \in sampled : /\ executed[k].number = probe.groups[g].number
                                         /\ executed[k].frame = probe.groups[g].frame
              /\ \A k \in sampled :
                   Cardinality(GroupsWith(probe, executed[k].number)) = executed[k].scopes
    BY Zenon DEF Attributed, sampled
  <2>6. (\A g \in DOMAIN probe.groups :
           /\ probe.groups[g].operations = 1
           /\ \E k \in sampled : /\ executed[k].number = probe.groups[g].number
                                 /\ executed[k].frame = probe.groups[g].frame)
        <=> (\A g \in DOMAIN probe.groups :
               /\ probe.groups[g].operations = 1
               /\ \E k \in Budget!Sampled : /\ executed[k].number = probe.groups[g].number
                                            /\ executed[k].frame = probe.groups[g].frame)
    BY <2>4, Zenon
  <2>7. Budget!CompleteIsAttributed
          <=> (published.complete =>
                 /\ \A g, h \in DOMAIN probe.groups :
                      g < h => probe.groups[g].number <= probe.groups[h].number
                 /\ \A g \in DOMAIN probe.groups :
                      /\ probe.groups[g].operations = 1
                      /\ \E k \in Budget!Sampled : /\ executed[k].number = probe.groups[g].number
                                                   /\ executed[k].frame = probe.groups[g].frame
                 /\ \A k \in Budget!Sampled :
                      Cardinality(Budget!GroupsOf(executed[k].number)) = executed[k].scopes)
    BY <2>0, Zenon DEF Budget!CompleteIsAttributed
  <2> QED BY <2>3, <2>5, <2>6, <2>7, Zenon
<1> QED BY <1>1, <1>2

(* A capture that is ended and calls itself valid is whole.                  *)
LEMMA ValidTracks ==
  ASSUME NEW p, ProbeIsSound(p), NEW c \in Commands, NEW done, Tracks(p, c, done), ~c.open,
         NEW idle, NEW completed \in Int, NEW outcome,
         Budget!Valid(p, idle, completed, outcome)
  PROVE  /\ completed # Budget!Removed /\ idle /\ Whole(p, done, completed)
         /\ p.period # 0 /\ ~p.group_overflow => Attributed(p, done)
<1> DEFINE measured == MeasuredBy(p, done)
<1>1. /\ done \in Seq(Execution)
      /\ Clock(p, c, done) /\ Ordered(p, c, done) /\ CurrentIsOpen(p, c)
      /\ RecordsAreDone(p, done) /\ DoneIsRecorded(p, c, done)
      /\ FramesAreClosed(p, c, done) /\ GroupsAreScopes(p)
  BY DEF Tracks
<1>2. /\ idle /\ completed # Budget!Removed /\ completed >= p.last
      /\ p.first # 0 /\ p.observed >= p.first + p.count
      /\ ~p.submission_overflow /\ ~p.alignment_error
  BY DEF Budget!Valid, Budget!CompletionProven, Budget!CaptureEnded
<1>3. /\ p.observed \in Int /\ p.first \in Nat /\ p.count \in Nat
      /\ DOMAIN p.submissions = 1 .. Len(p.submissions)
      /\ \A i \in 1 .. Len(p.submissions) :
           p.submissions[i].number \in Nat /\ p.submissions[i].frame \in Nat
      /\ p.last \in Nat
      /\ \A i \in 1 .. Len(p.submissions) : p.submissions[i].number <= p.last
  BY ProbeNumbers, ProbeFields DEF ProbeIsSound
<1>4. /\ Len(done) \in Nat /\ DOMAIN done = 1 .. Len(done)
      /\ \A k \in 1 .. Len(done) : done[k].frame \in Nat /\ done[k].closes \in BOOLEAN
  BY <1>1, DoneNumbers
<1>5. p.current = 0
  BY <1>1 DEF CurrentIsOpen
<1>6. \A i \in DOMAIN p.submissions : i # p.current
  BY <1>3, <1>5
<1>7. ASSUME NEW k \in DOMAIN done
      PROVE  k \in measured <=> InWindow(p, done[k].frame)
  BY <1>2, <1>3, <1>4 DEF MeasuredBy, InWindow
<1>8. ASSUME NEW s, NEW t, Budget!WorkOf(s) = Budget!WorkOf(t)
      PROVE  s.number = t.number /\ s.frame = t.frame /\ s.scopes = t.scopes
  BY <1>8 DEF Budget!WorkOf
<1>9. ASSUME NEW i \in DOMAIN p.submissions
      PROVE  \E k \in measured : Budget!WorkOf(done[k]) = Budget!WorkOf(p.submissions[i])
  <2>1. PICK k \in DOMAIN done : Budget!WorkOf(done[k]) = Budget!WorkOf(p.submissions[i])
    BY <1>1, <1>6 DEF RecordsAreDone
  <2>2. InWindow(p, p.submissions[i].frame)
    BY <1>1 DEF RecordsAreDone
  <2>3. done[k].frame = p.submissions[i].frame
    BY <1>8, <2>1
  <2> QED BY <1>7, <2>1, <2>2, <2>3
<1>10. ASSUME NEW k \in measured
       PROVE  \E i \in DOMAIN p.submissions :
                Budget!WorkOf(p.submissions[i]) = Budget!WorkOf(done[k])
  <2>1. k \in DOMAIN done
    BY DEF MeasuredBy
  <2>2. InWindow(p, done[k].frame)
    BY <1>7, <2>1
  <2> QED BY <1>1, <1>2, <2>1, <2>2 DEF DoneIsRecorded
<1>11. Whole(p, done, completed)
  <2>1. Budget!InOrder(p.submissions) /\ Budget!InOrder(done)
    BY <1>1 DEF Ordered
  <2>2. {Budget!WorkOf(p.submissions[i]) : i \in DOMAIN p.submissions}
          = {Budget!WorkOf(done[k]) : k \in measured}
    <3> HIDE DEF measured
    <3> QED BY <1>9, <1>10
  <2>3. ASSUME NEW f \in p.first .. p.first + p.count - 1
        PROVE  \E k \in measured :
                 /\ done[k].frame = f
                 /\ \A j \in measured : done[j].frame = f => j <= k /\ (done[j].closes <=> j = k)
    <3>1. f < p.observed
      BY <1>2, <1>3
    <3>2. PICK k \in DOMAIN done : Closes(done, f, k)
      BY <1>1, <1>2, <3>1 DEF FramesAreClosed
    <3>3. k \in measured
      BY <3>2 DEF Closes, MeasuredBy
    <3>4. \A j \in measured : j \in DOMAIN done
      BY DEF MeasuredBy
    <3> HIDE DEF measured
    <3> QED BY <3>2, <3>3, <3>4 DEF Closes
  <2>4. ASSUME NEW k \in measured
        PROVE  done[k].number <= completed
    <3>1. PICK i \in DOMAIN p.submissions :
            Budget!WorkOf(p.submissions[i]) = Budget!WorkOf(done[k])
      BY <1>10
    <3>2. done[k].number = p.submissions[i].number
      BY <1>8, <3>1
    <3> QED BY <1>2, <1>3, <3>1, <3>2
  <2> QED BY <2>1, <2>2, <2>3, <2>4 DEF Whole
<1>12. ASSUME p.period # 0, ~p.group_overflow
       PROVE  Attributed(p, done)
  <2> DEFINE sampled == {k \in measured : IsSampled(p, done[k].frame)}
  <2>1. /\ \A g, h \in DOMAIN p.groups : g < h => p.groups[g].number <= p.groups[h].number
        /\ \A g \in DOMAIN p.groups :
             /\ p.groups[g].operations = 1
             /\ \E i \in DOMAIN p.submissions : /\ p.submissions[i].number = p.groups[g].number
                                                /\ p.submissions[i].frame = p.groups[g].frame
                                                /\ IsSampled(p, p.submissions[i].frame)
        /\ \A i \in DOMAIN p.submissions :
             IsSampled(p, p.submissions[i].frame) =>
               Cardinality(GroupsWith(p, p.submissions[i].number)) = p.submissions[i].scopes
    BY <1>1, <1>2, <1>12 DEF GroupsAreScopes
  <2>2. ASSUME NEW g \in DOMAIN p.groups
        PROVE  /\ p.groups[g].operations = 1
               /\ \E k \in sampled : /\ done[k].number = p.groups[g].number
                                     /\ done[k].frame = p.groups[g].frame
    <3>1. PICK i \in DOMAIN p.submissions : /\ p.submissions[i].number = p.groups[g].number
                                            /\ p.submissions[i].frame = p.groups[g].frame
                                            /\ IsSampled(p, p.submissions[i].frame)
      BY <2>1
    <3>2. PICK k \in measured : Budget!WorkOf(done[k]) = Budget!WorkOf(p.submissions[i])
      BY <1>9
    <3>3. done[k].number = p.groups[g].number /\ done[k].frame = p.groups[g].frame
          /\ IsSampled(p, done[k].frame)
      BY <1>8, <3>1, <3>2
    <3> QED BY <2>1, <3>3
  <2>3. ASSUME NEW k \in sampled
        PROVE  Cardinality(GroupsWith(p, done[k].number)) = done[k].scopes
    <3>1. PICK i \in DOMAIN p.submissions :
            Budget!WorkOf(p.submissions[i]) = Budget!WorkOf(done[k])
      BY <1>10
    <3>2. /\ p.submissions[i].number = done[k].number /\ p.submissions[i].frame = done[k].frame
          /\ p.submissions[i].scopes = done[k].scopes
      BY <1>8, <3>1
    <3> QED BY <2>1, <3>2
  <2> QED BY <2>1, <2>2, <2>3 DEF Attributed
<1> QED BY <1>2, <1>11, <1>12

(* Publication and the teardown keep what was captured.                      *)
SameCapture(p, q) ==
  /\ q.first = p.first /\ q.count = p.count /\ q.period = p.period
  /\ q.submissions = p.submissions /\ q.groups = p.groups

LEMMA FinishedKeepsCapture ==
  ASSUME NEW p, ProbeIsSound(p), NEW idle, NEW completed, NEW outcome
  PROVE  LET q == Budget!Finished(p, idle, completed, outcome)
         IN SameCapture(p, q) /\ q.finished = TRUE
<1> DEFINE proven == Budget!CompletionProven(p, idle, completed, outcome) /\ Budget!AllEnded(p)
           kept == IF proven THEN p.queries ELSE "retained"
           q == Budget!Finished(p, idle, completed, outcome)
<1>1. q = [p EXCEPT !.finished = TRUE, !.proven = proven, !.queries = kept]
  BY DEF Budget!Finished
<1>2. p \in Probes
  BY DEF ProbeIsSound
<1> HIDE DEF proven, kept, q
<1>3. SameCapture(p, q) /\ q.finished = TRUE
  BY <1>1, <1>2, ZenonT(60) DEF Probes, SameCapture
<1> QED BY <1>3 DEF q

LEMMA DestroyedKeepsCapture ==
  ASSUME NEW p, ProbeIsSound(p)
  PROVE  LET q == Budget!Destroyed(p) IN SameCapture(p, q) /\ q.finished = p.finished
<1> DEFINE kept == IF p.queries = "retained" \/ (~p.proven /\ p.submissions # <<>>)
                   THEN "retained" ELSE "released"
           q == Budget!Destroyed(p)
<1>1. q = [p EXCEPT !.queries = kept]
  BY DEF Budget!Destroyed
<1>2. p \in Probes
  BY DEF ProbeIsSound
<1> HIDE DEF kept, q
<1>3. SameCapture(p, q) /\ q.finished = p.finished
  BY <1>1, <1>2, ZenonT(60) DEF Probes, SameCapture
<1> QED BY <1>3 DEF q

LEMMA CaptureStays ==
  ASSUME NEW p, NEW q, SameCapture(p, q), NEW done
  PROVE  /\ \A reached : Whole(p, done, reached) => Whole(q, done, reached)
         /\ Attributed(p, done) => Attributed(q, done)
<1>1. MeasuredBy(q, done) = MeasuredBy(p, done)
  BY DEF SameCapture, MeasuredBy
<1>2. \A number : GroupsWith(q, number) = GroupsWith(p, number)
  BY DEF SameCapture, GroupsWith
<1>3. \A f : IsSampled(q, f) = IsSampled(p, f)
  BY DEF SameCapture, IsSampled
<1>4. ASSUME NEW reached, Whole(p, done, reached) PROVE Whole(q, done, reached)
  <2>1. /\ Budget!InOrder(q.submissions)
        /\ {Budget!WorkOf(q.submissions[i]) : i \in DOMAIN q.submissions}
             = {Budget!WorkOf(done[k]) : k \in MeasuredBy(q, done)}
    <3>1. q.submissions = p.submissions
      BY DEF SameCapture
    <3> QED BY <1>1, <1>4, <3>1 DEF Whole
  <2>2. q.first .. q.first + q.count - 1 = p.first .. p.first + p.count - 1
    BY DEF SameCapture
  <2>3. ASSUME NEW f \in q.first .. q.first + q.count - 1
        PROVE  \E k \in MeasuredBy(q, done) :
                 /\ done[k].frame = f
                 /\ \A j \in MeasuredBy(q, done) :
                      done[j].frame = f => j <= k /\ (done[j].closes <=> j = k)
    <3>1. \A at \in p.first .. p.first + p.count - 1 :
            \E k \in MeasuredBy(p, done) :
              /\ done[k].frame = at
              /\ \A j \in MeasuredBy(p, done) :
                   done[j].frame = at => j <= k /\ (done[j].closes <=> j = k)
      BY <1>4, Zenon DEF Whole
    <3>2. f \in p.first .. p.first + p.count - 1
      BY <2>2, <2>3, Zenon
    <3>3. PICK k \in MeasuredBy(p, done) :
            /\ done[k].frame = f
            /\ \A j \in MeasuredBy(p, done) :
                 done[j].frame = f => j <= k /\ (done[j].closes <=> j = k)
      BY <3>1, <3>2, Zenon
    <3>4. k \in MeasuredBy(q, done) /\ \A j \in MeasuredBy(q, done) : j \in MeasuredBy(p, done)
      BY <1>1, <3>3, Zenon
    <3> QED BY <3>3, <3>4, Zenon
  <2>4. Budget!InOrder(done) /\ \A k \in MeasuredBy(q, done) : done[k].number <= reached
    BY <1>1, <1>4, Zenon DEF Whole
  <2> QED BY <2>1, <2>3, <2>4, Zenon DEF Whole
<1>5. ASSUME Attributed(p, done) PROVE Attributed(q, done)
  <2>1. {k \in MeasuredBy(q, done) : IsSampled(q, done[k].frame)}
          = {k \in MeasuredBy(p, done) : IsSampled(p, done[k].frame)}
    BY <1>1, <1>3
  <2> QED BY <1>2, <1>5, <2>1, Zenon DEF SameCapture, Attributed
<1> QED BY <1>4, <1>5

(* A step before publication.                                                *)
LEMMA TracksOn ==
  ASSUME CaptureInv, BudgetInv', ~probe.finished, UNCHANGED <<published, executed>>,
         ~commands'.lost => Tracks(probe', commands', executed')
  PROVE  CaptureInv'
BY DEF CaptureInv

(* BeginSubmission, in the frame that was observed.                          *)
LEMMA SubmissionTracks ==
  ASSUME commands \in Commands, NEW p, ProbeIsSound(p), Tracks(p, commands, executed),
         p.observed = commands.frame, NEW d \in Commands,
         d.open, d.work = Budget!Work, d.frame = commands.frame, d.next = commands.next,
         d.dumps = commands.dumps, d.frame_dumps = commands.frame_dumps
  PROVE  Tracks(Budget!BeginSubmission(p), d, executed)
<1>1. commands.frame \in Nat /\ commands.next \in Nat
  BY WorkNumbers
<1>2. CASE commands.open
  <2>1. Budget!BeginSubmission(p) = p /\ d.work = commands.work
    BY <1>2 DEF Budget!BeginSubmission, Budget!Work
  <2>2. d.open = commands.open
    BY <1>2, CommandsFields
  <2>3. d.frame >= commands.frame
    BY <1>1
  <2>4. Tracks(p, d, executed)
    BY <2>1, <2>2, <2>3, CommandsMoveOn
  <2> QED BY <2>1, <2>4
<1>3. CASE ~commands.open
  <2>1. Budget!BeginSubmission(p) = Budget!BeginProbe(p, commands.frame, commands.next)
    BY <1>3 DEF Budget!BeginSubmission
  <2>2. /\ d.work.number = commands.next /\ d.work.frame = commands.frame
        /\ d.work.operations = 0 /\ d.work.scopes = 0
    BY <1>3 DEF Budget!Work, Budget!Idle
  <2>3. Tracks(Budget!BeginProbe(p, commands.frame, commands.next), d, executed)
    BY <1>3, <2>2, BegunTracks
  <2> QED BY <2>1, <2>3
<1> QED BY <1>2, <1>3

(* The commands with an open submission: what BeginSubmission leaves.        *)
Opened == [commands EXCEPT !.open = TRUE, !.work = Budget!Work]

LEMMA OpenedFields ==
  ASSUME BudgetTypes
  PROVE  /\ Opened \in Commands /\ Opened.open = TRUE /\ Opened.work = Budget!Work
         /\ Opened.frame = commands.frame /\ Opened.next = commands.next
         /\ Opened.dumps = commands.dumps /\ Opened.frame_dumps = commands.frame_dumps
         /\ Opened.lost = commands.lost
<1> DEFINE work == Budget!Work
<1>1. commands \in Commands /\ work \in Works /\ TRUE \in BOOLEAN
  BY WorkBegun DEF BudgetTypes
<1>2. Opened = [commands EXCEPT !.open = TRUE, !.work = work]
  BY DEF Opened
<1> HIDE DEF work
<1>3. Opened \in Commands
  BY <1>1, <1>2, ZenonT(60) DEF Commands
<1>4. /\ Opened.open = TRUE /\ Opened.work = work
      /\ Opened.frame = commands.frame /\ Opened.next = commands.next
      /\ Opened.dumps = commands.dumps /\ Opened.frame_dumps = commands.frame_dumps
      /\ Opened.lost = commands.lost
  BY <1>1, <1>2, ZenonT(60) DEF Commands
<1> QED BY <1>3, <1>4 DEF work

LEMMA CaptureBegin ==
  ASSUME CaptureInv, Budget!Begin
  PROVE  CaptureInv'
<1>0. /\ BudgetInv /\ BudgetTypes /\ ProbeIsSound(probe) /\ commands \in Commands
      /\ commands.frame \in Nat
  BY CommandsFields DEF CaptureInv, BudgetInv, BudgetTypes
<1>1. PICK due \in BOOLEAN, begun \in BOOLEAN :
        /\ begun => ~commands.lost
        /\ probe' = IF begun THEN Budget!BeginSubmission(
                                    Budget!ObserveFrame(probe, commands.frame, due))
                    ELSE Budget!ObserveFrame(probe, commands.frame, due)
        /\ commands' = IF begun THEN Opened ELSE commands
  BY DEF Budget!Begin, Opened
<1>2. ~probe.finished /\ UNCHANGED <<published, executed>>
  BY DEF Budget!Begin, Budget!Running
<1>3. BudgetInv'
  BY <1>0, ProbeBegin
<1> DEFINE p == Budget!ObserveFrame(probe, commands.frame, due)
<1>4. ASSUME ~commands'.lost PROVE Tracks(probe', commands', executed')
  <2>1. ~commands.lost
    BY <1>0, <1>1, <1>4, OpenedFields
  <2>2. Tracks(probe, commands, executed)
    BY <1>2, <2>1 DEF CaptureInv
  <2>3. Tracks(p, commands, executed) /\ p.observed = commands.frame
    BY <1>0, <1>2, <2>2, ObservedTracks
  <2>4. ProbeIsSound(p)
    BY <1>0, ObservedIsSound
  <2>5. CASE ~begun
    BY <1>1, <1>2, <2>3, <2>5
  <2>6. CASE begun
    <3>1. probe' = Budget!BeginSubmission(p) /\ commands' = Opened /\ executed' = executed
      BY <1>1, <1>2, <2>6
    <3> HIDE DEF p
    <3>2. Tracks(Budget!BeginSubmission(p), Opened, executed)
      BY <1>0, <2>3, <2>4, OpenedFields, SubmissionTracks
    <3> QED BY <3>1, <3>2
  <2> QED BY <2>5, <2>6
<1> QED BY <1>2, <1>3, <1>4, TracksOn

LEMMA CaptureOperation ==
  ASSUME CaptureInv, Budget!Operation
  PROVE  CaptureInv'
<1>0. BudgetInv /\ ProbeIsSound(probe) /\ commands \in Commands
  BY DEF CaptureInv, BudgetInv, BudgetTypes
<1>1. /\ ~probe.finished /\ UNCHANGED <<published, executed>>
      /\ commands' = [commands EXCEPT !.operations = @ + 1, !.work.operations = @ + 1]
      /\ probe' = Budget!CountOperation(probe)
  BY DEF Budget!Operation, Budget!Running
<1>2. BudgetInv' /\ commands' \in Commands
  <2>1. BudgetInv'
    BY <1>0, ProbeOperation
  <2> QED BY <2>1 DEF BudgetInv, BudgetTypes
<1>3. /\ commands'.next = commands.next /\ commands'.open = commands.open
      /\ commands'.frame = commands.frame /\ commands'.dumps = commands.dumps
      /\ commands'.frame_dumps = commands.frame_dumps /\ commands'.lost = commands.lost
      /\ commands'.work = [commands.work EXCEPT !.operations = @ + 1]
  BY <1>0, <1>1, ZenonT(60) DEF Commands
<1>4. /\ commands'.work.number = commands.work.number /\ commands'.work.frame = commands.work.frame
      /\ commands'.work.operations = commands.work.operations + 1
      /\ commands'.work.scopes = commands.work.scopes
  <2>1. commands.work \in Works
    BY <1>0, CommandsFields
  <2> QED BY <1>3, <2>1, ZenonT(60) DEF Works
<1>5. ASSUME ~commands'.lost PROVE Tracks(probe', commands', executed')
  <2>1. Tracks(probe, commands, executed)
    BY <1>1, <1>3, <1>5 DEF CaptureInv
  <2>2. Tracks(Budget!CountOperation(probe), commands', executed)
    BY <1>0, <1>2, <1>3, <1>4, <2>1, OperationTracks
  <2> QED BY <1>1, <2>2
<1> QED BY <1>1, <1>2, <1>5, TracksOn

LEMMA CaptureLeaf ==
  ASSUME CaptureInv, Budget!Leaf
  PROVE  CaptureInv'
<1>0. BudgetInv /\ ProbeIsSound(probe) /\ commands \in Commands
  BY DEF CaptureInv, BudgetInv, BudgetTypes
<1>1. /\ ~probe.finished /\ UNCHANGED <<published, executed>>
      /\ commands' = [commands EXCEPT !.dumps = @ + 1, !.frame_dumps = @ + 1,
                        !.work.operations = @ + 1, !.work.scopes = @ + 1]
      /\ probe' = IF probe.current = 0 THEN Budget!CountOperation(probe)
                  ELSE Budget!LeaveScope(Budget!CountOperation(Budget!EnterScope(probe)))
  BY DEF Budget!Leaf, Budget!Running, Budget!NoSlot
<1>2. BudgetInv' /\ commands' \in Commands
  <2>1. BudgetInv'
    BY <1>0, ProbeLeaf
  <2> QED BY <2>1 DEF BudgetInv, BudgetTypes
<1>3. /\ commands'.next = commands.next /\ commands'.open = commands.open
      /\ commands'.frame = commands.frame /\ commands'.dumps = commands.dumps + 1
      /\ commands'.frame_dumps = commands.frame_dumps + 1 /\ commands'.lost = commands.lost
      /\ commands'.work = [[commands.work EXCEPT !.operations = @ + 1] EXCEPT !.scopes = @ + 1]
  BY <1>0, <1>1, ZenonT(60) DEF Commands
<1>4. /\ commands'.work.number = commands.work.number /\ commands'.work.frame = commands.work.frame
      /\ commands'.work.operations = commands.work.operations + 1
      /\ commands'.work.scopes = commands.work.scopes + 1
  <2>1. commands.work \in Works
    BY <1>0, CommandsFields
  <2> QED BY <1>3, <2>1, ZenonT(60) DEF Works
<1>5. commands'.dumps - commands'.frame_dumps = commands.dumps - commands.frame_dumps
  <2>1. commands.dumps \in Nat /\ commands.frame_dumps \in Nat
    BY <1>0, WorkNumbers
  <2> QED BY <1>3, <2>1
<1>6. ASSUME ~commands'.lost PROVE Tracks(probe', commands', executed')
  <2>1. Tracks(probe, commands, executed)
    BY <1>1, <1>3, <1>6 DEF CaptureInv
  <2>2. CASE probe.current = 0
    <3>1. Tracks(Budget!CountOperation(probe), commands', executed)
      BY <1>0, <1>2, <1>3, <1>4, <1>5, <2>1, <2>2, OperationTracks
    <3> QED BY <1>1, <2>2, <3>1
  <2>3. CASE probe.current # 0
    <3>1. Tracks(Budget!LeaveScope(Budget!CountOperation(Budget!EnterScope(probe))),
                 commands', executed)
      BY <1>0, <1>2, <1>3, <1>4, <1>5, <2>1, <2>3, LeafTracks
    <3> QED BY <1>1, <2>3, <3>1
  <2> QED BY <2>2, <2>3
<1> QED BY <1>1, <1>2, <1>6, TracksOn

LEMMA CaptureLosesSubmission ==
  ASSUME CaptureInv, Budget!LoseSubmission
  PROVE  CaptureInv'
<1>0. BudgetInv /\ commands \in Commands
  BY DEF CaptureInv, BudgetInv, BudgetTypes
<1>1. /\ ~probe.finished /\ UNCHANGED <<published, executed>>
      /\ commands' = [commands EXCEPT !.lost = TRUE, !.failures = @ + 1]
  BY DEF Budget!LoseSubmission, Budget!Running
<1>2. commands'.lost = TRUE
  BY <1>0, <1>1, ZenonT(60) DEF Commands
<1>3. BudgetInv'
  BY <1>0, ProbeLosesSubmission
<1> QED BY <1>1, <1>2, <1>3, TracksOn

LEMMA CaptureSwapFails ==
  ASSUME CaptureInv, Budget!SwapFails
  PROVE  CaptureInv'
<1>0. /\ BudgetInv /\ BudgetTypes /\ ProbeIsSound(probe) /\ commands \in Commands
      /\ commands.frame \in Nat
  BY CommandsFields DEF CaptureInv, BudgetInv, BudgetTypes
<1>1. PICK step \in {"no_presenter", "not_begun", "not_ended"}, due \in BOOLEAN :
        LET p == Budget!ObserveFrame(probe, commands.frame, due)
        IN /\ probe' = CASE step = "no_presenter" -> probe
                         [] step = "not_begun" -> p
                         [] step = "not_ended" -> Budget!BeginSubmission(p)
           /\ commands' = [[commands EXCEPT
                !.open = @ \/ step = "not_ended",
                !.work = IF step = "not_ended" THEN Budget!Work ELSE @,
                !.failures = IF commands.lost THEN @ ELSE @ + 1] EXCEPT !.frame = @ + 1]
  BY DEF Budget!SwapFails, Budget!NextFrame
<1>2. ~probe.finished /\ UNCHANGED <<published, executed>>
  BY DEF Budget!SwapFails, Budget!Running
<1>3. BudgetInv' /\ commands' \in Commands
  <2>1. BudgetInv'
    BY <1>0, ProbeSwapFails
  <2> QED BY <2>1 DEF BudgetInv, BudgetTypes
<1> DEFINE p == Budget!ObserveFrame(probe, commands.frame, due)
<1>4. /\ commands'.frame = commands.frame + 1 /\ commands'.next = commands.next
      /\ commands'.dumps = commands.dumps /\ commands'.frame_dumps = commands.frame_dumps
      /\ commands'.lost = commands.lost
      /\ commands'.open = (commands.open \/ step = "not_ended")
      /\ commands'.work = IF step = "not_ended" THEN Budget!Work ELSE commands.work
  <2> DEFINE open == commands.open \/ step = "not_ended"
             work == IF step = "not_ended" THEN Budget!Work ELSE commands.work
             failures == IF commands.lost THEN commands.failures ELSE commands.failures + 1
             frame == commands.frame + 1
  <2>1. commands' = [[commands EXCEPT !.open = open, !.work = work, !.failures = failures]
                       EXCEPT !.frame = frame]
    BY <1>1, Zenon
  <2> HIDE DEF open, work, failures, frame
  <2>2. /\ commands'.frame = frame /\ commands'.next = commands.next
        /\ commands'.dumps = commands.dumps /\ commands'.frame_dumps = commands.frame_dumps
        /\ commands'.lost = commands.lost
        /\ commands'.open = open /\ commands'.work = work
    BY <1>0, <2>1, ZenonT(60) DEF Commands
  <2> QED BY <2>2 DEF open, work, frame
<1>5. commands'.frame >= commands.frame /\ commands'.frame >= Opened.frame
  <2>1. Opened.frame = commands.frame
    BY <1>0, OpenedFields
  <2> QED BY <1>0, <1>4, <2>1
<1>6. ASSUME ~commands'.lost PROVE Tracks(probe', commands', executed')
  <2>1. Tracks(probe, commands, executed)
    BY <1>2, <1>4, <1>6 DEF CaptureInv
  <2>2. Tracks(p, commands, executed) /\ p.observed = commands.frame /\ ProbeIsSound(p)
    BY <1>0, <1>2, <2>1, ObservedTracks, ObservedIsSound
  <2>3. probe' = CASE step = "no_presenter" -> probe
                   [] step = "not_begun" -> p
                   [] step = "not_ended" -> Budget!BeginSubmission(p)
    BY <1>1, Zenon
  <2> HIDE DEF p
  <2>4. CASE step # "not_ended"
    <3>1. commands'.open = commands.open /\ commands'.work = commands.work
      <4>1. commands.open \in BOOLEAN
        BY <1>0, CommandsFields
      <4> QED BY <1>4, <2>4, <4>1
    <3>2. probe' = probe \/ probe' = p
      BY <2>3, <2>4
    <3>3. Tracks(probe, commands', executed)
      BY <1>0, <1>3, <1>4, <1>5, <2>1, <3>1, CommandsMoveOn
    <3>4. Tracks(p, commands', executed)
      BY <1>0, <1>3, <1>4, <1>5, <2>2, <3>1, CommandsMoveOn
    <3> QED BY <1>2, <3>2, <3>3, <3>4
  <2>5. CASE step = "not_ended"
    <3> DEFINE b == Budget!BeginSubmission(p)
    <3>1. probe' = b
      BY <2>3, <2>5
    <3>2. Tracks(b, Opened, executed)
      BY <1>0, <2>2, OpenedFields, SubmissionTracks
    <3>3. ProbeIsSound(b)
      BY <1>3, <3>1 DEF BudgetInv
    <3> HIDE DEF b
    <3>4. commands'.open = Opened.open /\ commands'.work = Opened.work
      BY <1>0, <1>4, <2>5, OpenedFields
    <3>5. Tracks(b, commands', executed)
      BY <1>0, <1>3, <1>4, <1>5, <3>2, <3>3, <3>4, OpenedFields, CommandsMoveOn
    <3> QED BY <1>2, <3>1, <3>5
  <2> QED BY <2>4, <2>5
<1> QED BY <1>2, <1>3, <1>6, TracksOn

(* What is reported of a capture that is ended holds of it.                  *)
LEMMA ReportHolds ==
  ASSUME NEW q, ProbeIsSound(q), NEW c \in Commands, NEW done,
         NEW idle, NEW completed \in Int, NEW outcome,
         idle => Tracks(q, c, done) /\ ~c.open,
         ~published.valid, ~published.complete, NEW r, SameCapture(q, r), NEW reached,
         completed # Budget!Removed => reached = completed
  PROVE  LET report == Budget!Report(q, idle, completed, outcome)
         IN /\ report.valid => Whole(r, done, reached)
            /\ report.complete => Attributed(r, done)
<1> DEFINE report == Budget!Report(q, idle, completed, outcome)
           valid == Budget!Valid(q, idle, completed, outcome)
<1>1. CASE outcome = "unwritten"
  <2>1. report = published
    BY <1>1 DEF Budget!Report
  <2> QED BY <2>1
<1>2. CASE outcome # "unwritten"
  <2>1. /\ report.valid = valid
        /\ report.complete => valid /\ q.period # 0 /\ ~q.group_overflow
    BY <1>2 DEF Budget!Report
  <2>2. ASSUME valid
        PROVE  /\ completed # Budget!Removed /\ Whole(q, done, completed)
               /\ q.period # 0 /\ ~q.group_overflow => Attributed(q, done)
    <3>1. idle
      BY <2>2 DEF Budget!Valid, Budget!CompletionProven
    <3> QED BY <2>2, <3>1, ValidTracks
  <2>3. valid => Whole(r, done, reached)
    BY <2>2, CaptureStays
  <2>4. report.complete => Attributed(r, done)
    BY <2>1, <2>2, CaptureStays
  <2> QED BY <2>1, <2>3, <2>4
<1> QED BY <1>1, <1>2

LEMMA CaptureSubmits ==
  ASSUME CaptureInv, BudgetInv', ~probe.finished, NEW p, ProbeIsSound(p), NEW c \in Commands,
         Tracks(p, c, executed), c.open, NEW closes \in BOOLEAN,
         closes => p.observed = c.frame,
         Budget!Submit(p, c.work, closes), c.next = commands.next,
         c.dumps = commands.dumps, c.frame_dumps = commands.frame_dumps,
         ~commands'.open, commands'.next = c.next + 1, commands'.dumps = c.dumps,
         closes => commands'.frame = c.frame + 1 /\ commands'.frame_dumps = 0,
         ~closes => commands'.frame = c.frame /\ commands'.frame_dumps = c.frame_dumps
  PROVE  CaptureInv'
<1> DEFINE q == Budget!EndProbe(p, closes, commands.dumps)
<1>1. /\ Budget!Publish(q)
      /\ executed' = IF p.first = 0 THEN executed
                     ELSE Append(executed, Executed(c.work, closes, c.frame_dumps))
  BY DEF Budget!Submit, Executed
<1>2. ProbeIsSound(q)
  <2>1. commands.dumps \in Nat
    BY WorkNumbers
  <2> QED BY <2>1, EndedProbeIsSound
<1>3. commands' \in Commands
  BY DEF BudgetInv, BudgetTypes
<1>4. Tracks(q, commands', executed')
  <2>1. Tracks(Budget!EndProbe(p, closes, c.dumps), commands',
               IF p.first = 0 THEN executed
               ELSE Append(executed, Executed(c.work, closes, c.frame_dumps)))
    BY <1>3, SubmittedTracks
  <2> QED BY <1>1, <2>1
<1> HIDE DEF q
<1>5. executed' \in Seq(Execution) /\ ~published.valid /\ ~published.complete
  BY <1>4 DEF Tracks, CaptureInv
<1>6. CASE probe' = q /\ published' = published
  BY <1>4, <1>5, <1>6 DEF CaptureInv
<1>7. ASSUME NEW completed \in 0 .. Budget!Removed, NEW outcome \in Budget!Outcomes,
             Budget!Read(completed, commands.next),
             probe' = Budget!Finished(q, completed # Budget!Removed, completed, outcome),
             published' = Budget!Report(q, completed # Budget!Removed, completed, outcome)
      PROVE  CaptureInv'
  <2> DEFINE idle == completed # Budget!Removed
  <2>1. completed \in Int
    BY BudgetConstants
  <2>2. completed # Budget!Removed => passed' = completed
    BY <1>7 DEF Budget!Read
  <2>3. SameCapture(q, probe') /\ probe'.finished = TRUE
    <3>1. probe' = Budget!Finished(q, idle, completed, outcome)
      BY <1>7
    <3> HIDE DEF idle
    <3> QED BY <1>2, <3>1, FinishedKeepsCapture
  <2>4. published' = Budget!Report(q, idle, completed, outcome)
    BY <1>7
  <2> HIDE DEF idle
  <2>5. /\ published'.valid => Whole(probe', executed', passed')
        /\ published'.complete => Attributed(probe', executed')
    BY <1>2, <1>3, <1>4, <1>5, <2>1, <2>2, <2>3, <2>4, ReportHolds
  <2> QED BY <1>5, <2>3, <2>5 DEF CaptureInv
<1>8. \/ probe' = q /\ published' = published
      \/ \E completed \in 0 .. Budget!Removed, outcome \in Budget!Outcomes :
           /\ Budget!Read(completed, commands.next)
           /\ probe' = Budget!Finished(q, completed # Budget!Removed, completed, outcome)
           /\ published' = Budget!Report(q, completed # Budget!Removed, completed, outcome)
  BY <1>1, Zenon DEF Budget!Publish
<1> QED BY <1>6, <1>7, <1>8

LEMMA CaptureEndSubmission ==
  ASSUME CaptureInv, Budget!EndSubmission
  PROVE  CaptureInv'
<1>0. BudgetInv /\ ProbeIsSound(probe) /\ commands \in Commands
  BY DEF CaptureInv, BudgetInv, BudgetTypes
<1>1. /\ ~probe.finished /\ commands.open /\ ~commands.lost
      /\ Budget!Submit(probe, commands.work, FALSE)
      /\ commands' = [commands EXCEPT !.open = FALSE, !.work = Budget!Idle, !.next = @ + 1]
  BY DEF Budget!EndSubmission, Budget!Running
<1>2. BudgetInv'
  BY <1>0, ProbeEndSubmission
<1>3. /\ commands'.open = FALSE /\ commands'.next = commands.next + 1
      /\ commands'.dumps = commands.dumps /\ commands'.frame = commands.frame
      /\ commands'.frame_dumps = commands.frame_dumps
  BY <1>0, <1>1, ZenonT(60) DEF Commands
<1>4. Tracks(probe, commands, executed)
  BY <1>1 DEF CaptureInv
<1>5. FALSE \in BOOLEAN
  OBVIOUS
<1> QED BY <1>0, <1>1, <1>2, <1>3, <1>4, <1>5, CaptureSubmits

LEMMA BegunIsObserved ==
  ASSUME NEW p, ProbeIsSound(p), NEW frame \in Nat, NEW number \in Nat
  PROVE  Budget!BeginProbe(p, frame, number).observed = p.observed
BY BegunFields

LEMMA CaptureSwap ==
  ASSUME CaptureInv, Budget!Swap
  PROVE  CaptureInv'
<1>0. BudgetInv /\ BudgetTypes /\ ProbeIsSound(probe) /\ commands \in Commands
  BY DEF CaptureInv, BudgetInv, BudgetTypes
<1>1. PICK due \in BOOLEAN :
        Budget!Submit(Budget!BeginSubmission(Budget!ObserveFrame(probe, commands.frame, due)),
                      Budget!Work, TRUE)
  BY DEF Budget!Swap
<1>2. /\ ~probe.finished /\ ~commands.lost
      /\ commands' = [[commands EXCEPT !.open = FALSE, !.work = Budget!Idle, !.next = @ + 1,
                                       !.frame_dumps = 0] EXCEPT !.frame = @ + 1]
  BY DEF Budget!Swap, Budget!Running, Budget!NextFrame
<1>3. BudgetInv'
  BY <1>0, ProbeSwap
<1>4. /\ commands'.open = FALSE /\ commands'.next = commands.next + 1
      /\ commands'.dumps = commands.dumps /\ commands'.frame = commands.frame + 1
      /\ commands'.frame_dumps = 0
  BY <1>0, <1>2, ZenonT(60) DEF Commands
<1> DEFINE p == Budget!ObserveFrame(probe, commands.frame, due)
           b == Budget!BeginSubmission(p)
<1>5. Tracks(probe, commands, executed)
  BY <1>2 DEF CaptureInv
<1>6. Tracks(p, commands, executed) /\ p.observed = commands.frame /\ ProbeIsSound(p)
      /\ p.last <= commands.next
  <2>1. commands.frame \in Nat
    BY <1>0, CommandsFields
  <2>2. Tracks(p, commands, executed) /\ p.observed = commands.frame
    BY <1>0, <1>2, <1>5, ObservedTracks
  <2>3. ProbeIsSound(p) /\ p.last = probe.last
    BY <1>0, <2>1, ObservedIsSound
  <2> QED BY <1>0, <2>2, <2>3 DEF BudgetInv
<1>7. Budget!Submit(b, Budget!Work, TRUE)
  BY <1>1
<1> HIDE DEF p
<1>8. Tracks(b, Opened, executed) /\ ProbeIsSound(b)
  BY <1>0, <1>6, OpenedFields, SubmissionTracks, SubmissionBegun
<1>9. b.observed = commands.frame
  <2>1. CASE commands.open
    BY <1>6, <2>1 DEF Budget!BeginSubmission
  <2>2. CASE ~commands.open
    <3>1. b = Budget!BeginProbe(p, commands.frame, commands.next)
      BY <2>2 DEF Budget!BeginSubmission
    <3>2. commands.frame \in Nat /\ commands.next \in Nat
      BY <1>0, CommandsFields
    <3> HIDE DEF b
    <3>3. ProbeIsSound(p)
      BY <1>6
    <3>4. b.observed = p.observed
      BY <3>1, <3>2, <3>3, BegunIsObserved
    <3> QED BY <1>6, <3>4
  <2> QED BY <2>1, <2>2
<1> HIDE DEF b
<1>10. /\ Opened \in Commands /\ Opened.open = TRUE /\ Opened.work = Budget!Work
       /\ Opened.frame = commands.frame /\ Opened.next = commands.next
       /\ Opened.dumps = commands.dumps /\ Opened.frame_dumps = commands.frame_dumps
  BY <1>0, OpenedFields
<1>11. TRUE \in BOOLEAN /\ Budget!Submit(b, Opened.work, TRUE)
  BY <1>7, <1>10
<1> HIDE DEF Opened
<1> QED BY <1>2, <1>3, <1>4, <1>8, <1>9, <1>10, <1>11, CaptureSubmits

(* The queue passes what it has passed.                                      *)
LEMMA WholeStays ==
  ASSUME NEW p, NEW done, done \in Seq(Execution), NEW reached \in Int, NEW later \in Int,
         reached <= later, Whole(p, done, reached)
  PROVE  Whole(p, done, later)
<1> DEFINE measured == MeasuredBy(p, done)
<1>1. ASSUME NEW k \in measured PROVE done[k].number <= later
  <2>1. k \in DOMAIN done /\ done[k].number <= reached
    BY DEF MeasuredBy, Whole
  <2>2. done[k].number \in Nat
    BY <2>1, DoneNumbers
  <2> QED BY <2>1, <2>2
<1> HIDE DEF measured
<1> QED BY <1>1, Zenon DEF measured, Whole

LEMMA CaptureInit == Budget!Init => CaptureInv
<1> SUFFICES ASSUME Budget!Init PROVE CaptureInv
  OBVIOUS
<1>1. PICK chosen \in Captures :
        probe = [count |-> chosen[1], period |-> chosen[2], observed |-> -1, first |-> 0,
                 last |-> 0, closes |-> 0, selected |-> FALSE, grouped |-> FALSE,
                 groups_this_frame |-> 0, truncated |-> FALSE, previous |-> 0,
                 submissions |-> <<>>, groups |-> <<>>, current |-> 0,
                 group |-> 0, scope |-> FALSE, submission_overflow |-> FALSE,
                 group_overflow |-> FALSE, scope_error |-> FALSE,
                 alignment_error |-> FALSE, finished |-> FALSE, proven |-> FALSE,
                 queries |-> "held"]
  BY DEF Budget!Init, Budget!Never, Budget!NoSlot
<1>2. chosen[1] \in Nat /\ chosen[1] >= 1
  BY BudgetConstants
<1>3. /\ probe.count = chosen[1] /\ probe.observed = -1 /\ probe.first = 0 /\ probe.closes = 0
      /\ probe.selected = FALSE /\ probe.grouped = FALSE /\ probe.truncated = FALSE
      /\ probe.previous = 0
  BY <1>1
<1>4. /\ probe.submissions = <<>> /\ probe.groups = <<>> /\ probe.current = 0
      /\ probe.group = 0 /\ probe.scope = FALSE
  BY <1>1
<1>5. /\ commands.frame = 1 /\ commands.open = FALSE /\ commands.dumps = 0
      /\ commands.frame_dumps = 0 /\ executed = <<>>
      /\ published.valid = FALSE /\ published.complete = FALSE
  BY DEF Budget!Init
<1>6. executed \in Seq(Execution) /\ DOMAIN executed = {}
      /\ DOMAIN probe.submissions = {} /\ DOMAIN probe.groups = {}
  BY <1>4, <1>5
<1>7. Clock(probe, commands, executed)
  <2>1. ~InWindow(probe, probe.observed)
    BY <1>3 DEF InWindow
  <2> QED BY <1>2, <1>3, <1>4, <1>5, <2>1 DEF Clock
<1>8. Ordered(probe, commands, executed)
  BY <1>6 DEF Ordered, Budget!InOrder
<1>9. CurrentIsOpen(probe, commands) /\ RecordsAreDone(probe, executed)
  BY <1>4, <1>6 DEF CurrentIsOpen, RecordsAreDone
<1>10. DoneIsRecorded(probe, commands, executed)
  BY <1>5, <1>6 DEF DoneIsRecorded
<1>11. FramesAreClosed(probe, commands, executed)
  BY <1>3 DEF FramesAreClosed
<1>12. GroupsAreScopes(probe)
  BY <1>6 DEF GroupsAreScopes
<1>13. BudgetInv
  BY BudgetInit
<1> QED BY <1>5, <1>6, <1>7, <1>8, <1>9, <1>10, <1>11, <1>12, <1>13 DEF CaptureInv, Tracks

LEMMA CaptureShutdown ==
  ASSUME CaptureInv, Budget!Shutdown
  PROVE  CaptureInv'
<1>0. /\ BudgetInv /\ ProbeIsSound(probe) /\ commands \in Commands /\ passed \in Nat
      /\ commands.next \in Nat /\ executed \in Seq(Execution)
  BY CommandsFields DEF CaptureInv, BudgetInv, BudgetTypes
<1>1. BudgetInv' /\ executed' = executed
  BY <1>0, ProbeShutdown DEF Budget!Shutdown
<1>2. PICK idle \in BOOLEAN, completed \in {passed, commands.next - 1, Budget!Removed},
           outcome \in Budget!Outcomes :
        /\ Budget!Read(completed, commands.next - 1)
        /\ IF idle
           THEN completed >= commands.next - 1 /\ ~commands.lost /\ ~commands.open
           ELSE completed = passed
        /\ IF probe.finished THEN probe' = Budget!Destroyed(probe) /\ UNCHANGED published
           ELSE /\ probe' = Budget!Destroyed(Budget!Finished(probe, idle, completed, outcome))
                /\ published' = Budget!Report(probe, idle, completed, outcome)
  BY DEF Budget!Shutdown
<1>3. /\ completed \in Int /\ passed' \in Int /\ passed <= passed'
      /\ completed # Budget!Removed => passed' = completed
  <2>1. completed \in Int
    BY <1>0, <1>2, BudgetConstants
  <2>2. completed # Budget!Removed => completed \in passed .. commands.next - 1 /\ passed' = completed
    BY <1>2 DEF Budget!Read
  <2>3. completed = Budget!Removed => passed' = passed
    BY <1>2 DEF Budget!Read
  <2> QED BY <1>0, <2>1, <2>2, <2>3
<1>4. CASE probe.finished
  <2>1. probe' = Budget!Destroyed(probe) /\ published' = published
    BY <1>2, <1>4
  <2>2. SameCapture(probe, probe') /\ probe'.finished = TRUE
    <3>1. probe.finished = TRUE
      <4>1. probe.finished \in BOOLEAN
        BY <1>0 DEF ProbeIsSound, Probes
      <4> QED BY <1>4, <4>1
    <3> QED BY <1>0, <2>1, <3>1, DestroyedKeepsCapture
  <2>3. published'.valid => Whole(probe', executed', passed')
    <3> SUFFICES ASSUME published.valid PROVE Whole(probe', executed, passed')
      BY <1>1, <2>1
    <3>1. Whole(probe, executed, passed)
      BY DEF CaptureInv
    <3>2. Whole(probe, executed, passed')
      BY <1>0, <1>3, <3>1, WholeStays
    <3> QED BY <2>2, <3>2, CaptureStays
  <2>4. published'.complete => Attributed(probe', executed')
    <3> SUFFICES ASSUME published.complete PROVE Attributed(probe', executed)
      BY <1>1, <2>1
    <3>1. Attributed(probe, executed)
      BY DEF CaptureInv
    <3> QED BY <2>2, <3>1, CaptureStays
  <2> QED BY <1>0, <1>1, <2>2, <2>3, <2>4 DEF CaptureInv
<1>5. CASE ~probe.finished
  <2> DEFINE q == Budget!Finished(probe, idle, completed, outcome)
  <2>1. probe' = Budget!Destroyed(q) /\ published' = Budget!Report(probe, idle, completed, outcome)
    BY <1>2, <1>5
  <2>2. ProbeIsSound(q)
    <3>1. probe.queries = "held"
      BY <1>0, <1>5 DEF BudgetInv, ResultHolds
    <3> QED BY <1>0, <1>3, <3>1, FinishedIsSound, Zenon
  <2>3. SameCapture(probe, q) /\ q.finished = TRUE
    BY <1>0, FinishedKeepsCapture
  <2> HIDE DEF q
  <2>4. SameCapture(q, probe') /\ probe'.finished = q.finished
    BY <2>1, <2>2, DestroyedKeepsCapture
  <2>5. SameCapture(probe, probe') /\ probe'.finished = TRUE
    BY <2>3, <2>4 DEF SameCapture
  <2>6. idle => Tracks(probe, commands, executed) /\ ~commands.open
    BY <1>2, <1>5 DEF CaptureInv
  <2>7. ~published.valid /\ ~published.complete
    BY <1>5 DEF CaptureInv
  <2>8. /\ published'.valid => Whole(probe', executed, passed')
        /\ published'.complete => Attributed(probe', executed)
    BY <1>0, <1>3, <2>1, <2>5, <2>6, <2>7, ReportHolds
  <2> QED BY <1>0, <1>1, <2>5, <2>8 DEF CaptureInv
<1> QED BY <1>4, <1>5

LEMMA CaptureInvariant == AllSpec => []CaptureInv
<1>1. CaptureInv /\ [AllNext]_allVars => CaptureInv'
  <2> SUFFICES ASSUME CaptureInv, [AllNext]_allVars PROVE CaptureInv'
    OBVIOUS
  <2>1. Budget!Next \/ UNCHANGED budgetVars
    BY ComponentsStep
  <2>2. CASE Budget!Next
    BY <2>2, CaptureBegin, CaptureOperation, CaptureLeaf, CaptureEndSubmission,
       CaptureLosesSubmission, CaptureSwap, CaptureSwapFails, CaptureShutdown DEF Budget!Next
  <2>3. CASE UNCHANGED budgetVars
    <3>1. UNCHANGED <<probe, commands, passed, executed, published>>
      BY <2>3 DEF budgetVars
    <3>2. BudgetInv'
      BY <3>1 DEF CaptureInv, BudgetInv, BudgetTypes
    <3> QED BY <3>1, <3>2 DEF CaptureInv
  <2> QED BY <2>1, <2>2, <2>3
<1> QED BY <1>1, ComponentsInit, CaptureInit, PTL DEF AllSpec

(* Query objects are released only when the queue has passed every record    *)
(* that names them: behind a proven completion, or when there is no record   *)
(* (Destroy, RetainInFlight).                                                *)
THEOREM QueriesAreReleasedIdle == AllSpec => [](component = "budget" => Budget!ReleasedIsIdle)
<1>1. BudgetInv => Budget!ReleasedIsIdle
  <2> SUFFICES ASSUME BudgetInv, probe.queries = "released", NEW i \in DOMAIN probe.submissions
               PROVE  probe.submissions[i].ended /\ probe.submissions[i].number <= passed
    BY DEF Budget!ReleasedIsIdle
  <2>1. ProbeIsSound(probe) /\ ResultHolds(probe, passed) /\ passed \in Nat
    BY DEF BudgetInv, BudgetTypes
  <2>2. probe.submissions \in Seq(Submission) /\ probe.last \in Nat
    BY <2>1, ProbeFields
  <2>3. i \in 1 .. Len(probe.submissions) /\ probe.submissions[i].number \in Nat
    <3>1. i \in 1 .. Len(probe.submissions)
      BY <2>2
    <3>2. probe.submissions[i] \in Submission
      BY <2>2, <3>1
    <3> QED BY <3>1, <3>2 DEF Submission
  <2>4. Budget!AllEnded(probe) /\ probe.last <= passed
    BY <2>1, <2>3 DEF ResultHolds
  <2>5. probe.submissions[i].ended
    BY <2>4 DEF Budget!AllEnded
  <2>6. probe.submissions[i].number <= probe.last
    BY <2>1, <2>3 DEF ProbeIsSound
  <2> QED BY <2>1, <2>2, <2>3, <2>4, <2>5, <2>6
<1> QED BY <1>1, BudgetInvariant, PTL

(* What a measurement or a debug option shows is of the frames it names: a   *)
(* trace row and a captured frame are of theirs; a GPU budget that calls     *)
(* itself valid holds every submission of its frames, whole, and nothing     *)
(* else, and one that calls itself complete each leaf of its sampled frames  *)
(* (Finish's `valid` and complete_attribution), whatever swaps failed and    *)
(* whenever the device was lost; its queries are released idle.              *)
THEOREM MeasuresNameTheirFrames == AllSpec => []MeasuresAreOfTheirFrames
<1>1. CaptureInv => Budget!ValidIsWhole /\ Budget!CompleteIsAttributed
  <2> SUFFICES ASSUME CaptureInv PROVE Budget!ValidIsWhole /\ Budget!CompleteIsAttributed
    OBVIOUS
  <2>1. /\ published.valid => Whole(probe, executed, passed)
        /\ published.complete => Attributed(probe, executed)
    BY DEF CaptureInv
  <2> QED BY <2>1, ResultsAreStated
<1>2. /\ component = "schedule" => DiagnosticsAreOfTheirFrames
      /\ component = "budget" => Budget!ReleasedIsIdle
      /\ CaptureInv
      => MeasuresAreOfTheirFrames
  BY <1>1 DEF MeasuresAreOfTheirFrames
<1> QED BY <1>2, CaptureInvariant, DiagnosticsNameTheirFrames, QueriesAreReleasedIdle, PTL

(* The key presses all count, and every component keeps its shape: the       *)
(* rings and buffers stay within their capacities, counters within their     *)
(* ranges.                                                                   *)
THEOREM FramesKeepTheirShape == AllSpec => []FramesInv
<1>1. ScheduleInv => TypeOK /\ KeysAreCounted
  <2> SUFFICES ASSUME ScheduleInv PROVE TypeOK /\ KeysAreCounted
    OBVIOUS
  <2>1. ScheduleTypes /\ TraceFollows /\ RecordsFollow /\ KeysAreCounted
    BY DEF ScheduleInv
  <2>2. cvars.asset \in 0 .. 2 /\ cvars.generic \in BOOLEAN
    BY <2>1 DEF ScheduleTypes
  <2>3. MaxDraws \in Nat
    BY FrameScheduleAssumption DEF FrameScheduleAssumption
  <2>4. this.draws \in 0 .. MaxDraws /\ this.native \in 0 .. this.draws
    BY <2>1, <2>3 DEF ScheduleTypes
  <2>5. refusals \in [interval : [Refusals -> Nat], previous : [Refusals -> Nat]]
    BY <2>1 DEF ScheduleTypes, Counts
  <2>6. trace.dropped \in Nat /\ Len(trace.rows) <= TraceRows
    BY <2>1 DEF ScheduleTypes, TraceFollows
  <2>7. Len(records.next.buffer) <= RecordsMax
    BY <2>1 DEF RecordsFollow
  <2>8. config \in Configurations /\ frames \in 0 .. config.last /\ mode \in 0 .. 2
    BY <2>1 DEF ScheduleTypes
  <2> QED BY <2>1, <2>2, <2>4, <2>5, <2>6, <2>7, <2>8, Zenon DEF TypeOK
<1>2. AspectInv => Aspect!TypeOK
  <2> SUFFICES ASSUME AspectInv PROVE Aspect!TypeOK
    OBVIOUS
  <2>1. AspectTypes /\ QueueInv
    BY DEF AspectInv
  <2>2. /\ settings.aspect \in Aspects \union {Base} /\ latched.aspect \in Aspects \union {Base}
        /\ presented.aspect \in Aspects \union {Base}
    BY <2>1 DEF AspectTypes, AllAspects
  <2>3. title.front \in {0, 1} /\ worker.front \in {0, 1}
    BY <2>1 DEF AspectTypes, Titles, Workers
  <2>4. Len(packets) \in Nat
    BY <2>1 DEF AspectTypes
  <2>5. Len(packets) <= InFlight /\ InFlight \in Nat
    BY <2>4 DEF InFlight
  <2>6. InFlight <= MaxInFlight /\ Len(queue.entries) \in {InFlight, InFlight + 1}
    BY <2>1 DEF QueueInv, InStep, OneLost
  <2>7. Len(queue.entries) <= Capacity /\ Len(packets) <= MaxInFlight + 1
    BY <2>4, <2>5, <2>6, AspectConstants
  <2> QED BY <2>2, <2>3, <2>7 DEF Aspect!TypeOK, Aspect!Frontbuffers
<1>3. BindingsInv => Bindings!TypeOK
  <2> SUFFICES ASSUME BindingsInv PROVE Bindings!TypeOK
    OBVIOUS
  <2>1. BindingTypes /\ PlanIsLive /\ DrawHolds
    BY DEF BindingsInv
  <2>2. memory.words \in [Addresses -> Ucodes] /\ memory.writes \in 0 .. MaxShaderWrites
    BY <2>1 DEF BindingTypes
  <2>3. ASSUME NEW o \in Objects, object[o] # Nothing
        PROVE  /\ object[o].hash \in Ucodes /\ object[o].words \in Ucodes
               /\ object[o].translated \in BOOLEAN
    <3>1. object[o] \in Bindings!Shaders
      BY <2>1, <2>3 DEF BindingTypes
    <3> QED BY <3>1 DEF Bindings!Shaders
  <2>4. load_memo.object \in Objects \union {Nothing}
    BY <2>1 DEF BindingTypes
  <2>5. /\ plan.entry.object \in Objects \union {Nothing}
        /\ draw.pc \in {"idle", "hashed", "loaded", "drawn"}
    BY <2>1 DEF PlanIsLive, DrawHolds
  <2>6. /\ shaders \in [Ucodes -> Objects \union {Nothing}] /\ epoch \in 0 .. MaxEpochs
        /\ \A f \in Constants : register.fetch[f] \in Fetches[f]
    BY <2>1 DEF BindingTypes
  <2>7. register.override \in Overrides
    BY <2>1 DEF BindingTypes
  <2> QED BY <2>2, <2>3, <2>4, <2>5, <2>6, <2>7 DEF Bindings!TypeOK, Constants
<1>4. NoticesInv => Notices!TypeOK
  <2> SUFFICES ASSUME NoticesInv PROVE Notices!TypeOK
    OBVIOUS
  <2>1. NoticeTypes
    BY DEF NoticesInv
  <2>2. /\ request.pc \in {"idle", "exchange", "sync", "request", "requested", "returned"}
        /\ request.used \subseteq Textures /\ request.loads \subseteq request.used
    BY <2>1 DEF NoticeTypes
  <2> QED BY <2>1, <2>2 DEF NoticeTypes, Notices!TypeOK, Versions
<1>5. BudgetInv => Budget!TypeOK
  <2> SUFFICES ASSUME BudgetInv PROVE Budget!TypeOK
    OBVIOUS
  <2>1. ProbeIsSound(probe) /\ passed \in Nat /\ passed < commands.next /\ published \in Results
        /\ commands.next \in Nat
    BY CommandsFields DEF BudgetInv, BudgetTypes
  <2>2. probe.queries \in {"held", "retained", "released"}
    BY <2>1 DEF ProbeIsSound, Probes
  <2>3. /\ probe.current \in 0 .. Len(probe.submissions)
        /\ probe.group \in 0 .. Len(probe.groups)
        /\ Len(probe.submissions) <= SubmissionCapacity
    BY <2>1, ProbeFields DEF ProbeIsSound
  <2>4. passed \in 0 .. commands.next - 1
    BY <2>1
  <2>5. {published.valid, published.complete} \subseteq BOOLEAN
    BY <2>1 DEF Results
  <2> QED BY <2>2, <2>3, <2>4, <2>5 DEF Budget!TypeOK
<1>6. ScheduleInv /\ AspectInv /\ BindingsInv /\ NoticesInv /\ BudgetInv => FramesInv
  BY <1>1, <1>2, <1>3, <1>4, <1>5 DEF FramesInv
<1> QED BY <1>6, ScheduleInvariant, AspectInvariant, BindingsInvariant, NoticesInvariant,
           BudgetInvariant, PTL

===============================================================================
