--------------------------- MODULE TextureNotices ---------------------------
(***************************************************************************)
(* How the texture cache learns that the guest wrote a texture's memory.   *)
(* A store to a protected page faults; under the global critical region    *)
(* the page loses its validity and protection, the texture whose watch is  *)
(* registered is marked outdated, and then a flag is raised for the        *)
(* command processor (TextureCache::WatchCallback).  RequestTextures polls *)
(* the flag (NativePollTextureOutdated), unbinds every texture, and loads  *)
(* again those that are outdated.  Each texture has a page of its own, and *)
(* making it resident is one step (module SharedMemory has the others).    *)
(***************************************************************************)
EXTENDS Integers

CONSTANTS
  Textures,
  MaxWrites  (* bound: stores of a behaviour, each a new version of a page   *)

TextureNoticesAssumption == MaxWrites \in Nat

VARIABLES
  guest,    (* the version of each texture's page in guest memory           *)
  page,     (* its validity and protection, and the version in the buffer   *)
  texture,  (* base_outdated_, base_watch_handle_ and the version loaded    *)
  in_sync,  (* texture_bindings_in_sync_, by texture                        *)
  raised,   (* texture_became_outdated_                                     *)
  guest_thread,  (* its place and the texture it writes                     *)
  cp,       (* RequestTextures: its place, textures and loads               *)
  missed    (* written after their load was requested and before the watch  *)

vars == <<guest, page, texture, in_sync, raised, guest_thread, cp, missed>>

IdleCp == [pc |-> "idle", used |-> {}, loads |-> {}, since |-> [t \in Textures |-> 0]]

Init ==
  /\ guest = [t \in Textures |-> 0]
  /\ page = [t \in Textures |-> [protected |-> FALSE, buffer |-> -1]]
  /\ texture = [t \in Textures |-> [outdated |-> TRUE, watch |-> FALSE, loaded |-> -1]]
  /\ in_sync = {}
  /\ raised = FALSE
  /\ guest_thread \in [pc : {"idle"}, t : {CHOOSE t \in Textures : TRUE}]
  /\ cp = IdleCp
  /\ missed = {}

-----------------------------------------------------------------------------
(* The guest thread. *)

(* The critical region is the guest's from the fault to the flag.           *)
Free == guest_thread.pc # "notify"
Goto(pc) == guest_thread' = [guest_thread EXCEPT !.pc = pc]

BeginWrite(t) ==
  /\ guest_thread.pc = "idle"
  /\ guest[t] < MaxWrites
  /\ guest_thread' = [pc |-> "store", t |-> t]
  /\ UNCHANGED <<guest, page, texture, in_sync, raised, cp, missed>>

(* The store faults: the page is invalidated and its watch called.          *)
Fault ==
  LET t == guest_thread.t
  IN /\ guest_thread.pc = "store" /\ page[t].protected
     /\ page' = [page EXCEPT ![t].protected = FALSE]
     /\ IF texture[t].watch
        THEN /\ texture' = [texture EXCEPT ![t].outdated = TRUE, ![t].watch = FALSE]
             /\ Goto("notify") /\ UNCHANGED missed
        ELSE /\ missed' = IF cp.pc = "requested" /\ t \in cp.loads THEN missed \union {t}
                          ELSE missed
             /\ UNCHANGED <<texture, guest_thread>>
     /\ UNCHANGED <<guest, in_sync, raised, cp>>

(* TextureCache::WatchCallback's store, after the texture's.                *)
Notify ==
  /\ guest_thread.pc = "notify"
  /\ raised' = TRUE
  /\ Goto("store")
  /\ UNCHANGED <<guest, page, texture, in_sync, cp, missed>>

(* The store is tried again, and only faults if the page was requested      *)
(* meanwhile.                                                               *)
Store ==
  /\ guest_thread.pc = "store" /\ ~page[guest_thread.t].protected
  /\ guest' = [guest EXCEPT ![guest_thread.t] = @ + 1]
  /\ Goto("idle")
  /\ UNCHANGED <<page, texture, in_sync, raised, cp, missed>>

-----------------------------------------------------------------------------
(* The command processor: RequestTextures. *)

(* NativePollTextureOutdated: with load_first the flag is only exchanged    *)
(* once it was seen raised.                                                 *)
RequestTextures(used, load_first) ==
  /\ cp.pc = "idle"
  /\ cp' = [cp EXCEPT !.pc = IF load_first /\ ~raised THEN "sync" ELSE "exchange",
                      !.used = used, !.since = guest]
  /\ UNCHANGED <<guest, page, texture, in_sync, raised, guest_thread, missed>>

(* ResetTextureBindings.                                                    *)
Rebound(bound, used) == {}

Exchange ==
  /\ cp.pc = "exchange"
  /\ raised' = FALSE
  /\ in_sync' = IF raised THEN Rebound(in_sync, cp.used) ELSE in_sync
  /\ cp' = [cp EXCEPT !.pc = "sync"]
  /\ UNCHANGED <<guest, page, texture, guest_thread, missed>>

(* The textures bound anew, and PrepareTextureLoad: an up-to-date texture   *)
(* is known by outdated_mask_ without the critical region.                  *)
Sync ==
  /\ cp.pc = "sync"
  /\ LET loads == {t \in cp.used \ in_sync : texture[t].outdated}
     IN /\ loads # {} => Free
        /\ cp' = IF loads = {} THEN [cp EXCEPT !.pc = "returned"]
                 ELSE [cp EXCEPT !.pc = "request", !.loads = loads]
  /\ in_sync' = in_sync \union cp.used
  /\ UNCHANGED <<guest, page, texture, raised, guest_thread, missed>>

(* RequestRanges: pages without protection are uploaded.                    *)
RequestRanges ==
  /\ cp.pc = "request" /\ Free
  /\ page' = [t \in Textures |->
                IF t \in cp.loads /\ ~page[t].protected
                THEN [protected |-> TRUE, buffer |-> guest[t]] ELSE page[t]]
  /\ missed' = missed \ cp.loads
  /\ cp' = [cp EXCEPT !.pc = "requested"]
  /\ UNCHANGED <<guest, texture, in_sync, raised, guest_thread>>

(* Mutant of UpToDate: the watch is left for later. *)
UpToDateUnwatched(tx, buffer) == [tx EXCEPT !.outdated = FALSE, !.loaded = buffer]

(* A load from the buffer, and MakeUpToDateAndWatch.                        *)
UpToDate(tx, buffer) == [outdated |-> FALSE, watch |-> TRUE, loaded |-> buffer]

CommitLoads ==
  /\ cp.pc = "requested" /\ Free
  /\ texture' = [t \in Textures |-> IF t \in cp.loads THEN UpToDate(texture[t], page[t].buffer)
                                    ELSE texture[t]]
  /\ cp' = [cp EXCEPT !.pc = "returned", !.loads = {}]
  /\ UNCHANGED <<guest, page, in_sync, raised, guest_thread, missed>>

Drawn ==
  /\ cp.pc = "returned"
  /\ cp' = IdleCp
  /\ UNCHANGED <<guest, page, texture, in_sync, raised, guest_thread, missed>>

Next ==
  \/ \E t \in Textures : BeginWrite(t)
  \/ Fault \/ Notify \/ Store
  \/ \E used \in SUBSET Textures, load_first \in BOOLEAN : RequestTextures(used, load_first)
  \/ Exchange \/ Sync \/ RequestRanges \/ CommitLoads \/ Drawn

Spec == Init /\ [][Next]_vars

-----------------------------------------------------------------------------
(* Properties. *)

TypeOK ==
  /\ guest \in [Textures -> 0 .. MaxWrites]
  /\ page \in [Textures -> [protected : BOOLEAN, buffer : -1 .. MaxWrites]]
  /\ texture \in [Textures -> [outdated : BOOLEAN, watch : BOOLEAN, loaded : -1 .. MaxWrites]]
  /\ in_sync \subseteq Textures /\ missed \subseteq Textures
  /\ raised \in BOOLEAN
  /\ guest_thread.pc \in {"idle", "store", "notify"}
  /\ cp.pc \in {"idle", "exchange", "sync", "request", "requested", "returned"}
  /\ cp.used \subseteq Textures /\ cp.loads \subseteq cp.used

(* A texture a draw has requested holds whatever the guest had stored when  *)
(* the request began, however stores, the flag and the polls were ordered:  *)
(* no notice is lost.  Only a store between RequestRanges and               *)
(* MakeUpToDateAndWatch goes unnoticed, until the page is requested and     *)
(* written again (texture cache.cpp RequestTextures).                       *)
TextureIsFresh ==
  cp.pc = "returned" =>
    \A t \in cp.used : texture[t].loaded >= cp.since[t] \/ t \in missed

=============================================================================
