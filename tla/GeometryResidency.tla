--------------------------- MODULE GeometryResidency ---------------------------
(***************************************************************************)
(* What a native draw does to be allowed to read guest vertex and index     *)
(* data (NativeGeometryPass::Record and NativeAssetCache): it skips         *)
(* RequestRanges for the pages of its own residency bitmap, which the       *)
(* threads that invalidate shared memory correct through a bounded queue,   *)
(* and it reads a range from the immutable asset arena instead when the     *)
(* range was compared with an asset and its pages kept their version.       *)
(* Everything here runs on the CP thread; SharedMemory is the rest.         *)
(***************************************************************************)
EXTENDS SharedMemory

CONSTANTS
  MaxRanges,   (* bound: the streams of a draw, its index buffer included    *)
  AssetModes   (* whether a draw is given the asset cache (draw_asset_cache) *)

ASSUME GeometryResidencyAssumption == MaxRanges \in Nat /\ AssetModes \in SUBSET BOOLEAN

VARIABLES
  residency,   (* g_residency's pages                                       *)
  framesSeen,  (* which of g_residency_frame and the asset cache's frame    *)
               (* are the current frame                                     *)
  draw         (* the draw being recorded                                   *)

nativeVars == <<residency, framesSeen, draw>>
drawVars == <<vars, nativeVars>>

NoDraw == [pc |-> "idle", ranges |-> {}, since |-> <<>>, assets |-> FALSE,
           todo |-> {}, range |-> {}, bytes |-> <<>>, bound |-> {}]

DrawInit ==
  /\ Init
  /\ residency = {} /\ framesSeen = {}
  /\ draw = NoDraw

-----------------------------------------------------------------------------
Span(ranges) == UNION ranges

(* A draw with streams and an index buffer, with or without the asset cache *)
(* (draw_asset_cache).  The residency watch is registered by the first one, *)
(* and the bitmap goes with the frame.                                      *)
BeginDraw(ranges, assets) ==
  /\ draw.pc = "idle" /\ At("idle")
  /\ notices.registered \/ Free
  /\ notices' = [notices EXCEPT !.registered = TRUE]
  /\ residency' = IF "residency" \in framesSeen THEN residency ELSE {}
  /\ framesSeen' = framesSeen \union {"residency"}
  /\ draw' = [NoDraw EXCEPT !.pc = "drain", !.ranges = ranges, !.assets = assets,
                            !.since = [p \in Span(ranges) |-> guest[p]]]
  /\ UNCHANGED <<memoryVars, flagVars, cacheVars, cp, guestVars>>

(* Mutant of Drained: an overflowing queue is folded in like any other. *)
DrainedQueueOnly(pages) ==
  {p \in pages : \A i \in DOMAIN notices.pending : p \notin notices.pending[i]}

(* DrainResidencyInvalidations. *)
Drained(pages) ==
  IF notices.overflow THEN {}
  ELSE {p \in pages : \A i \in DOMAIN notices.pending : p \notin notices.pending[i]}

Drain ==
  /\ residency' = Drained(residency)
  /\ notices' = [notices EXCEPT !.pending = <<>>, !.overflow = FALSE]
  /\ UNCHANGED <<memoryVars, flagVars, cacheVars, cp, guestVars, framesSeen>>

(* Mutant of Missing: one page of a range stands for all of them. *)
MissingAltogether(pages) == {r \in draw.ranges : r \intersect pages = {}}

(* ResidencyCache::Covers. *)
Missing(pages) == {r \in draw.ranges : ~(r \subseteq pages)}

Resolving == [draw EXCEPT !.pc = "resolve", !.todo = draw.ranges]

DrainBefore ==
  /\ draw.pc = "drain"
  /\ Drain
  /\ draw' = IF Missing(residency') = {} THEN Resolving
             ELSE [draw EXCEPT !.pc = "request"]

RequestMissing ==
  /\ draw.pc = "request"
  /\ Request(Span(Missing(residency)), FALSE)
  /\ draw' = [draw EXCEPT !.pc = "requested"]
  /\ UNCHANGED <<residency, framesSeen>>

(* "Only cache after the request succeeded, and fold in anything that was   *)
(* invalidated during the call".                                            *)
AddRequested ==
  /\ draw.pc = "requested" /\ At("returned")
  /\ residency' = residency \union (IF cp.ok THEN Requested ELSE {})
  /\ cp' = IdleCp
  /\ draw' = IF cp.ok THEN [draw EXCEPT !.pc = "drain_again"]
             ELSE NoDraw   (* the draw stays emulated *)
  /\ UNCHANGED <<memoryVars, flagVars, cacheVars, notices, guestVars, framesSeen>>

DrainAfter ==
  /\ draw.pc = "drain_again"
  /\ Drain
  /\ draw' = Resolving

-----------------------------------------------------------------------------
(* NativeAssetCache::Resolve, one range after the other. *)

(* The version Resolve starts with, and a mapping stored with its version.  *)
Before(range) == [of |-> "before", pages |-> range]
Mapping(range, bytes, asset) ==
  [of |-> "mapping", pages |-> range, bytes |-> bytes, asset |-> asset]
Mappings == {m \in notices.current : m.of = "mapping"}

(* p.frame # frame or another mode: neither table has anything any more.    *)
FrameMappings == IF "assets" \in framesSeen THEN Mappings ELSE {}

(* After a range: the draw reads it from the arena if it is an asset.       *)
Answer(range, bound) ==
  draw' = [draw EXCEPT !.pc = "resolve", !.todo = @ \ {range}, !.range = {},
                       !.bytes = <<>>, !.bound = @ \union bound]
Assets(found) == {m \in found : m.asset}

(* Version, then Find: the version is taken before the bytes are.           *)
Find(range) ==
  LET found == {m \in FrameMappings : m.pages = range}
  IN /\ draw.pc = "resolve" /\ draw.assets /\ range \in draw.todo
     /\ framesSeen' = framesSeen \union {"assets"}
     /\ IF found # {}
        THEN Answer(range, Assets(found)) /\ UNCHANGED notices
        ELSE /\ draw' = [draw EXCEPT !.pc = "snapshot", !.range = range]
             /\ notices' = [notices EXCEPT
                              !.current = FrameMappings \union {Before(range)}]
     /\ UNCHANGED <<memoryVars, flagVars, cacheVars, cp, guestVars, residency>>

(* CopyCpuAuthoritativeRange; a refusal is not remembered.                  *)
Snapshot ==
  /\ draw.pc = "snapshot" /\ Free
  /\ IF CpuAuthoritative(draw.range)
     THEN /\ draw' = [draw EXCEPT !.pc = "compare",
                                  !.bytes = [p \in draw.range |-> guest[p]]]
          /\ UNCHANGED notices
     ELSE /\ Answer(draw.range, {})
          /\ notices' = [notices EXCEPT !.current = Mappings]
  /\ UNCHANGED <<memoryVars, flagVars, cacheVars, cp, guestVars, residency,
                 framesSeen>>

(* Mutant of Undisputed: the mapping gets the version its pages have by now. *)
LatestVersionTaken == TRUE

(* "A CPU write or GPU resolve during the snapshot/comparison discards it". *)
Undisputed == Before(draw.range) \in notices.current

(* The comparison with the assets of that length, and Store, which a full   *)
(* table refuses, or the legacy table, which is emptied when it is full.    *)
Compare ==
  /\ draw.pc = "compare"
  /\ IF Undisputed
     THEN \E asset \in BOOLEAN, kept \in {Mappings, {}}, store \in BOOLEAN :
            LET mapping == Mapping(draw.range, draw.bytes, asset)
            IN /\ Answer(draw.range, Assets({mapping}))
               /\ notices' = [notices EXCEPT
                    !.current = IF store THEN kept \union {mapping} ELSE Mappings]
     ELSE /\ Answer(draw.range, {})
          /\ UNCHANGED notices
  /\ UNCHANGED <<memoryVars, flagVars, cacheVars, cp, guestVars, residency,
                 framesSeen>>

(* UseForReading and the draw call.                                         *)
RecordDraw ==
  /\ draw.pc = "resolve"
  /\ draw.assets => draw.todo = {}
  /\ draw' = [draw EXCEPT !.pc = "record", !.todo = {}]
  /\ UNCHANGED <<vars, residency, framesSeen>>

EndDraw ==
  /\ draw.pc = "record"
  /\ draw' = NoDraw
  /\ UNCHANGED <<vars, residency, framesSeen>>

-----------------------------------------------------------------------------
DrawRanges == {rs \in SUBSET Ranges : Cardinality(rs) \in 1 .. MaxRanges}

NextFrame ==
  /\ CloseFrame
  /\ framesSeen' = {}
  /\ UNCHANGED <<residency, draw>>

DrawStep ==
  \/ \E rs \in DrawRanges, assets \in AssetModes : BeginDraw(rs, assets)
  \/ DrainBefore \/ RequestMissing \/ AddRequested \/ DrainAfter
  \/ \E r \in Ranges : Find(r)
  \/ Snapshot \/ Compare \/ RecordDraw \/ EndDraw

(* What else the CP does between two draws: resolves and memory exports,    *)
(* cache clears, frames.                                                    *)
OtherCpCall ==
  \/ \E want \in Ranges : Request(want, TRUE)
  \/ ClearCache

DrawNext ==
  \/ DrawStep
  \/ draw.pc = "idle" /\ NextFrame
  \/ draw.pc = "idle" /\ OtherCpCall /\ UNCHANGED nativeVars
  \/ draw.pc = "idle" /\ CpContinue /\ UNCHANGED nativeVars
  \/ draw.pc = "requested" /\ ~At("returned") /\ CpContinue /\ UNCHANGED nativeVars
  \/ InvalidateAllPages /\ UNCHANGED nativeVars
  \/ \E t \in Threads : GuestStep(t) /\ UNCHANGED nativeVars

DrawSpec == DrawInit /\ [][DrawNext]_drawVars

-----------------------------------------------------------------------------
(* Properties. *)

(* Every variable keeps its shape. *)
DrawTypeOK ==
  /\ TypeOK
  /\ residency \subseteq Pages
  /\ framesSeen \subseteq {"residency", "assets"}
  /\ Len(notices.pending) <= MaxPending
  /\ \A v \in notices.current : v.pages \in Ranges /\ v.of \in {"before", "mapping"}
  /\ draw.ranges \subseteq Ranges /\ draw.todo \subseteq draw.ranges

(* Shared memory with the geometry pass as its client: valid pages are      *)
(* current, the mirror shows valid pages only, and a request that returned  *)
(* made its pages recent.                                                   *)
MemoryInv ==
  /\ DrawTypeOK
  /\ ValidIsCurrent
  /\ MirrorIsValid
  /\ RequestedIsFresh

(* "A range can never be read after the data behind it changed": a page in  *)
(* the bitmap that is no longer valid is in the queue, or goes with the     *)
(* overflow, or with the frame.                                             *)
ResidentIsValid ==
  \A p \in residency :
    \/ p \in valid
    \/ notices.overflow
    \/ \E i \in DOMAIN notices.pending : p \in notices.pending[i]
    \/ "residency" \notin framesSeen

(* What a recorded draw reads, from the buffer or from the arena, is at     *)
(* least as recent as guest memory was when the draw began.                 *)
DrawIsFresh ==
  draw.pc = "record" =>
    /\ \A p \in Span(draw.ranges) \ gpuData : buffer[p] >= draw.since[p]
    /\ \A m \in draw.bound : \A p \in m.pages : m.bytes[p] >= draw.since[p]

(* A mapping that would be found holds the bytes the guest has now, and no  *)
(* page of it has been written by the GPU since.                            *)
MappingIsCurrent ==
  \A m \in FrameMappings : \A p \in m.pages : m.bytes[p] = guest[p] /\ p \notin written

=============================================================================
