--------------------------- MODULE NativeBindings ---------------------------
(***************************************************************************)
(* From a guest shader's address to the texture slots of a native draw:    *)
(* PipelineCache::LoadShader with its ShaderLoadMemo, the shader's         *)
(* translation (one modification), and the texture and sampler choices of  *)
(* GuestTextureIndex and bind_textures with                     *)
(* NativeTextureBindingCache.  Shaders are known by the address of the     *)
(* Shader object, which the allocator may give to another one later, and   *)
(* guest threads may write a shader's memory while it is being loaded.     *)
(* All memo and plan slots collide here: there is one of each.             *)
(***************************************************************************)
EXTENDS Integers, SequencesExt

CONSTANTS
  Addresses,  (* where the guest keeps its shaders' words                    *)
  Ucodes,     (* the words of a shader; its hash is as unique as the words  *)
  Objects,    (* addresses a Shader object may be allocated at              *)
  Nothing,
  Textures,   (* of each ucode, GetTextureBindingsAfterTranslation          *)
  Samplers,   (* of each ucode, GetSamplerBindingsAfterTranslation          *)
  Reads,      (* of each hash, the native stage's fetches: [fetch, kind]    *)
  Fetches,    (* the values of each fetch constant                          *)
  Overrides,  (* the values of anisotropic_override; "off" is out of range  *)
  MaxWrites,  (* bound: guest writes of shader memory                       *)
  MaxEpochs   (* bound: loads of the shader storage                         *)

FetchConstants == {0, 1}

Shaders == [hash : Ucodes, words : Ucodes, translated : BOOLEAN]

NativeBindingsAssumption ==
  /\ Nothing \notin Objects \union Ucodes \union Shaders
  /\ MaxWrites \in Nat /\ MaxEpochs \in Nat
  /\ "off" \in Overrides
  /\ \A f \in FetchConstants : Fetches[f] # {}
  /\ \A h \in Ucodes : \A i \in DOMAIN Reads[h] : Reads[h][i].fetch \in FetchConstants

VARIABLES
  memory,   (* the words at each address, and the writes so far             *)
  shaders,  (* shaders_: the object each hash is kept in                    *)
  object,   (* each Shader: [hash, words, translated], or Nothing           *)
  memo,     (* shader_load_memo_'s entry                                    *)
  epoch,    (* shader_load_memo_'s resets                                   *)
  plan,     (* texture_binding_cache_'s entry and its epoch_                *)
  register, (* the fetch constants and anisotropic_override                 *)
  cp        (* the command processor: its place and draw                    *)

vars == <<memory, shaders, object, memo, epoch, plan, register, cp>>

NoMemo == [address |-> Nothing, words |-> Nothing, object |-> Nothing]
NoSampler == [valid |-> FALSE, fetch |-> Nothing, override |-> Nothing, consensus |-> Nothing]
NoPlan == [object |-> Nothing, textures |-> <<>>, samplers |-> <<>>,
           memos |-> [f \in FetchConstants |-> NoSampler]]
IdleCp == [pc |-> "idle", address |-> Nothing, hash |-> Nothing, object |-> Nothing,
           seen |-> Nothing, bound |-> <<>>]

Init ==
  /\ memory \in [words : [Addresses -> Ucodes], writes : {0}]
  /\ shaders = [h \in Ucodes |-> Nothing]
  /\ object = [o \in Objects |-> Nothing]
  /\ memo = NoMemo
  /\ epoch = 0
  /\ plan = [entry |-> NoPlan, epoch |-> Nothing]
  /\ register = [fetch |-> [f \in FetchConstants |-> CHOOSE x \in Fetches[f] : TRUE],
                 override |-> "off"]
  /\ cp = IdleCp

-----------------------------------------------------------------------------
(* What a fetch constant stands for, from the live bindings. *)

(* The binding's dimension GuestTextureIndex expects for a native fetch.    *)
Expected(kind) == IF kind = "cube" THEN "cube" ELSE "2d"

(* GetActiveTextureBindlessSRVIndex: the texture cache builds the views the *)
(* swizzled signs call for, and the others are the null texture.            *)
IsNull(b, fetch) ==
  \/ fetch.empty
  \/ Expected(fetch.dimension) # b.dimension
  \/ fetch.signs = IF b.signed THEN "unsigned" ELSE "signed"

(* GuestTextureIndex with allow_empty: the first of the fetch's bindings    *)
(* that has a view, zero for an empty fetch, or a refusal.                  *)
GuestTextureIndex(bindings, read, fetch) ==
  LET matching == SelectSeq(bindings, LAMBDA b : b.fetch = read.fetch
                                                 /\ b.dimension = Expected(read.kind))
      views == SelectSeq(matching, LAMBDA b : ~IsNull(b, fetch))
  IN IF matching = <<>> \/ fetch.signs = "mixed" THEN "refused"
     ELSE IF views # <<>> THEN (IF Head(views).signed THEN "signed" ELSE "unsigned")
     ELSE IF fetch.empty THEN "empty" ELSE "refused"

(* GetSamplerParameters: an instruction's filter or the fetch constant's,   *)
(* and the override of linear ones.                                         *)
SamplerParameters(b, fetch, override) ==
  LET filter == IF b.filter = "fetch" THEN fetch.filter ELSE b.filter
  IN [filter |-> filter,
      aniso |-> IF filter = "linear" THEN override ELSE "off"]

(* The one sampler all bindings of the fetch resolve to.                    *)
Consensus(bindings, f, fetch, override) ==
  LET values == {SamplerParameters(b, fetch, override) : b \in {b \in ToSet(bindings) : b.fetch = f}}
  IN IF \E x \in values : values = {x} THEN CHOOSE x \in values : TRUE
     ELSE [filter |-> "refused", aniso |-> "off"]

(* bind_textures' checks of the fetch constant before its texture.          *)
KindFits(kind, fetch) ==
  CASE kind = "cube" -> fetch.empty \/ fetch.dimension = "cube"
    [] kind = "stacked" -> fetch.dimension = "2d" /\ fetch.uniform
    [] OTHER -> TRUE

(* A slot: refused for its texture or sampler, empty, or bound to the view  *)
(* and the sampler, which is the consensus, however it was found.           *)
Slot(read, fetch, bindings, sampler) ==
  LET index == IF KindFits(read.kind, fetch) THEN GuestTextureIndex(bindings, read, fetch)
               ELSE "refused"
  IN IF index = "refused" THEN [refused |-> "texture"]
     ELSE IF index = "empty" THEN [view |-> "empty"]
     ELSE IF sampler.filter = "refused" THEN [refused |-> "sampler"]
     ELSE [view |-> index, sampler |-> sampler, stacked |-> read.kind = "stacked"]

Refuses(slot) == DOMAIN slot = {"refused"}

(* bind_textures: the first refusal ends it.                                *)
Bound(slots) ==
  LET refused == {i \in DOMAIN slots : Refuses(slots[i])}
  IN IF refused = {} THEN slots
     ELSE <<slots[CHOOSE i \in refused : \A l \in refused : i <= l]>>

(* bind_textures without a plan: from the live shader's bindings.           *)
BoundDirectly(hash, words) ==
  LET slot(read) ==
        LET fetch == register.fetch[read.fetch]
        IN Slot(read, fetch, Textures[words],
                Consensus(Samplers[words], read.fetch, fetch, register.override))
  IN Bound([i \in DOMAIN Reads[hash] |-> slot(Reads[hash][i])])

-----------------------------------------------------------------------------
(* NativeTextureBindingCache. *)

(* Prepare: everything goes with the lifetime epoch, and a plan found by    *)
(* its shader's address is not compared further.                            *)
Prepared(o) ==
  LET entry == IF plan.epoch = epoch THEN plan.entry ELSE NoPlan
  IN IF entry.object = o THEN entry
     ELSE [NoPlan EXCEPT !.object = o, !.textures = Textures[object[o].words],
                         !.samplers = Samplers[object[o].words]]

(* Mutant of SamplerHits: the override is not part of the key. *)
SamplerHitsByFetch(m, fetch, override) == m.valid /\ m.fetch = fetch

(* ResolveSampler's memo: the six words and the override.                   *)
SamplerHits(m, fetch, override) == m.valid /\ m.fetch = fetch /\ m.override = override

ResolveSampler(p, f) ==
  IF SamplerHits(p.memos[f], register.fetch[f], register.override) THEN p.memos[f]
  ELSE [valid |-> TRUE, fetch |-> register.fetch[f], override |-> register.override,
        consensus |-> Consensus(p.samplers, f, register.fetch[f], register.override)]

PlannedSlot(p, read) ==
  Slot(read, register.fetch[read.fetch], p.textures, ResolveSampler(p, read.fetch).consensus)

BoundByPlan(p, hash) ==
  Bound([i \in DOMAIN Reads[hash] |-> PlannedSlot(p, Reads[hash][i])])

(* The fetches whose sampler was asked for: those up to the first refusal   *)
(* that have a texture.                                                     *)
Resolved(p, hash) ==
  LET reads == Reads[hash]
      reached(i) == \A l \in 1 .. i - 1 : ~Refuses(PlannedSlot(p, reads[l]))
      asks(i) == LET slot == PlannedSlot(p, reads[i])
                 IN slot # [refused |-> "texture"] /\ slot # [view |-> "empty"]
  IN {reads[i].fetch : i \in {i \in DOMAIN reads : reached(i) /\ asks(i)}}

AfterDraw(p, hash) ==
  [p EXCEPT !.memos = [f \in FetchConstants |-> IF f \in Resolved(p, hash) THEN ResolveSampler(p, f)
                                                ELSE @[f]]]

-----------------------------------------------------------------------------
(* Shaders and their translations. *)

GuestWrites ==
  /\ memory.writes < MaxWrites
  /\ \E a \in Addresses, u \in Ucodes :
       /\ memory.words[a] # u
       /\ memory' = [words |-> [memory.words EXCEPT ![a] = u], writes |-> memory.writes + 1]
  /\ UNCHANGED <<shaders, object, memo, epoch, plan, register, cp>>

(* The guest sets its registers between draws; the override is a setting.   *)
SetRegisters ==
  /\ cp.pc = "idle"
  /\ \/ \E f \in FetchConstants : \E x \in Fetches[f] : register' = [register EXCEPT !.fetch[f] = x]
     \/ \E x \in Overrides : register' = [register EXCEPT !.override = x]
  /\ UNCHANGED <<memory, shaders, object, memo, epoch, plan, cp>>

(* ShaderLoadMemo::Find. *)
MemoHits(a) == memo.object # Nothing /\ memo.address = a /\ memo.words = memory.words[a]

(* LoadShader by address: the memo's shader, or the hash of the words.      *)
LoadShader(a, enabled) ==
  /\ cp.pc = "idle"
  /\ LET draw == [IdleCp EXCEPT !.address = a]
     IN cp' = IF enabled /\ MemoHits(a)
              THEN [draw EXCEPT !.pc = "loaded", !.address = Nothing, !.object = memo.object, !.seen = memory.words[a]]
              ELSE [draw EXCEPT !.pc = "hashed", !.hash = memory.words[a]]
  /\ UNCHANGED <<memory, shaders, object, memo, epoch, plan, register>>

NewShader(hash, words) == [hash |-> hash, words |-> words, translated |-> FALSE]

(* The Shader kept under the hash, or a new one with these words, and where *)
(* it is or gets allocated.                                                 *)
KeptShader(hash, words) ==
  IF shaders[hash] # Nothing THEN object[shaders[hash]] ELSE NewShader(hash, words)
Places(hash) ==
  IF shaders[hash] # Nothing THEN {shaders[hash]} ELSE {o \in Objects : object[o] = Nothing}

(* ShaderLoadMemo::Publish, with the Shader's own words.                    *)
Publish(a, o, words) == [address |-> a, words |-> words, object |-> o]

(* LoadShader by hash: a new Shader copies the words as they are now.       *)
LoadByHash(o, enabled) ==
  /\ cp.pc = "hashed" /\ o \in Places(cp.hash)
  /\ LET s == KeptShader(cp.hash, memory.words[cp.address])
     IN /\ shaders' = [shaders EXCEPT ![cp.hash] = o]
        /\ object' = [object EXCEPT ![o] = s]
        /\ memo' = IF enabled THEN Publish(cp.address, o, s.words) ELSE memo
  /\ cp' = [IdleCp EXCEPT !.pc = "loaded", !.object = o]
  /\ UNCHANGED <<memory, epoch, plan, register>>

(* The draw's translation, once it succeeds, and its textures: by a plan    *)
(* or directly, as nb_native_texture_binding_cache is set.                  *)
Draw(ok, cached) ==
  /\ cp.pc = "loaded"
  /\ LET o == cp.object
         s == object[o]
         translated == s.translated \/ ok
         drawn == [IdleCp EXCEPT !.pc = "drawn", !.object = o, !.seen = cp.seen]
     IN /\ object' = [object EXCEPT ![o].translated = translated]
        /\ IF ~translated THEN cp' = IdleCp /\ UNCHANGED plan
           ELSE IF cached /\ Reads[s.hash] # <<>>
           THEN LET p == Prepared(o)
                IN /\ plan' = [entry |-> AfterDraw(p, s.hash), epoch |-> epoch]
                   /\ cp' = [drawn EXCEPT !.bound = BoundByPlan(p, s.hash)]
           ELSE /\ cp' = [drawn EXCEPT !.bound = BoundDirectly(s.hash, s.words)]
                /\ UNCHANGED plan
  /\ UNCHANGED <<memory, shaders, memo, epoch, register>>

EndDraw ==
  /\ cp.pc = "drawn"
  /\ cp' = IdleCp
  /\ UNCHANGED <<memory, shaders, object, memo, epoch, plan, register>>

(* ShaderLoadMemo::Reset. *)
LoadMemoReset(entry) == [entry EXCEPT !.object = Nothing]

(* InitializeShaderStorage with one stored shader: a translation that fails *)
(* is destroyed, and its Shader with it, also one the guest has used before *)
(* and that failed then.                                                    *)
InitializeShaderStorage(h, o, ok) ==
  /\ cp.pc = "idle" /\ epoch < MaxEpochs /\ o \in Places(h)
  /\ epoch' = epoch + 1
  /\ memo' = LoadMemoReset(memo)
  /\ LET s == KeptShader(h, h)
         kept == s.translated \/ ok
     IN /\ shaders' = [shaders EXCEPT ![h] = IF kept THEN o ELSE Nothing]
        /\ object' = [object EXCEPT ![o] = IF kept THEN [s EXCEPT !.translated = TRUE] ELSE Nothing]
  /\ UNCHANGED <<memory, plan, register, cp>>

Next ==
  \/ GuestWrites \/ SetRegisters \/ EndDraw
  \/ \E a \in Addresses, enabled \in BOOLEAN : LoadShader(a, enabled)
  \/ \E o \in Objects, enabled \in BOOLEAN : LoadByHash(o, enabled)
  \/ \E ok, cached \in BOOLEAN : Draw(ok, cached)
  \/ \E h \in Ucodes, o \in Objects, ok \in BOOLEAN : InitializeShaderStorage(h, o, ok)

Spec == Init /\ [][Next]_vars

-----------------------------------------------------------------------------
(* Properties. *)

TypeOK ==
  /\ memory.words \in [Addresses -> Ucodes] /\ memory.writes \in 0 .. MaxWrites
  /\ shaders \in [Ucodes -> Objects \union {Nothing}]
  /\ \A o \in Objects : object[o] # Nothing =>
       /\ object[o].hash \in Ucodes /\ object[o].words \in Ucodes
       /\ object[o].translated \in BOOLEAN
  /\ memo.object \in Objects \union {Nothing}
  /\ epoch \in 0 .. MaxEpochs
  /\ plan.entry.object \in Objects \union {Nothing}
  /\ \A f \in FetchConstants : register.fetch[f] \in Fetches[f]
  /\ register.override \in Overrides
  /\ cp.pc \in {"idle", "hashed", "loaded", "drawn"}

(* A shader taken from the memo has the words that were in guest memory     *)
(* when they were compared, whatever a guest thread wrote while it was      *)
(* loaded, and is not one deleted since (ShaderLoadMemo).                   *)
HitIsCurrent ==
  cp.pc \in {"loaded", "drawn"} /\ cp.seen # Nothing =>
    object[cp.object] # Nothing /\ object[cp.object].words = cp.seen

(* Each slot of a draw has the view and the sampler that the live shader's  *)
(* bindings give for the registers of this draw, or the draw is refused for *)
(* the same reason, whether or not a plan and its memoised samplers were    *)
(* used (NativeTextureBindingCache, bind_textures).                         *)
BindingsAreGuests ==
  cp.pc = "drawn" =>
    cp.bound = BoundDirectly(object[cp.object].hash, object[cp.object].words)

=============================================================================
