--------------------------- MODULE NativeShaderLibrary ---------------------------
(***************************************************************************)
(* One native shader library (native_shader_library.cpp): the shader pairs  *)
(* the guest draws with, the background compiles of their shaders, and the  *)
(* pixel shaders' form without AlphaTest, which must be compiled from the   *)
(* body the pair already draws with although the bodies' files may be       *)
(* generated anew while the program runs.                                   *)
(***************************************************************************)
EXTENDS Integers, FiniteSets

CONSTANTS
  VertexShaders, PixelShaders,   (* those with a good sidecar               *)
  Eligible,      (* pixel shaders without a kill or a depth output          *)
  Pairs,         (* [vs, ps]: the pairs that are drawn                      *)
  Slots,         (* MaxCompilesInFlight                                     *)
  Bodies,        (* versions of a shader's .hlsl file                       *)
  NoBody,        (* no file, or none compiled                               *)
  MaxRewrites    (* bound: times a file is generated anew                   *)

ASSUME NativeShaderLibraryAssumption ==
  /\ VertexShaders \intersect PixelShaders = {} /\ Eligible \subseteq PixelShaders
  /\ Pairs \subseteq [vs : VertexShaders, ps : PixelShaders]
  /\ Slots \in Nat \ {0} /\ MaxRewrites \in Nat /\ NoBody \notin Bodies

VARIABLES
  files,       (* the body in each shader's file                            *)
  rewrites,    (* how many were generated anew                              *)
  variants,    (* each shader's forms: Variant, its job and Compiled        *)
  tracked,     (* compiling_                                                *)
  without,     (* no_alpha_test_compiling_                                  *)
  pairs,       (* pairs_                                                    *)
  memo         (* ready_pair_memo_                                          *)

vars == <<files, rewrites, variants, tracked, without, pairs, memo>>

Shaders == VertexShaders \union PixelShaders
Forms == [shader : Shaders, alpha_test : BOOLEAN]
Generated(s) == [shader |-> s, alpha_test |-> TRUE]
WithoutTest(s) == [shader |-> s, alpha_test |-> FALSE]

(* A form is "none", "reading" and "compiling" on its worker, "returned"    *)
(* when the future is ready, and then "ready" or "failed".  body is what    *)
(* the job read, blob what it compiled, expected the body it was asked for. *)
NoVariant == [state |-> "none", body |-> NoBody, blob |-> NoBody, expected |-> NoBody]
NoPair == [built |-> FALSE, usable |-> TRUE, refused |-> FALSE,
           body |-> NoBody, variant |-> NoBody]
NoMemo == [vs |-> NoBody, ps |-> NoBody]

(* Load.                                                                    *)
Init ==
  /\ files = [s \in Shaders |-> CHOOSE b \in Bodies : TRUE]
  /\ rewrites = 0
  /\ variants = [f \in Forms |-> NoVariant]
  /\ tracked = {} /\ without = 0
  /\ pairs = [p \in Pairs |-> NoPair]
  /\ memo = NoMemo

-----------------------------------------------------------------------------
(* A draw works on d == [variants, tracked, without, pairs].                *)

Now == [variants |-> variants, tracked |-> tracked, without |-> without,
        pairs |-> pairs]

IsReturned(d) == {f \in d.tracked : d.variants[f].state = "returned"}

(* ReapCompiles.                                                            *)
Reaped(d) ==
  [d EXCEPT !.variants = [f \in Forms |->
              [d.variants[f] EXCEPT !.state =
                 IF f \in IsReturned(d) THEN IF d.variants[f].blob = NoBody THEN "failed" ELSE "ready"
                 ELSE @]],
            !.tracked = @ \ IsReturned(d),
            !.without = @ - Cardinality({f \in IsReturned(d) : ~f.alpha_test})]

(* Mutant of BaseSlotFree: every compile takes a slot. *)
BaseSlotFreeOfAll(d) == Cardinality(d.tracked) < Slots

(* NativeBaseSlotFree.                                                      *)
BaseSlotFree(d) == Cardinality(d.tracked) - d.without < Slots

(* NativeNoAlphaTestCompileAdmitted.                                        *)
VariantAdmitted(d) == d.without = 0 /\ Cardinality(d.tracked) < Slots

(* The body that the form without AlphaTest has to be built from.           *)
Expected(d, form) ==
  LET base == d.variants[Generated(form.shader)]
  IN IF ~form.alpha_test /\ base.state = "ready" THEN base.body ELSE NoBody

Started(d, form, async) ==
  [d EXCEPT !.variants[form] =
     [NoVariant EXCEPT !.state = IF async THEN "reading" ELSE "compiling",
                       !.body = IF async THEN NoBody ELSE files[form.shader],
                       !.expected = Expected(d, form)],
            !.tracked = @ \union {form},
            !.without = @ + (IF form.alpha_test THEN 0 ELSE 1)]

(* EnsureCompiled: a form is started once, if a slot is free; read here or  *)
(* by the job.                                                              *)
Ensured(d, form, async) ==
  IF d.variants[form].state # "none" THEN d
  ELSE IF ~(IF form.alpha_test THEN BaseSlotFree(d) ELSE VariantAdmitted(d)) THEN d
  ELSE IF ~async /\ files[form.shader] = NoBody
       THEN [d EXCEPT !.variants[form].state = "failed"]
  ELSE Started(d, form, async)

-----------------------------------------------------------------------------
(* FindPair and RequestNoAlphaTest. *)

MemoHit(pair) == memo.vs = pair.vs /\ memo.ps = pair.ps

(* Initialize of a new pair's pass may fail: the pair is unusable for good. *)
Built(d, pair, initialized) ==
  [d EXCEPT !.pairs[pair] = [NoPair EXCEPT !.built = TRUE, !.usable = initialized,
                                           !.body = d.variants[Generated(pair.ps)].blob]]

Lookup(d, answer) == [d |-> d, answer |-> answer]

(* FindPair without its memo, for a pair the filters enable: what it may    *)
(* answer.                                                                  *)
FoundPair(d0, pair, async) ==
  LET d == Reaped(d0)
      e == Ensured(Ensured(d, Generated(pair.vs), async), Generated(pair.ps), async)
      states == {e.variants[Generated(s)].state : s \in {pair.vs, pair.ps}}
  IN IF d.pairs[pair].built
     THEN {Lookup(d, IF d.pairs[pair].usable THEN "ready" ELSE "unusable")}
     ELSE IF "none" \in states THEN {Lookup(e, "not_ready")}
     ELSE IF "failed" \in states THEN {Lookup(e, "unusable")}
     ELSE IF states # {"ready"} THEN {Lookup(e, "not_ready")}
     ELSE {Lookup(Built(e, pair, TRUE), "ready"), Lookup(Built(e, pair, FALSE), "unusable")}

(* RequestNoAlphaTest: the form is adopted if a pair with this pixel shader *)
(* asked for it already, started if its slot is free, and given to the pass *)
(* once it is compiled; the pass may refuse it, for this pair only.         *)
WithVariant(d, pair, async) ==
  LET form == WithoutTest(pair.ps)
      e == Ensured(d, form, async)
      state == e.variants[form].state
      refused == [e EXCEPT !.pairs[pair].refused = TRUE]
  IN IF d.pairs[pair].variant # NoBody \/ pair.ps \notin Eligible \/ d.pairs[pair].refused THEN {d}
     ELSE IF state \notin {"ready", "failed"} THEN {e}
     ELSE IF state = "failed" THEN {refused}
     ELSE {refused, [e EXCEPT !.pairs[pair].variant = e.variants[form].blob]}

(* TryGenericPassImpl: the memo or the map, and a pair that is ready asks    *)
(* for the variant when the draw selects it.                                *)
Draw(pair, async) ==
  \E found \in FoundPair(Now, pair, async), use_memo \in BOOLEAN :
    LET r == IF use_memo /\ MemoHit(pair) THEN Lookup(Reaped(Now), "ready") ELSE found
    IN \E d \in {r.d} \union (IF r.answer = "ready" THEN WithVariant(r.d, pair, async) ELSE {}) :
         /\ variants' = d.variants /\ tracked' = d.tracked /\ without' = d.without
         /\ pairs' = d.pairs
         /\ memo' = IF use_memo /\ r.answer = "ready" THEN pair ELSE memo
         /\ UNCHANGED <<files, rewrites>>

-----------------------------------------------------------------------------
(* The jobs and the file system. *)

JobReads(form) ==
  /\ variants[form].state = "reading"
  /\ variants' = [variants EXCEPT ![form].state = "compiling", ![form].body = files[form.shader]]
  /\ UNCHANGED <<files, rewrites, tracked, without, pairs, memo>>

(* Mutant of Accepts: the body is not compared. *)
AcceptsAny(form, v) == v.body # NoBody

(* The job's own check of what it read: std::hash is the body, 0 no body.   *)
Accepts(form, v) ==
  /\ v.body # NoBody
  /\ ~form.alpha_test => v.expected # NoBody /\ v.body = v.expected

(* CompileShader may fail; the future is ready either way.                  *)
JobReturns(form, compiles) ==
  /\ variants[form].state = "compiling"
  /\ variants' = [variants EXCEPT ![form].state = "returned",
                    ![form].blob = IF Accepts(form, variants[form]) /\ compiles
                                   THEN variants[form].body ELSE NoBody]
  /\ UNCHANGED <<files, rewrites, tracked, without, pairs, memo>>

(* A generator run replaces a shader's file, or somebody removes it.        *)
Rewrite(shader, body) ==
  /\ rewrites < MaxRewrites /\ files[shader] # body
  /\ files' = [files EXCEPT ![shader] = body]
  /\ rewrites' = rewrites + 1
  /\ UNCHANGED <<variants, tracked, without, pairs, memo>>

DrawSome(pair) == \E async \in BOOLEAN : Draw(pair, async)

Next ==
  \/ \E pair \in Pairs : DrawSome(pair)
  \/ \E form \in Forms : JobReads(form) \/ \E compiles \in BOOLEAN : JobReturns(form, compiles)
  \/ \E shader \in Shaders, body \in Bodies \union {NoBody} : Rewrite(shader, body)

Spec == Init /\ [][Next]_vars

-----------------------------------------------------------------------------
(* Properties. *)

InFlight(alpha_test) ==
  {f \in Forms : /\ f.alpha_test = alpha_test
                 /\ variants[f].state \in {"reading", "compiling", "returned"}}

(* Every variable has its type; compiling_ is the forms that have a job,    *)
(* and its count of forms without AlphaTest is right.                       *)
TypeOK ==
  /\ \A f \in Forms : variants[f].state \in
                        {"none", "reading", "compiling", "returned", "ready", "failed"}
  /\ tracked = InFlight(TRUE) \union InFlight(FALSE)
  /\ without = Cardinality(InFlight(FALSE))

(* "Background compiles at once", with "one more" beside them.              *)
CompilesAreBounded ==
  Cardinality(InFlight(TRUE)) <= Slots /\ Cardinality(InFlight(FALSE)) <= 1

(* "The form without AlphaTest must be built from the same body as the      *)
(* generated form this pass already draws with", whenever the files change. *)
SameBody ==
  \A pair \in Pairs : 
    pairs[pair].variant # NoBody => pairs[pair].variant = pairs[pair].body

(* "A base compile is admitted exactly when it would be with the variant    *)
(* disabled": a shader is left without a job only when generated forms hold *)
(* every slot.                                                              *)
VariantCostsNoCompile ==
  \A pair \in Pairs : \A r \in FoundPair(Now, pair, TRUE) :
    ~r.d.pairs[pair].built /\ (\E s \in {pair.vs, pair.ps} : r.d.variants[Generated(s)].state = "none")
      => Cardinality({f \in r.d.tracked : f.alpha_test}) = Slots

(* The memo only answers for a pair that the map would answer "ready" for.  *)
MemoIsReady ==
  \A pair \in Pairs : 
    MemoHit(pair) => pairs[pair].built /\ pairs[pair].usable

=============================================================================
