---------------------------- MODULE NativePipelines ----------------------------
(***************************************************************************)
(* The pipelines of the native geometry passes (NativeGeometryPass::Record, *)
(* GetPipeline, FindNoAlphaTestPipeline, CreatePipeline, ReapPipelines):    *)
(* every pass creates its pipelines on workers, a few at a time, and draws  *)
(* stay emulated until theirs is there.  A pass may also hold the pixel     *)
(* shader without AlphaTest, whose pipelines are created beside the others. *)
(***************************************************************************)
EXTENDS Integers, FiniteSets

CONSTANTS
  Passes,      (* the shader pairs' passes                                  *)
  States,      (* pipeline states a draw may ask for                        *)
  Culled,      (* those that cull both faces                                *)
  Slots,       (* MaxPipelinesInFlight                                      *)
  VariantSlots (* kNativeNoAlphaTestPipelinesInFlight                       *)

NativePipelinesAssumption ==
  /\ Culled \subseteq States
  /\ Slots \in Nat \ {0} /\ VariantSlots \in Nat \ {0}

VARIABLES
  pass,       (* what each pass holds beside its pipelines                  *)
  pipelines,  (* each pass's pipelines_ and pending_pipelines_              *)
  in_flight   (* g_no_alpha_test_pipelines_in_flight                        *)

vars == <<pass, pipelines, in_flight>>

Base == "base"
Variant == "no_alpha_test"

Keys == [state : States, word18 : BOOLEAN]

(* Absent, with a worker, returned by it, and known to be good or bad; then *)
(* the pixel shader the pipeline is built with.                             *)
Statuses == {"absent", "running", "good_result", "bad_result", "ready", "bad"}
NoPipeline == [status |-> "absent", shader |-> Base]

NoMemo == [valid |-> FALSE, key |-> [state |-> CHOOSE s \in States : TRUE, word18 |-> FALSE]]
NewPass == [variant |-> FALSE, failed |-> FALSE, memo |-> NoMemo]

Init ==
  /\ pass = [p \in Passes |-> NewPass]
  /\ pipelines = [p \in Passes |-> [k \in Keys |-> NoPipeline]]
  /\ in_flight = 0

-----------------------------------------------------------------------------
(* A draw works on its pass: [pass, pipelines, in_flight].                  *)

At(p) == [pass |-> pass[p], pipelines |-> pipelines[p], in_flight |-> in_flight]

PendingOf(lines) == {k \in Keys : lines[k].status \in {"running", "good_result", "bad_result"}}
VariantsOf(keys) == {k \in keys : k.word18}

(* PipelineKeyFor.                                                          *)
KeyFor(state, variant) == [state |-> state, word18 |-> variant]

(* Mutant of Reaped: a failed creation is forgotten and tried again. *)
ReapedForRetry(d) ==
  [d EXCEPT !.pipelines = [k \in Keys |->
              [d.pipelines[k] EXCEPT !.status = CASE @ = "good_result" -> "ready"
                                                  [] @ = "bad_result" -> "absent"
                                                  [] OTHER -> @]]]

(* ReapPipelines: a variant that failed disables the variant in this pass.  *)
Reaped(d) ==
  [d EXCEPT !.pass.failed = @ \/ \E k \in Keys : k.word18 /\ d.pipelines[k].status = "bad_result",
            !.pipelines = [k \in Keys |->
              [d.pipelines[k] EXCEPT !.status = CASE @ = "good_result" -> "ready"
                                                  [] @ = "bad_result" -> "bad"
                                                  [] OTHER -> @]]]

(* NativeBaseSlotFree.                                                      *)
BaseSlotFree(d) ==
  Cardinality(PendingOf(d.pipelines)) - Cardinality(VariantsOf(PendingOf(d.pipelines))) < Slots

(* NativeNoAlphaTestPipelineAdmitted.                                       *)
VariantAdmitted(d) == PendingOf(d.pipelines) = {} /\ d.in_flight < VariantSlots

(* CreatePipeline: nothing for a state that culls both faces, ever; else a  *)
(* worker's, if it is admitted.                                             *)
Create(d, key, variant) ==
  IF key.state \in Culled
  THEN [d EXCEPT !.pipelines[key] = [status |-> "bad", shader |-> Base]]
  ELSE IF ~(IF variant THEN VariantAdmitted(d) ELSE BaseSlotFree(d)) THEN d
  ELSE [d EXCEPT !.pipelines[key] = [status |-> "running",
                                     shader |-> IF variant THEN Variant ELSE Base],
                 !.in_flight = @ + (IF variant THEN 1 ELSE 0)]

Ready(d, key) == d.pipelines[key].status = "ready"

(* Mutant of MemoHit: the word of the pixel shader is not compared. *)
MemoHitByState(d, key, reuse) ==
  reuse /\ d.pass.memo.valid /\ d.pass.memo.key.state = key.state

(* NativeReadyPipelineReuse: the last ready pipeline, found by all words.   *)
MemoHit(d, key, reuse) == reuse /\ d.pass.memo = [valid |-> TRUE, key |-> key]

Found(d, key, reuse) == MemoHit(d, key, reuse) \/ Ready(d, key)
ShaderOf(d, key, reuse) ==
  d.pipelines[IF MemoHit(d, key, reuse) THEN d.pass.memo.key ELSE key].shader
Published(d, key, reuse) ==
  IF reuse THEN [d EXCEPT !.pass.memo = IF MemoHit(d, key, reuse) THEN @
                                        ELSE [valid |-> TRUE, key |-> key]]
  ELSE d

-----------------------------------------------------------------------------
(* Draws. *)

Answer(d, answer, shader) == [draw |-> d, answer |-> answer, shader |-> shader]

(* NativeAlphaTestVariantSelected, with the shader there and not failed.    *)
WantsVariant(d, alpha) ==
  ~alpha.discards /\ alpha.helps /\ d.pass.variant /\ ~d.pass.failed

(* GetPipeline for the generated shader; behind a ready one, the variant's  *)
(* own pipeline is queued if it was absent.                                 *)
BaseAnswer(d, base, variant, queue_variant, reuse) ==
  LET status == d.pipelines[base].status
      queue == queue_variant /\ ~d.pass.failed /\ VariantAdmitted(d)
      done == Published(d, base, reuse)
      made == Create(d, base, FALSE)
  IN CASE Found(d, base, reuse) ->
            Answer(IF queue THEN Create(done, variant, TRUE) ELSE done, "drawn",
                   ShaderOf(d, base, reuse))
       [] ~Found(d, base, reuse) /\ status = "absent" ->
            Answer(made, IF made = d THEN "no_slot" ELSE "queued", Base)
       [] OTHER -> Answer(d, IF status = "bad" THEN "bad" ELSE "pending", Base)

(* Record's choice: FindNoAlphaTestPipeline, which creates nothing, and the *)
(* base pipeline unless that one is ready.                                  *)
Chosen(p, state, alpha, reuse) ==
  LET d == Reaped(At(p))
      base == KeyFor(state, FALSE)
      variant == KeyFor(state, TRUE)
      want == WantsVariant(At(p), alpha)
  IN IF want /\ Found(d, variant, reuse)
     THEN Answer(Published(d, variant, reuse), "drawn", ShaderOf(d, variant, reuse))
     ELSE BaseAnswer([d EXCEPT !.pass.memo = IF reuse THEN @ ELSE NoMemo], base, variant,
                     want /\ d.pipelines[variant].status = "absent", reuse)

(* TryGenericPassImpl and Record.                                           *)
Draw(p, state, alpha, reuse) ==
  \E r \in {Chosen(p, state, alpha, reuse).draw} :
    /\ pass' = [pass EXCEPT ![p] = r.pass]
    /\ pipelines' = [pipelines EXCEPT ![p] = r.pipelines]
    /\ in_flight' = r.in_flight

(* SetNoAlphaTestPixelShader.                                               *)
SetVariant(p) ==
  /\ ~pass[p].variant
  /\ pass' = [pass EXCEPT ![p].variant = TRUE]
  /\ UNCHANGED <<pipelines, in_flight>>

Uncounted(key, good) == IF key.word18 THEN 1 ELSE 0

(* A worker: the driver answers, and the creation is no longer in flight,   *)
(* whether or not the pass ever reaps it.                                   *)
CreationReturns(p, key, good) ==
  /\ pipelines[p][key].status = "running"
  /\ pipelines' = [pipelines EXCEPT ![p][key].status =
                     IF good THEN "good_result" ELSE "bad_result"]
  /\ in_flight' = in_flight - Uncounted(key, good)
  /\ UNCHANGED pass

Alphas == [discards : BOOLEAN, helps : BOOLEAN]

Next ==
  \/ \E p \in Passes, s \in States, a \in Alphas, reuse \in BOOLEAN : Draw(p, s, a, reuse)
  \/ \E p \in Passes : SetVariant(p)
  \/ \E p \in Passes, k \in Keys, good \in BOOLEAN : CreationReturns(p, k, good)

Spec == Init /\ [][Next]_vars

-----------------------------------------------------------------------------
(* Properties. *)

Running(word18) ==
  {x \in Passes \X Keys : pipelines[x[1]][x[2]].status = "running" /\ x[2].word18 = word18}

(* Every variable has its type, and no pass has more base creations than    *)
(* its slots.                                                               *)
TypeOK ==
  /\ \A p \in Passes, k \in Keys : /\ pipelines[p][k].status \in Statuses
                                  /\ k.word18 => pass[p].variant \/ pipelines[p][k] = NoPipeline
  /\ \A p \in Passes : Cardinality({k \in PendingOf(pipelines[p]) : ~k.word18}) <= Slots

(* The count that workers and passes share is exact and within its limit:   *)
(* "the worker uncounts itself whatever the result".                        *)
VariantsInFlight == in_flight = Cardinality(Running(TRUE)) /\ in_flight <= VariantSlots

(* "A draw whose alpha test can discard never finds a pipeline without      *)
(* AlphaTest", in the map or in the memo, whichever draw comes next.        *)
DiscardIsKept ==
  \A p \in Passes, s \in States, a \in Alphas, reuse \in BOOLEAN :
    LET r == Chosen(p, s, a, reuse)
    IN r.answer = "drawn" /\ a.discards => r.shader = Base

(* "No draw is refused or left emulated for a slot the variant holds": the  *)
(* next draw finds no slot only when base creations hold them all, and is   *)
(* drawn if its base pipeline is ready, whatever became of the variant's.   *)
VariantCostsNoDraw ==
  \A p \in Passes, s \in States, a \in Alphas, reuse \in BOOLEAN :
    LET r == Chosen(p, s, a, reuse)
        pending == PendingOf(r.draw.pipelines)
    IN /\ r.answer = "no_slot" => Cardinality(pending \ VariantsOf(pending)) = Slots
       /\ Ready(r.draw, KeyFor(s, FALSE)) => r.answer = "drawn"

=============================================================================
