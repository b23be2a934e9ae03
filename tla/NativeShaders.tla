----------------------------- MODULE NativeShaders -----------------------------
(***************************************************************************)
(* The compiled shaders' three homes in one run: a shader library, the      *)
(* passes' pipelines and the disk cache.  They share no state, so a         *)
(* behaviour is one of a single component, chosen at first, and the others  *)
(* rest in their initial states.                                            *)
(***************************************************************************)
EXTENDS NativeShaderLibrary

CONSTANTS
  a,           (* the pass that is drawn again and again                    *)
  Passes, States, Culled, VariantSlots,
  Writers, Pid, Nothing, MaxNames, MaxAttempts, MaxDamages, MaxCrashes

VARIABLES component, pass, pipelines, in_flight, entry, temporaries, sequence, writer, faults

Pipelines == INSTANCE NativePipelines
DiskCache == INSTANCE NativeShaderCache WITH Blobs <- Bodies

ASSUME ShadersAssumption ==
  Pipelines!NativePipelinesAssumption /\ DiskCache!NativeShaderCacheAssumption

pipelinesVars == <<pass, pipelines, in_flight>>
diskVars == <<entry, temporaries, sequence, writer, faults>>
allVars == <<vars, pipelinesVars, diskVars, component>>

AllInit ==
  /\ component \in {"library", "pipelines", "disk_cache"}
  /\ Init /\ Pipelines!Init
  /\ DiskCache!Init /\ (component # "disk_cache" => ~entry.exists)

AllNext ==
  \/ /\ component = "library" /\ Next
     /\ UNCHANGED <<pipelinesVars, diskVars, component>>
  \/ /\ component = "pipelines" /\ Pipelines!Next
     /\ UNCHANGED <<vars, diskVars, component>>
  \/ /\ component = "disk_cache" /\ DiskCache!Next
     /\ UNCHANGED <<vars, pipelinesVars, component>>

(* Fairness for the pass a alone: its creations end, and it is drawn with   *)
(* every state again and again, as the guest does frame by frame.  No other *)
(* pass need be drawn again, nor any form without AlphaTest be created.     *)
OfPipelines == component = "pipelines" /\ UNCHANGED <<vars, diskVars, component>>

AllSpec ==
  /\ AllInit /\ [][AllNext]_allVars
  /\ \A key \in Pipelines!Keys :
       ~key.word18 =>
         WF_allVars(OfPipelines /\ \E good \in BOOLEAN : Pipelines!CreationReturns(a, key, good))
  /\ \A s \in States :
       WF_allVars(OfPipelines /\ \E alpha \in Pipelines!Alphas, reuse \in BOOLEAN :
                                  Pipelines!Draw(a, s, alpha, reuse))

-----------------------------------------------------------------------------
(* The components' properties. *)

(* The library: both forms of a shader are compiled from the same body,     *)
(* compiles are bounded, and a remembered pair is ready.  The disk cache    *)
(* hands out whole shaders only.  Every component keeps its shape.          *)
LibraryInv ==
  /\ component = "library" => TypeOK /\ CompilesAreBounded /\ SameBody /\ MemoIsReady
  /\ component = "pipelines" => Pipelines!TypeOK
  /\ component = "disk_cache" => DiskCache!TypeOK /\ DiskCache!ShaderIsWhole

(* What a pass draws with: the generated shader for a draw that can         *)
(* discard, whichever pipelines and memo it finds.                          *)
DiscardIsKept == component = "pipelines" => Pipelines!DiscardIsKept

(* The form without AlphaTest costs no shader its compile and no draw its   *)
(* pipeline, and its creations are counted exactly over all passes.         *)
VariantCostsNothing ==
  /\ component = "library" => VariantCostsNoCompile
  /\ component = "pipelines" => Pipelines!VariantCostsNoDraw /\ Pipelines!VariantsInFlight

(* Only a fault from outside changes a cache entry that is there.           *)
EntryIsNeverReplaced == DiskCache!EntryIsNeverReplaced

(* Store claims success only when the entry holds its bytes.                *)
StoreIsTruthful == DiskCache!StoreIsTruthful

(* Every state the pass is drawn with gets its pipeline, or is known not    *)
(* to have one, whatever the other passes and the variant have in flight.   *)
EveryStateIsResolved ==
  \A s \in States :
    <>[](component = "pipelines" =>
           pipelines[a][Pipelines!KeyFor(s, FALSE)].status \in {"ready", "bad"})

=============================================================================
