---------------------------- MODULE MCMpscQueue -----------------------------
(* MpscQueue on two slots with two racing producers; producers and events  *)
(* are interchangeable.                                                    *)
EXTENDS MpscQueue, TLC

Symmetry == Permutations(Producers) \cup Permutations(Events)
=============================================================================
