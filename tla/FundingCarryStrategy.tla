------------------------ MODULE FundingCarryStrategy ------------------------
(***************************************************************************)
(* strategy/carry/funding_carry_strategy.hpp: on a funding settlement of   *)
(* the futures leg, go long spot and short futures when the rate pays,     *)
(* close both when it does not, and otherwise follow the spot position.    *)
(***************************************************************************)
EXTENDS Portfolio

CONSTANTS TargetQty,         \* target_qty
          EntryFundingRate,  \* entry_funding_rate, times Scale
          ExitFundingRate    \* exit_funding_rate, times Scale

ASSUME CarryAssumption == TargetQty \in Int /\ EntryFundingRate \in Int /\ ExitFundingRate \in Int

Intents == [leg : Legs, target : Int]

CarryTarget(rate) == IF rate >= EntryFundingRate THEN TargetQty
                     ELSE IF rate <= ExitFundingRate THEN 0
                     ELSE positions[Spot]

\* Mutant: each leg follows its own position between the two thresholds.
CarryOnEvent_OwnLeg(ev) ==
    IF ev.kind # "funding" \/ ev.leg # Futures THEN << >>
    ELSE << [leg |-> Spot, target |-> CarryTarget(ev.value)],
            [leg |-> Futures,
             target |-> IF ev.value < EntryFundingRate /\ ev.value > ExitFundingRate
                        THEN positions[Futures] ELSE -CarryTarget(ev.value)] >>

CarryOnEvent(ev) ==
    IF ev.kind # "funding" \/ ev.leg # Futures THEN << >>
    ELSE << [leg |-> Spot, target |-> CarryTarget(ev.value)],
            [leg |-> Futures, target |-> -CarryTarget(ev.value)] >>
=============================================================================
