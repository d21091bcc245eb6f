----------------------------- MODULE MCDelivery -----------------------------
(***************************************************************************)
(* Instances of SettlementDelivery for TLC.                                *)
(***************************************************************************)
EXTENDS SettlementDelivery, TLC

CONSTANTS e1, m1, m2

MCEvents == {e1}
MCMarkets == {m1, m2}
MCEventOf == (m1 :> e1) @@ (m2 :> e1)
=============================================================================
