----------------------------- MODULE MCMonitor ------------------------------
(***************************************************************************)
(* The instance of SettlementMonitor for TLC: one replica, one event.      *)
(***************************************************************************)
EXTENDS SettlementMonitor, TLC

CONSTANTS e1, m1

MCEventOf == m1 :> e1
=============================================================================
