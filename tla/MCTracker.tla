----------------------------- MODULE MCTracker -----------------------------
(* Two wallets, one product, and bytes32(0). *)
EXTENDS TrackerProperties
=============================================================================
