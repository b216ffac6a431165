--------------------------- MODULE MCRegistration ---------------------------
(***************************************************************************)
(* A registration, its cancellation under the same nonce, and a metadata   *)
(* update under the next.                                                  *)
(***************************************************************************)
EXTENDS RegistrationProperties, TLC

CONSTANTS first, cancel, update

MCKind == [t \in Txs |-> CASE t = first -> "registration"
                           [] t = cancel -> "cancellation"
                           [] t = update -> "metadata"]
MCNonce == [t \in Txs |-> IF t = update THEN 1 ELSE 0]
MCSays == [t \in Txs |-> IF t = update THEN "n1" ELSE "n0"]
=============================================================================
