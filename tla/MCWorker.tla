------------------------------ MODULE MCWorker ------------------------------
(* Two requests that share a check; the deployment anchor is confirmed, and  *)
(* two more blocks follow.                                                   *)
EXTENDS Worker
CONSTANTS q1, q2
=============================================================================
