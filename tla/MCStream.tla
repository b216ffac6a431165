------------------------------ MODULE MCStream ------------------------------
(* One page and two connections: the old one may still be open, or its     *)
(* queue left behind, when the page connects again.                        *)
EXTENDS Stream
CONSTANTS s1, s2
=============================================================================
