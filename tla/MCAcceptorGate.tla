--------------------------- MODULE MCAcceptorGate ---------------------------
(* A small instance of AcceptorGate.                                       *)
EXTENDS AcceptorGate
=============================================================================
