---------------------------- MODULE MCWebServer -----------------------------
(* Small instances of WebServer.                                           *)
EXTENDS WebServer, TLC

Symmetry == Permutations(Conn)
=============================================================================
