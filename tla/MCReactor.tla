----------------------------- MODULE MCReactor ------------------------------
(* A small instance of Reactor.                                            *)
EXTENDS Reactor
=============================================================================
