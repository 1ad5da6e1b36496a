-------------------------- MODULE MCBufferedReader --------------------------
(* Streams of distinct bytes, up to more than three buffers long.          *)
EXTENDS BufferedReader

MCStreams == {[i \in 1 .. n |-> i] : n \in 0 .. 10}
MCSize == 3
=============================================================================
