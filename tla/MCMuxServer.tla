---------------------------- MODULE MCMuxServer ----------------------------
(* MuxServer on small instances.  Connections are interchangeable, and so   *)
(* are stream ids; the symmetry sets are used in the safety runs only.      *)
EXTENDS MuxServer, TLC

Symmetry == Permutations(Conns) \cup Permutations(Sids)
=============================================================================
