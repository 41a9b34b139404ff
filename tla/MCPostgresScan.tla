--------------------------- MODULE MCPostgresScan ---------------------------
(* Small instances of PostgresScan for TLC: the constants are in the cfg files. *)
EXTENDS PostgresScan
=============================================================================
