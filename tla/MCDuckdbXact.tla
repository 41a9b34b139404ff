---------------------------- MODULE MCDuckdbXact ----------------------------
(* A small instance of DuckdbXact for TLC: the constants are in the cfg files. *)
EXTENDS DuckdbXact
=============================================================================
