----------------------------- MODULE MCBgWorker -----------------------------
(* A small instance of BgWorker for TLC: the constants are in the cfg files. *)
EXTENDS BgWorker
=============================================================================
