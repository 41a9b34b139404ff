------------------------- MODULE MCInstanceRefresh -------------------------
(* A small instance of InstanceRefresh: the constants are in the cfg file. *)
EXTENDS InstanceRefresh
=============================================================================
