---------------------------- MODULE ScanPromise ----------------------------
(***************************************************************************)
(* What the scan of a Postgres table promises to DuckDB, whoever reads the *)
(* tuples: each one is handed over at most once while the scan is open,    *)
(* and a scan that ends without an error has handed over every one.  DuckDB*)
(* may abandon a scan it needs no more of.                                 *)
(***************************************************************************)
EXTENDS Naturals

CONSTANT Tuples     \* tuples of the table

VARIABLES
    rows,           \* rows[n]: how often tuple n was handed over
    state           \* "scanning", "complete", "abandoned" or "failed"

promiseVars == <<rows, state>>

Init ==
    /\ rows = [n \in 1..Tuples |-> 0]
    /\ state = "scanning"

HandOver(n) ==
    /\ state = "scanning"
    /\ rows[n] = 0
    /\ rows' = [rows EXCEPT ![n] = 1]
    /\ UNCHANGED state

Complete ==
    /\ state = "scanning"
    /\ \A n \in 1..Tuples : rows[n] = 1
    /\ state' = "complete"
    /\ UNCHANGED rows

Stop ==
    /\ state = "scanning"
    /\ state' \in {"abandoned", "failed"}
    /\ UNCHANGED rows

Next == (\E n \in 1..Tuples : HandOver(n)) \/ Complete \/ Stop

Spec == Init /\ [][Next]_promiseVars
=============================================================================
