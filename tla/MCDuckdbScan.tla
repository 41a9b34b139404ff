---------------------------- MODULE MCDuckdbScan ----------------------------
(* Model values for DuckdbScan: two portals, one Postgres table.            *)
EXTENDS DuckdbScan

CONSTANTS p1, p2, t1

MCPortals == {p1, p2}
MCTables == {t1}
=============================================================================
