--------------------------- MODULE MC_CaSyncStore ---------------------------
(***************************************************************************)
(* Constants for TLC: two ids, two contents, two seed stores.  The seeds  *)
(* disagree with each other on i1, so the order of the search decides the *)
(* answer, and only the second seed holds i2.                              *)
(***************************************************************************)
EXTENDS CaSyncStore

CONSTANTS i1, i2, d1, d2

MCIds == {i1, i2}
MCData == {d1, d2}

MCSeeds == << {[id |-> i1, data |-> d1]},
              {[id |-> i1, data |-> d2], [id |-> i2, data |-> d2]} >>

\* Every failure the store calls may report.
MCFaults == {"store_get", "null_store", "store_put"}
====
