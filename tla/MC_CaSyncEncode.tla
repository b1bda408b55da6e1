-------------------------- MODULE MC_CaSyncEncode --------------------------
(***************************************************************************)
(* Instances of CaSyncEncode for TLC.                                      *)
(***************************************************************************)
EXTENDS CaSyncEncode

\* Two byte values tell chunks apart; streams of up to four bytes (three in
\* the violation runs) in units of up to two bytes let a chunk straddle two
\* units, let a unit hold two cuts, and let two chunks have equal content.
MCBytes == {0, 1}

\* Every configuration the setters can produce.
MCConfigs == ConfigRecords

\* Every external call may fail.
MCFaults == FaultPoints

\* Writable store and index both configured.
MCConfigsStoreIndex == {c \in ConfigRecords : c.wstore /\ c.index /\ c.base}

\* Encode with an archive path, store and index, the store failing.
MCConfigsPathStore == {c \in ConfigRecords : c.wstore /\ c.base /\ c.archive = "path"}
MCFaultsStore == {"store_put"}

MCNoFaults == {}
====
