-------------------------- MODULE MC_CaSyncDecode --------------------------
(***************************************************************************)
(* Instances of CaSyncDecode for TLC.                                      *)
(***************************************************************************)
EXTENDS CaSyncDecode

MCBytes == {0, 1}

\* Three chunks, the first and the last equal (a deduplicated chunk the
\* index names twice), one of two bytes so that a truncated copy exists.
MCArchive == << <<0>>, <<1, 1>>, <<0>> >>

\* The writable store holds the first chunk and a truncated copy of the
\* second, as a put interrupted half-way leaves it.
MCWStore == { [id |-> ObjectId(<<0>>), data |-> <<0>>],
              [id |-> ObjectId(<<1, 1>>), data |-> <<1>>] }

\* The first seed has the second chunk, the second seed has both.
MCSeeds == << { [id |-> ObjectId(<<1, 1>>), data |-> <<1, 1>>] },
              { [id |-> ObjectId(<<0>>), data |-> <<0>>],
                [id |-> ObjectId(<<1, 1>>), data |-> <<1, 1>>] } >>

\* The stores of this instance hold whole or truncated chunks only.
ASSUME MCStoresTruncatedAtWorst == StoresTruncatedAtWorst

\* Every configuration the setters can leave a decode driver in.
MCConfigs == ConfigRecords

\* Index-driven decodes into a directory given by fd.
MCConfigsIndex == {c \in ConfigRecords : c.index /\ c.base = "fd" /\ c.mode = "none"}

\* Index decodes that have a base (an fd, or a mode with or without a
\* path), so that ca_sync_start reaches ca_decoder_set_base_fd or
\* ca_decoder_set_base_mode rather than the -EUNATCH returns.
MCConfigsWithBase ==
    {c \in ConfigRecords : c.index /\ (c.base = "fd" \/ c.mode # "none")}

MCFaults == FaultPoints
MCNoFaults == {}
MCFaultsDecoderBase == {"decoder_base"}
MCFaultsStoreGet == {"store_get"}
====
