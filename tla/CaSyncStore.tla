----------------------------- MODULE CaSyncStore -----------------------------
(***************************************************************************)
(* ca_sync_get and ca_sync_put of casync.c (lines 831-869), with the loop *)
(* of ca_sync_get taken one store per step: gpos is the store the loop    *)
(* asks next, req the id it looks for.  The stores answer as in           *)
(* CaSyncStoreSpec; this module is shown to implement that specification, *)
(* whose get is one atomic step.                                          *)
(***************************************************************************)
EXTENDS Naturals, Sequences

CONSTANTS Ids, Data, Seeds, Faults

VARIABLES hasWStore, wstore, result, req, gpos

vars == <<hasWStore, wstore, result, req, gpos>>

A == INSTANCE CaSyncStoreSpec

\* No ca_sync_get is running.
Idle == "idle"

ASSUME ConstantsAssumption ==
    /\ Idle \notin Ids
    /\ Seeds \in Seq(SUBSET A!Objects)
    /\ Faults \subseteq {"store_get", "null_store", "store_put"}

Init ==
    /\ A!Init
    /\ req = Idle
    /\ gpos = 0

\* ca_sync_get is called for id; the loop starts at the writable store.
GetBegin(id) ==
    /\ req = Idle
    /\ req' = id
    /\ gpos' = 0
    /\ UNCHANGED <<hasWStore, wstore, result>>

\* Mutant: an error from a store is skipped like "not found".
GetProbeSkipErrors ==
    /\ req # Idle
    /\ \E a \in A!StoreAnswers(gpos, req) :
         IF a.kind \in {"notfound", "error"} /\ gpos < Len(Seeds)
         THEN gpos' = gpos + 1 /\ UNCHANGED <<req, result>>
         ELSE /\ result' = [op |-> "get", id |-> req, ans |-> a]
              /\ req' = Idle
              /\ gpos' = 0
    /\ UNCHANGED <<hasWStore, wstore>>

\* One ca_store_get of the loop: -ENOENT moves on to the next store; any
\* other answer, or -ENOENT from the last store, is the result.
GetProbe ==
    /\ req # Idle
    /\ \E a \in A!StoreAnswers(gpos, req) :
         IF a = A!NotFound /\ gpos < Len(Seeds)
         THEN gpos' = gpos + 1 /\ UNCHANGED <<req, result>>
         ELSE /\ result' = [op |-> "get", id |-> req, ans |-> a]
              /\ req' = Idle
              /\ gpos' = 0
    /\ UNCHANGED <<hasWStore, wstore>>

\* Mutant: the -EROFS check is dropped and the put reaches a store.
PutNoEROFS(id, d) ==
    /\ req = Idle
    /\ UNCHANGED hasWStore
    /\ wstore' = wstore \cup {[id |-> id, data |-> d]}
    /\ result' = [op |-> "put", id |-> id, ans |-> A!Status("ok")]
    /\ UNCHANGED <<req, gpos>>

\* ca_sync_put: -EROFS without a writable store, else ca_store_put.
Put(id, d) ==
    /\ req = Idle
    /\ A!Put(id, d)
    /\ UNCHANGED <<req, gpos>>

Next ==
    \/ \E id \in Ids : GetBegin(id)
    \/ GetProbe
    \/ \E id \in Ids, d \in Data : Put(id, d)

Spec == Init /\ [][Next]_vars

\* Spec.md section 4.5 and its "store fan-in priority" property: every
\* completed ca_sync_get returns what the atomic fan-in would, i.e. the
\* answer of the first store in priority order that does not report
\* -ENOENT.  An error must stop the search, and no store may be skipped.
StoreSpec == A!Spec
====
