--------------------------- MODULE CaSyncStoreSpec ---------------------------
(***************************************************************************)
(* What the store fan-in of casync.c promises (spec.md section 4.5), as   *)
(* one atomic step per call.                                               *)
(*                                                                         *)
(* get(id) answers with the first store, in priority order (the writable  *)
(* store, then the seed stores in registration order), whose answer is    *)
(* not "not found"; if every store answers "not found", so does get.       *)
(* put(id, data) goes to the writable store, and fails read-only without  *)
(* one.  result is the outcome of the last completed call.                *)
(***************************************************************************)
EXTENDS Naturals, Sequences

CONSTANTS
    Ids,        \* object ids
    Data,       \* object contents
    Seeds,      \* the seed stores' objects, in registration order
    Faults      \* the store calls that may fail

VARIABLES
    hasWStore,  \* s->wstore is set (by ca_sync_set_store_local)
    wstore,     \* the objects of the writable store
    result      \* the outcome of the last completed get or put

Objects == [id : Ids, data : Data]

\* An answer with data (an object found), and the answers without data.
Answer(kind, data) == [kind |-> kind, data |-> data]
Status(kind) == [kind |-> kind]
NotFound == Status("notfound")
Failed == Status("error")

\* The stores by priority: 0 is the writable store, i > 0 the i-th seed.
StorePositions == 0..Len(Seeds)

\* The answers ca_store_get may give for id from the store at position i.
\* Without a writable store the call is made on NULL; the store is not in
\* this repository, so it may answer not-found or fail.
StoreAnswers(i, id) ==
    IF i = 0 /\ ~hasWStore
    THEN {NotFound} \cup (IF "null_store" \in Faults THEN {Failed} ELSE {})
    ELSE LET S == IF i = 0 THEN wstore ELSE Seeds[i]
             found == {Answer("found", o.data) : o \in {o \in S : o.id = id}}
         IN  (IF found = {} THEN {NotFound} ELSE found)
             \cup (IF "store_get" \in Faults THEN {Failed} ELSE {})

\* The first answer of the vector a that is not "not found".
FirstAnswer(a) ==
    IF \E i \in StorePositions : a[i] # NotFound
    THEN a[CHOOSE i \in StorePositions :
              a[i] # NotFound /\ \A j \in 0..i-1 : a[j] = NotFound]
    ELSE NotFound

\* Every outcome get(id) may have: one answer per store, the first that is
\* not "not found" wins.
GetResults(id) ==
    {FirstAnswer(a) : a \in {a \in [StorePositions -> UNION {StoreAnswers(i, id) : i \in StorePositions}] :
                              \A i \in StorePositions : a[i] \in StoreAnswers(i, id)}}

\* The configuration is complete: a writable store is there or not, and
\* holds whatever objects earlier runs left in it.
Init ==
    /\ hasWStore \in BOOLEAN
    /\ wstore \in SUBSET Objects
    /\ ~hasWStore => wstore = {}
    /\ result = [op |-> "none"]

Get(id) ==
    /\ \E ans \in GetResults(id) : result' = [op |-> "get", id |-> id, ans |-> ans]
    /\ UNCHANGED <<hasWStore, wstore>>

Put(id, d) ==
    /\ UNCHANGED hasWStore
    /\ \/ /\ ~hasWStore
          /\ result' = [op |-> "put", id |-> id, ans |-> Status("erofs")]
          /\ UNCHANGED wstore
       \/ /\ hasWStore
          /\ wstore' = wstore \cup {[id |-> id, data |-> d]}
          /\ result' = [op |-> "put", id |-> id, ans |-> Status("ok")]
       \/ /\ hasWStore
          /\ "store_put" \in Faults
          /\ result' = [op |-> "put", id |-> id, ans |-> Failed]
          /\ UNCHANGED wstore

Next == \E id \in Ids : Get(id) \/ \E d \in Data : Put(id, d)

Spec == Init /\ [][Next]_<<hasWStore, wstore, result>>
====
