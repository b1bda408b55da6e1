-------------------------- MODULE CaSyncStoreProofs --------------------------
(***************************************************************************)
(* TLAPS proof that the store loop of ca_sync_get and ca_sync_put         *)
(* (CaSyncStore) implements the atomic fan-in CaSyncStoreSpec, for every  *)
(* set of ids and contents, every list of seed stores and every set of    *)
(* faults.                                                                 *)
(***************************************************************************)
EXTENDS CaSyncStore, TLAPS

\* The loop's position is a store, and every store before it could have
\* answered "not found" to the id the loop looks for.
LoopInv ==
    /\ req = Idle => gpos = 0
    /\ req # Idle =>
         /\ req \in Ids
         /\ gpos \in 0..Len(Seeds)
         /\ \A j \in 0..gpos-1 : A!NotFound \in A!StoreAnswers(j, req)

\* Every store can answer something: the vector of answers is never empty.
LEMMA AnswersNonEmpty ==
    ASSUME NEW id \in Ids, NEW i \in A!StorePositions
    PROVE  A!StoreAnswers(i, id) # {}
BY DEF A!StoreAnswers

\* An answer the loop returns at store g, after every store before g could
\* have said "not found", is an outcome of the atomic get.
LEMMA ProbeResult ==
    ASSUME NEW id \in Ids, NEW g \in 0..Len(Seeds),
           \A j \in 0..g-1 : A!NotFound \in A!StoreAnswers(j, id),
           NEW a \in A!StoreAnswers(g, id),
           a # A!NotFound \/ g = Len(Seeds)
    PROVE  a \in A!GetResults(id)
<1> USE ConstantsAssumption
<1> DEFINE SP == A!StorePositions
           SA(i) == A!StoreAnswers(i, id)
           NF == A!NotFound
           v == [i \in SP |-> IF i < g THEN NF
                              ELSE IF i = g THEN a
                              ELSE CHOOSE x \in SA(i) : TRUE]
<1>1. \A i \in SP : v[i] \in SA(i)
  <2> TAKE i \in SP
  <2>1. CASE i > g
    <3>1. SA(i) # {}
      BY AnswersNonEmpty
    <3> QED BY <2>1, <3>1 DEF A!StorePositions
  <2> QED BY <2>1 DEF A!StorePositions
<1>2. v \in {w \in [SP -> UNION {SA(i) : i \in SP}] : \A i \in SP : w[i] \in SA(i)}
  BY <1>1
<1>3. A!FirstAnswer(v) = a
  <2>0. /\ SP = 0..Len(Seeds) /\ Len(Seeds) \in Nat
        /\ \A i \in SP : i < g => v[i] = NF
        /\ v[g] = a
    BY DEF A!StorePositions
  <2>1. CASE a # NF
    <3>1. ASSUME NEW i \in SP, v[i] # NF, \A j \in 0..i-1 : v[j] = NF
          PROVE  i = g
      <4>1. ~(i < g)
        BY <2>0, <3>1
      <4>2. ~(i > g)
        <5>1. g \in Nat
          BY <2>0
        <5> SUFFICES ASSUME i > g PROVE FALSE
          OBVIOUS
        <5>2. g \in 0..i-1
          BY <2>0, <5>1
        <5>3. v[g] = NF
          BY <3>1, <5>2
        <5> QED BY <2>0, <2>1, <5>3
      <4> QED BY <2>0, <4>1, <4>2
    <3>2. g \in SP /\ v[g] # NF /\ \A j \in 0..g-1 : v[j] = NF
      BY <2>0, <2>1
    <3>3. \E i \in SP : v[i] # NF
      BY <3>2
    <3>4. (CHOOSE i \in SP : v[i] # NF /\ \A j \in 0..i-1 : v[j] = NF) = g
      BY <3>1, <3>2
    <3> QED BY <2>0, <3>3, <3>4 DEF A!FirstAnswer
  <2>2. CASE a = NF
    <3>1. g = Len(Seeds)
      BY <2>2
    <3>2. \A i \in SP : v[i] = NF
      <4> TAKE i \in SP
      <4>1. i <= g
        BY <2>0, <3>1
      <4>2. CASE i = g
        BY <2>0, <2>2, <4>2
      <4>3. CASE i < g
        BY <2>0, <4>3
      <4> QED BY <2>0, <4>1, <4>2, <4>3
    <3> QED BY <2>2, <3>2 DEF A!FirstAnswer
  <2> QED BY <2>1, <2>2
<1> QED BY <1>2, <1>3 DEF A!GetResults

\* LoopInv holds initially and is kept by every step.
LEMMA InitLoopInv == Init => LoopInv
BY DEF Init, LoopInv, Idle

LEMMA NextLoopInv == LoopInv /\ [Next]_vars => LoopInv'
<1> SUFFICES ASSUME LoopInv, [Next]_vars PROVE LoopInv'
  OBVIOUS
<1> USE ConstantsAssumption
<1>1. ASSUME NEW id \in Ids, GetBegin(id) PROVE LoopInv'
  BY <1>1 DEF GetBegin, LoopInv
<1>2. ASSUME GetProbe PROVE LoopInv'
  <2> PICK a \in A!StoreAnswers(gpos, req) :
        IF a = A!NotFound /\ gpos < Len(Seeds)
        THEN gpos' = gpos + 1 /\ UNCHANGED <<req, result>>
        ELSE /\ result' = [op |-> "get", id |-> req, ans |-> a]
             /\ req' = Idle
             /\ gpos' = 0
    BY <1>2 DEF GetProbe
  <2>0. hasWStore' = hasWStore /\ wstore' = wstore /\ req # Idle
    BY <1>2 DEF GetProbe
  <2>1. CASE a = A!NotFound /\ gpos < Len(Seeds)
    <3>2. \A j \in 0..gpos : A!NotFound \in A!StoreAnswers(j, req)
      <4>1. gpos \in Nat /\ \A j \in 0..gpos-1 : A!NotFound \in A!StoreAnswers(j, req)
        BY <2>0 DEF LoopInv
      <4>2. A!NotFound \in A!StoreAnswers(gpos, req)
        BY <2>1
      <4> QED BY <4>1, <4>2
    <3>3. \A j \in 0..gpos : A!StoreAnswers(j, req)' = A!StoreAnswers(j, req)
      BY <2>0, <2>1 DEF A!StoreAnswers
    <3> QED BY <2>0, <2>1, <3>2, <3>3 DEF LoopInv
  <2>2. CASE ~(a = A!NotFound /\ gpos < Len(Seeds))
    BY <2>2 DEF LoopInv
  <2> QED BY <2>1, <2>2
<1>3. ASSUME NEW id \in Ids, NEW d \in Data, Put(id, d) PROVE LoopInv'
  BY <1>3 DEF Put, LoopInv
<1>4. CASE UNCHANGED vars
  BY <1>4 DEF vars, LoopInv, A!StoreAnswers, A!NotFound, A!Status
<1> QED BY <1>1, <1>2, <1>3, <1>4 DEF Next

\* ca_sync_get never leaves its loop in an impossible position.
THEOREM LoopCorrect == Spec => []LoopInv
BY InitLoopInv, NextLoopInv, PTL DEF Spec

\* Every step of the loop is a step of the atomic fan-in or leaves its
\* state alone: a probe that moves on changes nothing the caller sees, and
\* the probe that ends the loop returns an outcome of the atomic get.
LEMMA StepRefines == LoopInv /\ [Next]_vars => [A!Next]_<<hasWStore, wstore, result>>
<1> SUFFICES ASSUME LoopInv, [Next]_vars PROVE [A!Next]_<<hasWStore, wstore, result>>
  OBVIOUS
<1> USE ConstantsAssumption
<1>1. ASSUME NEW id \in Ids, GetBegin(id) PROVE UNCHANGED <<hasWStore, wstore, result>>
  BY <1>1 DEF GetBegin
<1>2. ASSUME GetProbe PROVE [A!Next]_<<hasWStore, wstore, result>>
  <2> PICK a \in A!StoreAnswers(gpos, req) :
        IF a = A!NotFound /\ gpos < Len(Seeds)
        THEN gpos' = gpos + 1 /\ UNCHANGED <<req, result>>
        ELSE /\ result' = [op |-> "get", id |-> req, ans |-> a]
             /\ req' = Idle
             /\ gpos' = 0
    BY <1>2 DEF GetProbe
  <2>0. hasWStore' = hasWStore /\ wstore' = wstore /\ req # Idle
    BY <1>2 DEF GetProbe
  <2>1. CASE a = A!NotFound /\ gpos < Len(Seeds)
    BY <2>0, <2>1
  <2>2. CASE ~(a = A!NotFound /\ gpos < Len(Seeds))
    <3>1. req \in Ids /\ gpos \in 0..Len(Seeds)
          /\ \A j \in 0..gpos-1 : A!NotFound \in A!StoreAnswers(j, req)
      BY <2>0 DEF LoopInv
    <3>2. a # A!NotFound \/ gpos = Len(Seeds)
      BY <2>2, <3>1
    <3>3. a \in A!GetResults(req)
      BY <3>1, <3>2, ProbeResult
    <3>4. A!Get(req)
      BY <2>0, <2>2, <3>3 DEF A!Get
    <3> QED BY <3>1, <3>4 DEF A!Next
  <2> QED BY <2>1, <2>2
<1>3. ASSUME NEW id \in Ids, NEW d \in Data, Put(id, d) PROVE A!Next
  BY <1>3 DEF Put, A!Next
<1>4. CASE UNCHANGED vars
  BY <1>4 DEF vars
<1> QED BY <1>1, <1>2, <1>3, <1>4 DEF Next

\* The loop implements the atomic fan-in (the property StoreSpec that the
\* store runs check): ca_sync_get returns the answer of the first store
\* that does not report "not found", whatever the stores and the faults.
THEOREM Refinement == Spec => StoreSpec
<1>1. Init => A!Init
  BY DEF Init
<1>2. LoopInv /\ [Next]_vars => [A!Next]_<<hasWStore, wstore, result>>
  BY StepRefines
<1> QED BY <1>1, <1>2, LoopCorrect, PTL DEF Spec, StoreSpec, A!Spec
====
