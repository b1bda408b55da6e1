------------------------- MODULE CaSyncFlattenProofs -------------------------
(***************************************************************************)
(* Lemmas about FlattenSeq of the community module SequencesExt, the       *)
(* concatenation of a sequence of chunks that the encode and decode models *)
(* use for the archive stream.                                             *)
(*                                                                         *)
(* FlattenSeq is defined by a recursive function over 1..Len(seqs) inside  *)
(* a LET, that is, by a CHOOSE of a function meeting its defining          *)
(* equation.  That such a function exists, and that it is unique, needs    *)
(* induction; the library's induction theorems take the predicate as an    *)
(* operator parameter, which the provers cannot instantiate, so the        *)
(* induction is done here by a least counterexample: WFMin applied to the  *)
(* well-founded < on Nat and to the set of the lengths where the claim     *)
(* fails, which is first-order.                                            *)
(***************************************************************************)
EXTENDS Naturals, Sequences, SequencesExt, WellFoundedInduction, TLAPS

\* g is the function of prefix concatenations of s on 1..n, the function
\* FlattenSeq's LET defines.
FlatEq(s, g, n) == g = [i \in 1..n |-> IF i = 1 THEN s[i] ELSE g[i-1] \o s[i]]

\* The function FlattenSeq(s) takes its last value from.
FlatFn(s) == CHOOSE g : FlatEq(s, g, Len(s))

\* FlattenSeq unfolds to FlatFn.
LEMMA FlattenSeqIsFlatFn ==
  ASSUME NEW s
  PROVE  FlattenSeq(s) = IF Len(s) = 0 THEN s ELSE FlatFn(s)[Len(s)]
BY DEF FlattenSeq, FlatFn, FlatEq

\* Its two cases.
LEMMA FlattenSeqEmpty ==
  ASSUME NEW S, NEW s \in Seq(S), Len(s) = 0
  PROVE  FlattenSeq(s) = <<>>
<1>1. FlattenSeq(s) = s
  BY FlattenSeqIsFlatFn
<1> QED BY <1>1

LEMMA FlattenSeqNonEmpty ==
  ASSUME NEW s, Len(s) # 0
  PROVE  FlattenSeq(s) = FlatFn(s)[Len(s)]
BY FlattenSeqIsFlatFn

\* The least element of a non-empty set of naturals, by WFMin.
LEMMA LeastNat ==
  ASSUME NEW T \in SUBSET Nat, T # {}
  PROVE  \E m \in T : \A y \in T : ~(y < m)
<1>1. PICK m \in T : \A y \in T : ~(<<y, m>> \in OpToRel(<, Nat))
  BY NatLessThanWellFounded, WFMin, Zenon
<1>2. \A y \in T : ~(y < m)
  BY <1>1 DEF OpToRel
<1> QED BY <1>2

\* For every length up to Len(s) the prefix-concatenation function exists.
LEMMA FlatPrefixesExist ==
  ASSUME NEW S, NEW s \in Seq(S)
  PROVE  \A n \in 0..Len(s) : \E g : FlatEq(s, g, n)
<1> DEFINE T == {n \in 0..Len(s) : ~\E g : FlatEq(s, g, n)}
<1> SUFFICES ASSUME T # {} PROVE FALSE
  OBVIOUS
<1>1. PICK m \in T : \A y \in T : ~(y < m)
  <2>1. T \subseteq Nat
    BY DEF T
  <2> QED BY <2>1, LeastNat
<1>2. m \in 1..Len(s)
  <2>1. m \in 0..Len(s) /\ ~\E g : FlatEq(s, g, m)
    BY DEF T
  <2>2. FlatEq(s, [i \in 1..0 |-> s[i]], 0)
    BY DEF FlatEq
  <2>3. m # 0
    BY <2>1, <2>2, Zenon
  <2> QED BY <2>1, <2>3
<1>3. PICK g : FlatEq(s, g, m - 1)
  <2>1. m - 1 \in 0..Len(s) /\ m - 1 < m
    BY <1>2
  <2>2. m - 1 \notin T
    BY <2>1, <1>1
  <2> QED BY <2>1, <2>2 DEF T
<1>4. \A j \in 1..(m-1) : g[j] = IF j = 1 THEN s[j] ELSE g[j-1] \o s[j]
  BY <1>3, Zenon DEF FlatEq
<1> DEFINE h == [i \in 1..m |-> IF i < m THEN g[i]
                                ELSE IF m = 1 THEN s[m] ELSE g[m-1] \o s[m]]
<1>5. ASSUME NEW i \in 1..m PROVE h[i] = IF i = 1 THEN s[i] ELSE h[i-1] \o s[i]
  <2>1. CASE i < m
    <3>1. g[i] = IF i = 1 THEN s[i] ELSE g[i-1] \o s[i]
      BY <2>1, <1>2, <1>4
    <3>2. i > 1 => h[i-1] = g[i-1]
      BY <2>1
    <3> QED BY <2>1, <3>1, <3>2
  <2>2. CASE i = m
    BY <2>2, <1>2
  <2> QED BY <2>1, <2>2
<1>6. FlatEq(s, h, m)
  BY <1>5 DEF FlatEq
<1> QED BY <1>1, <1>2, <1>6 DEF T

\* FlatFn(s) meets FlattenSeq's defining equation.
LEMMA FlatFnDef ==
  ASSUME NEW S, NEW s \in Seq(S)
  PROVE  FlatEq(s, FlatFn(s), Len(s))
<1>1. \E g : FlatEq(s, g, Len(s))
  BY FlatPrefixesExist
<1> QED BY <1>1 DEF FlatFn

\* The defining equation has one solution on each length.
LEMMA FlatEqUnique ==
  ASSUME NEW s, NEW n \in Nat, NEW g, NEW h, FlatEq(s, g, n), FlatEq(s, h, n)
  PROVE  g = h
<1> DEFINE T == {i \in 1..n : g[i] # h[i]}
<1>1. T = {}
  <2> SUFFICES ASSUME T # {} PROVE FALSE
    OBVIOUS
  <2>1. PICK m \in T : \A y \in T : ~(y < m)
    <3>1. T \subseteq Nat
      BY DEF T
    <3> QED BY <3>1, LeastNat
  <2>2. m \in 1..n /\ g[m] # h[m]
    BY DEF T
  <2>3. g[m] = IF m = 1 THEN s[m] ELSE g[m-1] \o s[m]
    BY <2>2, Zenon DEF FlatEq
  <2>4. h[m] = IF m = 1 THEN s[m] ELSE h[m-1] \o s[m]
    BY <2>2, Zenon DEF FlatEq
  <2>5. m # 1 => g[m-1] = h[m-1]
    <3>1. m # 1 => m - 1 \in 1..n /\ m - 1 < m
      BY <2>2
    <3> QED BY <3>1, <2>1 DEF T
  <2> QED BY <2>2, <2>3, <2>4, <2>5
<1>2. \A i \in 1..n : g[i] = h[i]
  BY <1>1 DEF T
<1>3. g = [i \in 1..n |-> g[i]] /\ h = [i \in 1..n |-> h[i]]
  BY Zenon DEF FlatEq
<1> QED BY <1>2, <1>3

\* Concatenating one more chunk: the archive stream grows by the chunk.
LEMMA FlattenSeqAppend ==
  ASSUME NEW S, NEW t \in Seq(Seq(S)), NEW x \in Seq(S)
  PROVE  FlattenSeq(Append(t, x)) = FlattenSeq(t) \o x
<1> DEFINE u == Append(t, x)
           n == Len(t)
           F == FlatFn(u)
           G == [i \in 1..n |-> F[i]]
<1>1. n \in Nat /\ u \in Seq(Seq(S)) /\ Len(u) = n + 1 /\ u[n+1] = x
      /\ \A i \in 1..n : u[i] = t[i]
  OBVIOUS
<1>2. FlatEq(u, F, n + 1)
  BY <1>1, FlatFnDef
<1> USE DEF u, n, F, G
<1>7. \A i \in 1..(n+1) : F[i] = IF i = 1 THEN u[i] ELSE F[i-1] \o u[i]
  BY <1>2, Zenon DEF FlatEq
<1>3. F[n+1] = IF n + 1 = 1 THEN x ELSE F[n] \o x
  BY <1>7, <1>1
<1>4. FlattenSeq(u) = F[n+1]
  <2>1. Len(u) # 0 /\ Len(u) = n + 1
    BY <1>1
  <2> QED BY <2>1, FlattenSeqNonEmpty, Zenon
<1>5. CASE n = 0
  <2>1. FlattenSeq(t) = <<>>
    BY <1>5, FlattenSeqEmpty
  <2> QED BY <1>3, <1>4, <1>5, <2>1
<1>6. CASE n # 0
  <2>1. FlatEq(t, G, n)
    <3>1. \A i \in 1..n : F[i] = IF i = 1 THEN u[i] ELSE F[i-1] \o u[i]
      BY <1>7
    <3> QED BY <3>1, <1>1 DEF FlatEq
  <2>2. G = FlatFn(t)
    <3>1. FlatEq(t, FlatFn(t), n)
      BY FlatFnDef
    <3> QED BY <1>1, <2>1, <3>1, FlatEqUnique, Zenon
  <2>3. FlattenSeq(t) = F[n]
    <3>1. FlattenSeq(t) = FlatFn(t)[n]
      BY <1>6, FlattenSeqNonEmpty, Zenon
    <3> QED BY <3>1, <2>2, <1>6, <1>1
  <2> QED BY <1>3, <1>4, <1>6, <2>3
<1> QED BY <1>5, <1>6

\* The stream of the first n + 1 chunks is the stream of the first n, then
\* chunk n + 1: what a reader that takes the chunks in order has produced.
LEMMA FlattenSeqPrefixStep ==
  ASSUME NEW S, NEW s \in Seq(Seq(S)), NEW n \in 0..(Len(s) - 1)
  PROVE  FlattenSeq(SubSeq(s, 1, n + 1)) = FlattenSeq(SubSeq(s, 1, n)) \o s[n + 1]
<1>1. SubSeq(s, 1, n + 1) = Append(SubSeq(s, 1, n), s[n + 1])
  OBVIOUS
<1>2. SubSeq(s, 1, n) \in Seq(Seq(S)) /\ s[n + 1] \in Seq(S)
  OBVIOUS
<1> QED BY <1>1, <1>2, FlattenSeqAppend

\* No chunk read yet: the empty stream; all of them: the whole stream.
LEMMA FlattenSeqPrefixEnds ==
  ASSUME NEW S, NEW s \in Seq(Seq(S))
  PROVE  /\ FlattenSeq(SubSeq(s, 1, 0)) = <<>>
         /\ FlattenSeq(SubSeq(s, 1, Len(s))) = FlattenSeq(s)
<1>1. SubSeq(s, 1, 0) \in Seq(Seq(S)) /\ Len(SubSeq(s, 1, 0)) = 0
  OBVIOUS
<1>2. SubSeq(s, 1, Len(s)) = s
  OBVIOUS
<1> QED BY <1>1, <1>2, FlattenSeqEmpty

====
