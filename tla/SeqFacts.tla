------------------------------ MODULE SeqFacts ------------------------------
(* Facts about sequences and positions the proofs of the other modules cite. *)
EXTENDS Naturals, Sequences, SequenceTheorems,
        WellFoundedInduction, TLAPS

\* Intervals from 1 determine their upper end.
LEMMA SameInterval ==
  ASSUME NEW m \in Nat, NEW n \in Nat, 1..m = 1..n
  PROVE  m = n
OBVIOUS

\* A function on 1..n is a sequence of length n.
LEMMA FunctionIsSeq ==
  ASSUME NEW S, NEW n \in Nat, NEW f \in [1..n -> S]
  PROVE  f \in Seq(S) /\ Len(f) = n /\ DOMAIN f = 1..n
<1>1. f \in Seq(S)
  BY SeqDef
<1>2. DOMAIN f = 1..Len(f) /\ Len(f) \in Nat
  BY <1>1, LenProperties
<1> QED BY <1>1, <1>2, SameInterval

LEMMA EmptyIsSeq ==
  ASSUME NEW S
  PROVE  <<>> \in Seq(S) /\ Len(<<>>) = 0 /\ DOMAIN <<>> = {}
<1>1. <<>> \in Seq(S) /\ Len(<<>>) = 0
  BY EmptySeq
<1>2. DOMAIN <<>> = 1..Len(<<>>)
  BY <1>1, LenProperties
<1> QED BY <1>1, <1>2

\* EXCEPT at a position of a sequence.
LEMMA ChangeSeq ==
  ASSUME NEW S, NEW s \in Seq(S), NEW p \in DOMAIN s, NEW e \in S
  PROVE  /\ [s EXCEPT ![p] = e] \in Seq(S)
         /\ Len([s EXCEPT ![p] = e]) = Len(s)
         /\ DOMAIN [s EXCEPT ![p] = e] = DOMAIN s
         /\ [s EXCEPT ![p] = e][p] = e
         /\ \A q \in DOMAIN s : q # p => [s EXCEPT ![p] = e][q] = s[q]
<1>1. DOMAIN s = 1..Len(s) /\ Len(s) \in Nat
  BY LenProperties
<1> QED BY <1>1, ExceptSeq

\* EXCEPT anywhere else.
LEMMA NoChangeSeq ==
  ASSUME NEW S, NEW s \in Seq(S), NEW p, p \notin DOMAIN s
  PROVE  \A e : [s EXCEPT ![p] = e] = s
<1>1. s \in [1..Len(s) -> S] /\ DOMAIN s = 1..Len(s)
  BY LenProperties
<1> QED BY <1>1

\* A set of naturals that is not empty has a least element.
LEMMA LeastNatural ==
  ASSUME NEW T \in SUBSET Nat, T # {}
  PROVE  \E m \in T : \A q \in T : m <= q
<1> DEFINE R == OpToRel(<, Nat)
<1>1. IsWellFoundedOn(R, Nat)
  BY NatLessThanWellFounded
<1>2. \A x, y \in Nat : <<y, x>> \in R <=> y < x
  BY DEF OpToRel
<1> HIDE DEF R
<1>3. PICK m \in T : \A q \in T : ~(<<q, m>> \in R)
  BY <1>1, WFMin
<1>4. ASSUME NEW q \in T PROVE m <= q
  <2>1. q \in Nat /\ m \in Nat /\ ~(q < m)
    BY <1>2, <1>3
  <2> QED BY <2>1
<1> QED BY <1>4
=============================================================================
