----------------------------- MODULE ListFacts -----------------------------
(***************************************************************************)
(* Facts about tables and stacks that the proofs of several components     *)
(* rest on: a scan of a table finds a first entry, and a stack without its *)
(* last element, or with one more, is otherwise the same stack.            *)
(***************************************************************************)
EXTENDS Integers, Sequences, FiniteSetTheorems, SequenceTheorems, TLAPS

(* A set of natural numbers that is not empty has a least element: the     *)
(* sets 0 .. x, for x in S, are finite, strict inclusion is well founded    *)
(* on finite sets, and the least of them belongs to the least x.            *)
LEMMA MinimumExists ==
    ASSUME NEW S \in SUBSET Nat, S # {}
    PROVE  \E x \in S : \A y \in S : x <= y
<1> DEFINE Segments == {0 .. x : x \in S}
           R == StrictSubsetOrdering(Nat)
<1>1. \A x \in S : 0 .. x \in FiniteSubsetsOf(Nat)
  <2> SUFFICES ASSUME NEW x \in S
               PROVE  0 .. x \in FiniteSubsetsOf(Nat)
    OBVIOUS
  <2>1. IsFiniteSet(0 .. x)
    BY FS_Interval
  <2> QED
    BY <2>1 DEF FiniteSubsetsOf
<1>2. Segments \subseteq FiniteSubsetsOf(Nat) /\ Segments # {}
  BY <1>1
<1>3. IsWellFoundedOn(R, FiniteSubsetsOf(Nat))
  BY FS_StrictSubsetOrderingWellFounded
<1>4. \E b \in Segments : \A c \in Segments : ~(<<c, b>> \in R)
  <2> HIDE DEF Segments, R
  <2> QED
    BY <1>2, <1>3, WFMin
<1>5. PICK x \in S : \A y \in S : ~(<<0 .. y, 0 .. x>> \in R)
  BY <1>4
<1>6. \A y \in S : x <= y
  <2> SUFFICES ASSUME NEW y \in S, y < x
               PROVE  FALSE
    OBVIOUS
  <2>1. /\ 0 .. y \in SUBSET Nat /\ 0 .. x \in SUBSET Nat
        /\ 0 .. y \subseteq 0 .. x
        /\ x \in 0 .. x /\ x \notin 0 .. y
    OBVIOUS
  <2>2. <<0 .. y, 0 .. x>> \in R
    BY <2>1 DEF StrictSubsetOrdering
  <2> QED
    BY <2>2, <1>5
<1> QED
  BY <1>6

(* A stack without its last element.                                       *)
LEMMA FrontOf ==
    ASSUME NEW S, NEW s \in Seq(S), s # <<>>
    PROVE  /\ SubSeq(s, 1, Len(s) - 1) \in Seq(S)
           /\ Len(SubSeq(s, 1, Len(s) - 1)) = Len(s) - 1
           /\ \A n \in 1 .. Len(s) - 1 : SubSeq(s, 1, Len(s) - 1)[n] = s[n]
<1> DEFINE k == Len(s) - 1
<1>1. k \in Nat /\ k \in Int /\ \A n \in 1 .. k : s[n] \in S
  OBVIOUS
<1> HIDE DEF k
<1>2. Len(SubSeq(s, 1, k)) = IF 1 <= k THEN k - 1 + 1 ELSE 0
  BY <1>1, SubSeqProperties
<1>3. Len(SubSeq(s, 1, k)) = k
  BY <1>1, <1>2
<1>4. SubSeq(s, 1, k) \in Seq(S)
  BY <1>1, SubSeqProperties
<1>5. \A n \in 1 .. k : SubSeq(s, 1, k)[n] = s[n]
  BY <1>1
<1> QED
  BY <1>3, <1>4, <1>5, Zenon DEF k

(* A stack with one more element.                                          *)
LEMMA PushOn ==
    ASSUME NEW S, NEW s \in Seq(S), NEW f \in S
    PROVE  /\ Append(s, f) \in Seq(S) /\ Len(Append(s, f)) = Len(s) + 1
           /\ \A n \in 1 .. Len(s) + 1 : Append(s, f)[n] = IF n = Len(s) + 1 THEN f ELSE s[n]
  OBVIOUS
=============================================================================
