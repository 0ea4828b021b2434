---------------------------- MODULE LeastElement ----------------------------
(***************************************************************************)
(* A search that goes through a set in the order of its elements, or of    *)
(* their ranks, finds one of them, if there is one.                        *)
(***************************************************************************)
EXTENDS Integers, WellFoundedInduction, TLAPS

LEMMA LeastExists ==
  ASSUME NEW S, S \subseteq Nat, S # {}
  PROVE  \E i \in S : \A j \in S : i <= j
  <1>1. PICK m \in S : \A i \in S : <<i, m>> \notin OpToRel(<, Nat)
    BY WFMin, NatLessThanWellFounded, Zenon
  <1>2. \A i \in S : ~(i < m)
    BY <1>1, Zenon DEF OpToRel
  <1>3. \A i \in S : m <= i
    BY <1>2
  <1> QED BY <1>3

LEMMA LeastIsMember ==
  ASSUME NEW S, S \subseteq Nat, S # {}
  PROVE  (CHOOSE i \in S : \A j \in S : i <= j) \in S
  BY LeastExists

LEMMA LeastRank ==
  ASSUME NEW S, NEW r, S # {}, \A s \in S : r[s] \in Nat
  PROVE  \E s \in S : \A t \in S : r[s] <= r[t]
  <1> DEFINE R == {r[s] : s \in S}
  <1>1. R \subseteq Nat /\ R # {}
    OBVIOUS
  <1>2. PICK i \in R : \A j \in R : i <= j
    BY <1>1, LeastExists
  <1>3. PICK s \in S : i = r[s]
    BY <1>2
  <1>4. \A t \in S : r[s] <= r[t]
    BY <1>2, <1>3
  <1> QED BY <1>4

LEMMA GreatestRank ==
  ASSUME NEW S, NEW r, NEW n \in Nat, S # {}, \A s \in S : r[s] \in 0..n
  PROVE  \E s \in S : \A t \in S : r[t] <= r[s]
  <1> DEFINE q == [s \in S |-> n - r[s]]
  <1>1. \A s \in S : q[s] \in Nat
    OBVIOUS
  <1>2. PICK s \in S : \A t \in S : q[s] <= q[t]
    <2> HIDE DEF q
    <2> QED BY <1>1, LeastRank
  <1>3. ASSUME NEW t \in S
        PROVE  r[t] <= r[s]
    <2>1. n - r[s] <= n - r[t]
      BY <1>2
    <2> QED BY <2>1
  <1> QED BY <1>3

\* Induction, for a set: a set that holds 0 and with a number the next is all of Nat.
LEMMA NatSetInduction ==
  ASSUME NEW S, 0 \in S, \A n \in Nat : n \in S => n + 1 \in S
  PROVE  Nat \subseteq S
  <1> DEFINE R == Nat \ S
  <1>1. SUFFICES ASSUME R # {} PROVE FALSE
    BY <1>1
  <1>2. PICK i \in R : \A j \in R : i <= j
    BY <1>1, LeastExists
  <1>3. i \in Nat \ {0} /\ i - 1 \in Nat
    BY <1>2
  <1>4. i - 1 \in S
    BY <1>2, <1>3
  <1>5. (i - 1) + 1 \in S
    BY <1>3, <1>4
  <1> QED BY <1>2, <1>3, <1>5

=============================================================================
