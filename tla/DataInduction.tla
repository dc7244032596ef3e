----------------------------- MODULE DataInduction -----------------------------
(***************************************************************************)
(* Least and greatest numbers of a set, and what follows for functions     *)
(* that are defined by recursion over the numbers up to some n.  Both come *)
(* down to the order of the natural numbers being well-founded.            *)
(***************************************************************************)
EXTENDS Integers, FiniteSetsExt, WellFoundedInduction, TLAPS

LEMMA LeastExists ==
  ASSUME NEW S \in SUBSET Nat, S # {}
  PROVE  \E x \in S : \A y \in S : x <= y
  <1> DEFINE R == OpToRel(<, Nat)
  <1>1. IsWellFoundedOn(R, Nat)
    BY NatLessThanWellFounded
  <1>2. \A x, y \in Nat : <<x, y>> \in R <=> x < y
    BY DEF OpToRel
  <1> HIDE DEF R
  <1>3. \E x \in S : \A y \in S : ~ (<<y, x>> \in R)
    BY <1>1, WFMin
  <1>4. PICK x \in S : \A y \in S : ~ (<<y, x>> \in R)
    BY <1>3
  <1>5. \A y \in S : x <= y
    <2>1. SUFFICES ASSUME NEW y \in S PROVE x <= y
      OBVIOUS
    <2>2. x \in Nat /\ y \in Nat
      OBVIOUS
    <2>3. ~(y < x)
      BY <1>4, <2>2, <1>2
    <2>4. QED
      BY <2>2, <2>3
  <1>6. QED
    BY <1>5

\* Min and Max, which choose, find what they are named for.
LEMMA MinIsLeast ==
  ASSUME NEW S \in SUBSET Nat, S # {}
  PROVE  Min(S) \in S /\ \A y \in S : Min(S) <= y
  BY LeastExists DEF Min

LEMMA MaxIsGreatest ==
  ASSUME NEW n \in Nat, NEW S \in SUBSET (0 .. n), S # {}
  PROVE  Max(S) \in S /\ \A y \in S : y <= Max(S)
  <1> DEFINE T == {n - x : x \in S}
  <1>1. T \in SUBSET Nat
    <2>1. \A x \in S : n - x \in Nat
      OBVIOUS
    <2>2. QED
      BY <2>1
  <1>2. T # {}
    OBVIOUS
  <1> HIDE DEF T
  <1>3. PICK t \in T : \A u \in T : t <= u
    BY <1>1, <1>2, LeastExists
  <1>4. PICK x \in S : t = n - x
    BY DEF T
  <1>5. \A y \in S : x >= y
    <2>1. SUFFICES ASSUME NEW y \in S PROVE x >= y
      OBVIOUS
    <2>2. n - y \in T
      BY DEF T
    <2>3. x \in Int /\ y \in Int /\ n - x <= n - y
      BY <1>3, <1>4, <2>2
    <2>4. QED
      BY <2>3
  <1>6. QED
    BY <1>5 DEF Max

\* What holds at first, and is kept from each number to the next, holds up to n.
LEMMA Kept ==
  ASSUME NEW n \in Nat, NEW S, NEW r, r[0] \in S,
         \A k \in 1 .. n : r[k - 1] \in S => r[k] \in S
  PROVE  \A k \in 0 .. n : r[k] \in S
  <1> DEFINE Bad == {k \in 0 .. n : r[k] \notin S}
  <1>1. SUFFICES ASSUME Bad # {} PROVE FALSE
    OBVIOUS
  <1>2. Bad \in SUBSET Nat
    OBVIOUS
  <1>3. PICK k \in Bad : \A j \in Bad : k <= j
    <2> HIDE DEF Bad
    <2>1. QED
      BY <1>1, <1>2, LeastExists
  <1>4. k \in 1 .. n
    OBVIOUS
  <1>5. k - 1 \in 0 .. n /\ k - 1 < k
    BY <1>4
  <1>6. r[k - 1] \in S
    BY <1>3, <1>4, <1>5
  <1>7. QED
    BY <1>4, <1>6

\* A function for the recursion from 0 to n that starts with x and goes on with F.
HasIteration(S, x, n, F) ==
    \E r \in [0 .. n -> S] : r[0] = x /\ \A k \in 1 .. n : r[k] = F[<<r[k - 1], k>>]

\* There is one.
LEMMA Iterated ==
  ASSUME NEW S, NEW x \in S, NEW n \in Nat, NEW F \in [S \X (1 .. n) -> S]
  PROVE  HasIteration(S, x, n, F)
  <1> USE DEF HasIteration
  <1> DEFINE Good(m) == \E r \in [0 .. m -> S] :
                           r[0] = x /\ \A k \in 1 .. m : r[k] = F[<<r[k - 1], k>>]
             Bad == {m \in 0 .. n : ~Good(m)}
  <1>1. SUFFICES ASSUME Bad # {} PROVE FALSE
    <2>1. n \in 0 .. n
      OBVIOUS
    <2>2. QED
      BY <2>1
  <1> HIDE DEF Good
  <1>2. Bad \in SUBSET Nat
    OBVIOUS
  <1>3. PICK m \in Bad : \A j \in Bad : m <= j
    <2> HIDE DEF Bad
    <2>1. QED
      BY <1>1, <1>2, LeastExists
  <1>4. Good(0)
    <2>1. [k \in 0 .. 0 |-> x] \in [0 .. 0 -> S] /\ [k \in 0 .. 0 |-> x][0] = x
      OBVIOUS
    <2>2. \A k \in 1 .. 0 : FALSE
      OBVIOUS
    <2>3. QED
      BY <2>1, <2>2 DEF Good
  <1>5. m \in 1 .. n
    BY <1>4
  <1>6. m - 1 \in 0 .. n /\ m - 1 < m /\ m - 1 \in Nat
    BY <1>5
  <1>7. Good(m - 1)
    BY <1>3, <1>6
  <1>8. PICK q \in [0 .. m - 1 -> S] :
          q[0] = x /\ \A k \in 1 .. m - 1 : q[k] = F[<<q[k - 1], k>>]
    BY <1>7 DEF Good
  <1> DEFINE r == [k \in 0 .. m |-> IF k < m THEN q[k] ELSE F[<<q[m - 1], m>>]]
  <1>9. q[m - 1] \in S /\ F[<<q[m - 1], m>>] \in S
    BY <1>5, <1>6, <1>8
  <1>10. \A k \in 0 .. m : k < m => k \in 0 .. m - 1
    BY <1>5
  <1>11. r \in [0 .. m -> S] /\ r[0] = x
    BY <1>5, <1>8, <1>9, <1>10
  <1>12. ASSUME NEW k \in 1 .. m
         PROVE  r[k] = F[<<r[k - 1], k>>]
    <2>1. CASE k < m
      <3>1. k \in 1 .. m - 1 /\ k \in 0 .. m /\ k - 1 \in 0 .. m /\ k - 1 < m
        BY <2>1, <1>5
      <3>2. r[k] = q[k] /\ r[k - 1] = q[k - 1]
        BY <2>1, <3>1
      <3>3. QED
        BY <1>8, <3>1, <3>2
    <2>2. CASE k = m
      <3>1. m - 1 \in 0 .. m /\ m - 1 < m /\ ~(m < m) /\ m \in 0 .. m
        BY <1>5
      <3>2. r[m] = F[<<q[m - 1], m>>] /\ r[m - 1] = q[m - 1]
        BY <3>1
      <3>3. QED
        BY <2>2, <3>1, <3>2
    <2>3. QED
      BY <2>1, <2>2, <1>5
  <1>13. Good(m)
    BY <1>11, <1>12 DEF Good
  <1>14. QED
    BY <1>13
=============================================================================
