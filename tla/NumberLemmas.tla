---------------------------- MODULE NumberLemmas ----------------------------
(***************************************************************************)
(* Facts about the natural numbers that the proofs of several modules use: *)
(* the least-number principle, by which a property of sequences is shown   *)
(* for every length, and positions in a ring of C cells.                   *)
(***************************************************************************)
EXTENDS Integers, WellFoundedInduction, TLAPS

\* Every non-empty set of natural numbers has a least element.
LEMMA LeastNumber ==
  ASSUME NEW S \in SUBSET Nat, S # {}
  PROVE  \E n \in S : \A m \in S : n <= m
<1>1. PICK n \in S : \A m \in S : <<m, n>> \notin OpToRel(<, Nat)
  BY NatLessThanWellFounded, WFMin
<1>2. ASSUME NEW m \in S PROVE n <= m
  <2>1. <<m, n>> \notin OpToRel(<, Nat)
    BY <1>1
  <2>2. ~(m < n)
    BY <2>1 DEF OpToRel
  <2> QED
    BY <2>2
<1> QED
  BY <1>2

\* Quotient and remainder of a natural number.
LEMMA DivMod ==
  ASSUME NEW a \in Nat, NEW C \in Nat \ {0}
  PROVE  /\ a % C \in 0..(C-1) /\ a \div C \in Nat
         /\ a = C * (a \div C) + (a % C)
OBVIOUS

\* The position k steps on.
LEMMA ModNat ==
  ASSUME NEW x \in Nat, NEW k \in Nat, NEW C \in Nat \ {0}
  PROVE  (x + k) % C \in Nat /\ (x + k) % C < C
<1> DEFINE z == x + k
<1>1. z \in Nat
  OBVIOUS
<1> HIDE DEF z
<1>2. z % C \in 0..(C - 1)
  BY <1>1, DivMod
<1>3. z % C \in Nat /\ z % C < C
  BY <1>2
<1> QED
  BY <1>3 DEF z

\* They are determined by what they add up to.
LEMMA ModUnique ==
  ASSUME NEW C \in Nat \ {0}, NEW q \in Int, NEW r \in 0..(C-1),
         NEW p \in Int, NEW s \in 0..(C-1), C*q + r = C*p + s
  PROVE  q = p /\ r = s
<1>1. C * (q - p) = s - r
  OBVIOUS
<1>2. CASE q - p >= 1
  <2>1. C*(q-p) >= C
    BY <1>2
  <2> QED
    BY <1>1, <2>1
<1>3. CASE q - p <= -1
  <2>1. C*(q-p) <= -C
    BY <1>3
  <2> QED
    BY <1>1, <2>1
<1>4. CASE q = p
  BY <1>4
<1> QED
  BY <1>2, <1>3, <1>4

\* So a remainder is found by showing one.
LEMMA ModIs ==
  ASSUME NEW C \in Nat \ {0}, NEW a \in Nat, NEW q \in Int, NEW r \in 0..(C-1),
         a = C*q + r
  PROVE  a % C = r
BY ModUnique, DivMod

\* A whole turn around a ring of C cells ends where it began.
LEMMA ModPlus ==
  ASSUME NEW a \in Nat, NEW C \in Nat \ {0}
  PROVE  (a + C) % C = a % C
<1> DEFINE q == a \div C + 1
           r == a % C
           z == a + C
<1>1. q \in Int /\ r \in 0..(C-1) /\ z \in Nat /\ z = C * q + r
  BY DivMod
<1> HIDE DEF q, r, z
<1>2. z % C = r
  BY <1>1, ModIs
<1> QED
  BY <1>2 DEF r, z

\* Only the position counts for where k more steps end.
LEMMA ModAdd ==
  ASSUME NEW x \in Nat, NEW k \in Nat, NEW C \in Nat \ {0}
  PROVE  ((x % C) + k) % C = (x+k) % C
<1> DEFINE y == (x % C) + k
<1>1. y \in Nat /\ y \div C \in Int /\ x \div C \in Int /\ y % C \in 0..(C-1)
  BY DivMod
<1>2. x + k = C * (x \div C) + y /\ y = C * (y \div C) + (y % C)
  BY DivMod
<1> HIDE DEF y
<1> DEFINE q == x \div C + y \div C
           r == y % C
           z == x + k
<1>3. z \in Nat /\ z = C * q + r /\ q \in Int /\ r \in 0..(C-1)
  BY <1>1, <1>2
<1> HIDE DEF q, r, z
<1>4. z % C = r
  BY <1>3, ModIs
<1> QED
  BY <1>4 DEF y, r, z

\* Two numbers at the same position are at least one turn apart.
LEMMA ModApart ==
  ASSUME NEW a \in Nat, NEW b \in Nat, NEW C \in Nat \ {0}, a < b, a % C = b % C
  PROVE  b - a >= C
<1> DEFINE p == a \div C
           q == b \div C
           r == a % C
<1>1. p \in Nat /\ q \in Nat /\ r \in 0..(C-1) /\ a = C * p + r /\ b = C * q + r
  BY DivMod
<1> HIDE DEF p, q, r
<1>2. b - a = C * (q - p)
  BY <1>1
<1>3. CASE q - p >= 1
  <2>1. C * (q - p) >= C
    BY <1>1, <1>3
  <2> QED
    BY <1>2, <2>1
<1>4. CASE q - p <= 0
  <2>1. C * (q - p) <= 0
    BY <1>1, <1>4
  <2> QED
    BY <1>2, <2>1
<1> QED
  BY <1>1, <1>3, <1>4

\* So two numbers less than a turn apart are at different positions.
LEMMA SameCell ==
  ASSUME NEW a \in Nat, NEW b \in Nat, NEW C \in Nat \ {0}, a % C = b % C,
         a - b < C, b - a < C
  PROVE  a = b
<1>1. CASE a < b
  <2>1. b - a >= C
    BY <1>1, ModApart
  <2> QED
    BY <2>1
<1>2. CASE b < a
  <2>1. a - b >= C
    BY <1>2, ModApart
  <2> QED
    BY <2>1
<1> QED
  BY <1>1, <1>2

\* The distance of cell i from the position of w, going forward: that many steps
\* from w on one gets to i.
LEMMA CellOf ==
  ASSUME NEW w \in Nat, NEW C \in Nat \ {0}, NEW i \in 0..(C-1)
  PROVE  /\ (i + C - (w % C)) % C \in 0..(C-1)
         /\ (w + ((i + C - (w % C)) % C)) % C = i
<1> DEFINE y == i + C - (w % C)
           k == y % C
<1>1. w % C \in 0..(C-1)
  BY DivMod
<1>2. y \in Nat
  BY <1>1
<1>3. k \in 0..(C-1)
  BY <1>2, DivMod
<1>4. (w + k) % C = (w + y) % C
  <2>1. (k + w) % C = (y + w) % C
    BY <1>2, ModAdd
  <2> QED
    BY <2>1, <1>2, <1>3
<1>5. (w + y) % C = i
  <2>1. ((w % C) + y) % C = (w + y) % C
    BY <1>2, ModAdd
  <2>2. (w % C) + y = i + C
    BY <1>1
  <2>3. (i + C) % C = i % C
    <3>1. i \in Nat
      OBVIOUS
    <3> QED
      BY <3>1, ModPlus
  <2>4. i % C = i
    OBVIOUS
  <2> QED
    BY <2>1, <2>2, <2>3, <2>4
<1> QED
  BY <1>3, <1>4, <1>5
=============================================================================
