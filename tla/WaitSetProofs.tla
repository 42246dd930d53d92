---------------------------- MODULE WaitSetProofs ----------------------------
(***************************************************************************)
(* What holds of the wait set for every set of members and counts:         *)
(*                                                                         *)
(*   TypeCorrect       types, with any number of callers                   *)
(*   WaiterWokenHolds  no wakeup of the one who waits is lost, but for the *)
(*                     ones the code does lose; any number of callers      *)
(*   OnePlaceHolds     each dispatcher is in exactly one list, until a     *)
(*                     call meets what another one has half removed; any   *)
(*                     number of callers                                   *)
(*                                                                         *)
(* WaiterWoken alone is not inductive: it speaks of a thread that is in    *)
(* the list, and whether that one was too late is decided while it has     *)
(* looked and is not listed yet, or has the handle and has not looked      *)
(* (WakeSound).  OnePlace counts places; PlaceInv says instead which lists *)
(* hold a dispatcher, that none holds it twice and no two hold it both,    *)
(* and which of the dispatchers in the queues a call is about to take out. *)
(* It rests on what lock_ excludes (Locks), which holds in any case.       *)
(***************************************************************************)
EXTENDS WaitSet, NumberLemmas, SequenceTheorems, FiniteSetTheorems

-----------------------------------------------------------------------------
(* The entries of a queue at some positions.                               *)

\* r is what is left of the first n entries of q, and f says where each was.
IsPick(r, f, q, n, keep, S) ==
  /\ r \in Seq(S)
  /\ f \in [1..Len(r) -> keep \cap (1..n)]
  /\ \A k \in 1..Len(r) : r[k] = q[f[k]]
  /\ \A j, k \in 1..Len(r) : f[j] = f[k] => j = k
  /\ \A i \in keep \cap (1..n) : \E k \in 1..Len(r) : f[k] = i

\* t is the table that EntriesAt computes, up to n.
IsPicked(t, q, n, keep, S) ==
  /\ t \in [0..n -> Seq(S)]
  /\ t[0] = <<>>
  /\ \A i \in 1..n :
       t[i] = IF i \in keep THEN Append(t[i - 1], q[i]) ELSE t[i - 1]
HasPicked(q, n, keep, S) == \E t : IsPicked(t, q, n, keep, S)

\* Every queue has one.
LEMMA PickedExists ==
  ASSUME NEW S, NEW q \in Seq(S), NEW keep
  PROVE  HasPicked(q, Len(q), keep, S)
<1> DEFINE Bad == {n \in 0..Len(q) : ~HasPicked(q, n, keep, S)}
<1>1. SUFFICES ASSUME Bad # {} PROVE FALSE
  OBVIOUS
<1>2. PICK n \in Bad : \A m \in Bad : n <= m
  <2>1. Bad \in SUBSET Nat
    OBVIOUS
  <2> HIDE DEF Bad
  <2> QED
    BY <1>1, <2>1, LeastNumber
<1>3. n # 0
  <2>1. <<>> \in Seq(S)
    OBVIOUS
  <2>2. IsPicked([i \in 0..0 |-> <<>>], q, 0, keep, S)
    BY <2>1 DEF IsPicked
  <2> QED
    BY <2>2, <1>2 DEF HasPicked
<1>4. n \in 1..Len(q) /\ n - 1 \in 0..Len(q) /\ n - 1 \notin Bad
  BY <1>2, <1>3
<1>5. PICK t : IsPicked(t, q, n - 1, keep, S)
  BY <1>4 DEF HasPicked
<1> HIDE DEF Bad
<1> DEFINE new == IF n \in keep THEN Append(t[n - 1], q[n]) ELSE t[n - 1]
           u == [i \in 0..n |-> IF i = n THEN new ELSE t[i]]
<1>6. IsPicked(u, q, n, keep, S)
  <2>1. q[n] \in S /\ t[n - 1] \in Seq(S) /\ t[0] = <<>>
    BY <1>4, <1>5 DEF IsPicked
  <2>2. \A i \in 0..(n - 1) : t[i] \in Seq(S) /\ u[i] = t[i]
    BY <1>4, <1>5 DEF IsPicked
  <2>3. u[n] = new /\ new \in Seq(S)
    BY <1>4, <2>1
  <2>4. u \in [0..n -> Seq(S)]
    <3>1. ASSUME NEW i \in 0..n PROVE u[i] \in Seq(S)
      <4>1. i = n \/ i \in 0..(n - 1)
        BY <1>4
      <4> QED
        BY <4>1, <2>2, <2>3
    <3>2. u = [i \in 0..n |-> u[i]]
      OBVIOUS
    <3> HIDE DEF u
    <3> QED
      BY <3>1, <3>2
  <2>5. ASSUME NEW i \in 1..n
        PROVE  u[i] = IF i \in keep THEN Append(u[i - 1], q[i]) ELSE u[i - 1]
    <3>1. CASE i = n
      <4>1. n - 1 \in 0..(n - 1) /\ u[n - 1] = t[n - 1]
        BY <1>4, <2>2
      <4> QED
        BY <3>1, <4>1, <2>3
    <3>2. CASE i # n
      <4>1. i \in 1..(n - 1) /\ i \in 0..(n - 1) /\ i - 1 \in 0..(n - 1)
        BY <3>2, <1>4
      <4>2. t[i] = IF i \in keep THEN Append(t[i - 1], q[i]) ELSE t[i - 1]
        BY <4>1, <1>5 DEF IsPicked
      <4> QED
        BY <4>1, <4>2, <2>2
    <3> QED
      BY <3>1, <3>2
  <2>6. u[0] = <<>>
    BY <2>1, <2>2, <1>4
  <2> QED
    BY <2>4, <2>5, <2>6 DEF IsPicked
<1>7. HasPicked(q, n, keep, S)
  BY <1>6 DEF HasPicked
<1> QED
  BY <1>2, <1>7 DEF Bad

\* EntriesAt is its last row.
LEMMA EntriesAtPicked ==
  ASSUME NEW S, NEW q \in Seq(S), NEW keep, NEW t, IsPicked(t, q, Len(q), keep, S)
  PROVE  EntriesAt(q, keep) = t[Len(q)]
<1> DEFINE Table(g) ==
             g = [i \in 0..Len(q) |->
                    IF i = 0 THEN <<>>
                    ELSE IF i \in keep THEN Append(g[i - 1], q[i]) ELSE g[i - 1]]
           g == CHOOSE x : Table(x)
<1>1. Table(t)
  <2>1. t = [i \in 0..Len(q) |-> t[i]]
    BY DEF IsPicked
  <2>2. ASSUME NEW i \in 0..Len(q)
        PROVE  t[i] = IF i = 0 THEN <<>>
                      ELSE IF i \in keep THEN Append(t[i - 1], q[i]) ELSE t[i - 1]
    <3>1. i = 0 \/ i \in 1..Len(q)
      OBVIOUS
    <3> QED
      BY <3>1 DEF IsPicked
  <2> QED
    BY <2>1, <2>2, Zenon
<1>2. Table(g)
  BY <1>1, Zenon
<1>3. EntriesAt(q, keep) = g[Len(q)]
  BY DEF EntriesAt
<1> HIDE DEF g
<1>4. \A i \in 1..Len(q) :
        g[i] = IF i \in keep THEN Append(g[i - 1], q[i]) ELSE g[i - 1]
  <2> SUFFICES ASSUME NEW i \in 1..Len(q)
               PROVE  g[i] = IF i \in keep THEN Append(g[i - 1], q[i])
                             ELSE g[i - 1]
    OBVIOUS
  <2>1. i \in 0..Len(q) /\ i # 0
    OBVIOUS
  <2> QED
    BY <1>2, <2>1, Zenon
<1>5. g[0] = <<>>
  BY <1>2
<1> DEFINE Bad == {n \in 0..Len(q) : g[n] # t[n]}
<1>6. Bad = {}
  <2>1. SUFFICES ASSUME Bad # {} PROVE FALSE
    OBVIOUS
  <2>2. PICK n \in Bad : \A m \in Bad : n <= m
    <3>1. Bad \in SUBSET Nat
      OBVIOUS
    <3> HIDE DEF Bad
    <3> QED
      BY <2>1, <3>1, LeastNumber
  <2>3. n # 0
    BY <1>5, <2>2 DEF IsPicked
  <2>4. n - 1 \in 0..Len(q) /\ n \in 1..Len(q) /\ ~(n <= n - 1)
    BY <2>2, <2>3
  <2>5. g[n - 1] = t[n - 1]
    BY <2>2, <2>4
  <2>6. t[n] = IF n \in keep THEN Append(t[n - 1], q[n]) ELSE t[n - 1]
    BY <2>4 DEF IsPicked
  <2> QED
    BY <1>4, <2>2, <2>4, <2>5, <2>6
<1>7. Len(q) \in 0..Len(q)
  OBVIOUS
<1> QED
  BY <1>3, <1>6, <1>7

\* Each row holds the entries at the positions up to there, once and no others.
LEMMA PickedRows ==
  ASSUME NEW S, NEW q \in Seq(S), NEW keep, NEW t,
         IsPicked(t, q, Len(q), keep, S), NEW n \in 0..Len(q)
  PROVE  \E f : IsPick(t[n], f, q, n, keep, S)
<1> DEFINE Bad == {k \in 0..Len(q) : ~\E f : IsPick(t[k], f, q, k, keep, S)}
<1>1. SUFFICES ASSUME Bad # {} PROVE FALSE
  OBVIOUS
<1>2. PICK m \in Bad : \A k \in Bad : m <= k
  <2>1. Bad \in SUBSET Nat
    OBVIOUS
  <2> HIDE DEF Bad
  <2> QED
    BY <1>1, <2>1, LeastNumber
<1>3. m # 0
  <2>1. t[0] = <<>> /\ <<>> \in Seq(S) /\ Len(<<>>) = 0 /\ 1..0 = {}
    BY DEF IsPicked
  <2>2. IsPick(t[0], [i \in 1..0 |-> 0], q, 0, keep, S)
    BY <2>1 DEF IsPick
  <2> QED
    BY <2>2, <1>2
<1>4. m \in 1..Len(q) /\ m - 1 \in 0..Len(q) /\ m - 1 \notin Bad /\ m \in Nat
  BY <1>2, <1>3
<1>5. PICK f : IsPick(t[m - 1], f, q, m - 1, keep, S)
  BY <1>4
<1>6. ~\E g : IsPick(t[m], g, q, m, keep, S)
  BY <1>2
<1> HIDE DEF Bad
<1> DEFINE r == t[m - 1]
<1>7. t[m] = IF m \in keep THEN Append(r, q[m]) ELSE r
  BY <1>4 DEF IsPicked
<1>8. /\ r \in Seq(S) /\ q[m] \in S /\ Len(r) \in Nat
      /\ f \in [1..Len(r) -> keep \cap (1..(m - 1))]
      /\ \A k \in 1..Len(r) : r[k] = q[f[k]]
      /\ \A j, k \in 1..Len(r) : f[j] = f[k] => j = k
      /\ \A i \in keep \cap (1..(m - 1)) : \E k \in 1..Len(r) : f[k] = i
  BY <1>4, <1>5 DEF IsPick
<1> HIDE DEF r
<1>9. keep \cap (1..(m - 1)) \subseteq keep \cap (1..m)
  BY <1>4
<1>10. CASE m \notin keep
  <2>1. keep \cap (1..(m - 1)) = keep \cap (1..m)
    BY <1>4, <1>10
  <2>2. IsPick(t[m], f, q, m, keep, S)
    BY <1>7, <1>8, <1>10, <2>1 DEF IsPick
  <2> QED
    BY <1>6, <2>2
<1>11. CASE m \in keep
  <2> DEFINE s == Append(r, q[m])
             g == [k \in 1..(Len(r) + 1) |-> IF k = Len(r) + 1 THEN m ELSE f[k]]
  <2>1. /\ s \in Seq(S) /\ Len(s) = Len(r) + 1 /\ s[Len(r) + 1] = q[m]
        /\ \A k \in 1..Len(r) : s[k] = r[k]
    BY <1>8
  <2>2. \A k \in 1..(Len(r) + 1) : k \in 1..Len(r) \/ k = Len(r) + 1
    BY <1>8
  <2>3. /\ g[Len(r) + 1] = m /\ \A k \in 1..Len(r) : g[k] = f[k]
        /\ Len(r) + 1 \in 1..(Len(r) + 1) /\ 1..Len(r) \subseteq 1..(Len(r) + 1)
    BY <1>8
  <2>4. \A k \in 1..Len(r) : f[k] \in keep \cap (1..m) /\ f[k] # m
    BY <1>4, <1>8
  <2>5. m \in keep \cap (1..m)
    BY <1>4, <1>11
  <2>6. g \in [1..(Len(r) + 1) -> keep \cap (1..m)]
    <3>1. \A k \in 1..(Len(r) + 1) : g[k] \in keep \cap (1..m)
      BY <2>2, <2>3, <2>4, <2>5
    <3> QED
      BY <3>1
  <2> HIDE DEF g, s
  <2>7. \A k \in 1..(Len(r) + 1) : s[k] = q[g[k]]
    BY <1>8, <2>1, <2>2, <2>3
  <2>8. \A j, k \in 1..(Len(r) + 1) : g[j] = g[k] => j = k
    BY <1>8, <2>2, <2>3, <2>4
  <2>9. ASSUME NEW i \in keep \cap (1..m) PROVE \E k \in 1..(Len(r) + 1) : g[k] = i
    <3>1. i = m \/ i \in keep \cap (1..(m - 1))
      BY <1>4
    <3> QED
      BY <1>8, <2>3, <3>1
  <2>10. IsPick(s, g, q, m, keep, S)
    BY <2>1, <2>6, <2>7, <2>8, <2>9 DEF IsPick
  <2> QED
    BY <1>6, <1>7, <1>11, <2>10 DEF s
<1> QED
  BY <1>10, <1>11

\* What EntriesAt returns: the entries at the positions, once and no others.
LEMMA EntriesAtIs ==
  ASSUME NEW S, NEW q \in Seq(S), NEW keep, keep \subseteq DOMAIN q
  PROVE  /\ EntriesAt(q, keep) \in Seq(S)
         /\ \E f \in [DOMAIN EntriesAt(q, keep) -> keep] :
              /\ \A k \in DOMAIN EntriesAt(q, keep) : EntriesAt(q, keep)[k] = q[f[k]]
              /\ \A j, k \in DOMAIN EntriesAt(q, keep) : f[j] = f[k] => j = k
              /\ \A i \in keep : \E k \in DOMAIN EntriesAt(q, keep) : f[k] = i
<1> DEFINE r == EntriesAt(q, keep)
<1>1. PICK t : IsPicked(t, q, Len(q), keep, S)
  BY PickedExists DEF HasPicked
<1>2. r = t[Len(q)]
  BY <1>1, EntriesAtPicked
<1> HIDE DEF r
<1>3. Len(q) \in 0..Len(q) /\ keep \cap (1..Len(q)) = keep
  OBVIOUS
<1>4. PICK f : IsPick(t[Len(q)], f, q, Len(q), keep, S)
  BY <1>1, <1>3, PickedRows
<1>5. IsPick(r, f, q, Len(q), keep, S)
  BY <1>2, <1>4
<1>6. r \in Seq(S) /\ DOMAIN r = 1..Len(r)
  BY <1>5 DEF IsPick
<1>7. f \in [DOMAIN r -> keep]
  BY <1>3, <1>5, <1>6 DEF IsPick
<1>8. /\ \A k \in DOMAIN r : r[k] = q[f[k]]
      /\ \A j, k \in DOMAIN r : f[j] = f[k] => j = k
      /\ \A i \in keep : \E k \in DOMAIN r : f[k] = i
  BY <1>3, <1>5, <1>6 DEF IsPick
<1> QED
  BY <1>6, <1>7, <1>8 DEF r

-----------------------------------------------------------------------------
(* Which dispatchers a queue holds.                                        *)

\* An entry for m; no dispatcher twice; the same of a list of dispatchers.
HasEntry(q, m) == \E i \in DOMAIN q : q[i].d = m
OnceEntry(q) == \A i, j \in DOMAIN q : q[i].d = q[j].d => i = j
Has(q, m) == \E i \in DOMAIN q : q[i] = m
Once(q) == \A i, j \in DOMAIN q : q[i] = q[j] => i = j

\* A dispatcher that is woken joins those in awoken_queue_.
LEMMA AppendEntry ==
  ASSUME NEW q \in Seq(Entry), NEW e \in Entry, OnceEntry(q), ~HasEntry(q, e.d)
  PROVE  /\ Append(q, e) \in Seq(Entry) /\ OnceEntry(Append(q, e))
         /\ \A x : HasEntry(Append(q, e), x) <=> HasEntry(q, x) \/ x = e.d
<1> DEFINE n == Len(q)
           r == Append(q, e)
<1>1. /\ r \in Seq(Entry) /\ DOMAIN r = 1..(n + 1) /\ r[n + 1] = e
      /\ n \in Nat /\ DOMAIN q = 1..n /\ \A i \in 1..n : r[i] = q[i]
  OBVIOUS
<1> HIDE DEF n, r
<1>2. /\ \A i \in 1..(n + 1) : i \in 1..n \/ i = n + 1
      /\ \A i \in 1..n : i \in 1..(n + 1)
      /\ n + 1 \in 1..(n + 1)
  BY <1>1
<1>3. OnceEntry(r)
  BY <1>1, <1>2 DEF OnceEntry, HasEntry
<1>4. \A x : HasEntry(r, x) <=> HasEntry(q, x) \/ x = e.d
  BY <1>1, <1>2 DEF HasEntry
<1> QED
  BY <1>1, <1>3, <1>4 DEF r

\* The first n entries are taken.
LEMMA SplitAt ==
  ASSUME NEW q \in Seq(Entry), NEW n \in 0..Len(q), OnceEntry(q)
  PROVE  /\ SubSeq(q, 1, n) \in Seq(Entry)
         /\ OnceEntry(SubSeq(q, 1, n)) /\ OnceEntry(SubSeq(q, n + 1, Len(q)))
         /\ \A x : HasEntry(q, x) <=> (HasEntry(SubSeq(q, 1, n), x)
                                       \/ HasEntry(SubSeq(q, n + 1, Len(q)), x))
         /\ \A x : ~(HasEntry(SubSeq(q, 1, n), x)
                     /\ HasEntry(SubSeq(q, n + 1, Len(q)), x))
<1> DEFINE len == Len(q)
           a == SubSeq(q, 1, n)
           b == SubSeq(q, n + 1, Len(q))
<1>1. /\ a \in Seq(Entry) /\ b \in Seq(Entry) /\ len \in Nat /\ n \in Nat /\ n <= len
      /\ DOMAIN q = 1..len /\ DOMAIN a = 1..n /\ \A i \in 1..n : a[i] = q[i]
  OBVIOUS
<1>2. /\ DOMAIN b = 1..(len - n) /\ \A i \in 1..(len - n) : b[i] = q[n + i]
  OBVIOUS
<1> HIDE DEF len, a, b
<1>3. /\ \A i \in 1..n : i \in 1..len
      /\ \A i \in 1..(len - n) : n + i \in 1..len /\ n + i \notin 1..n
      /\ \A i, j \in 1..(len - n) : n + i = n + j => i = j
  BY <1>1
<1>4. \A i \in 1..len : i \in 1..n \/ (i - n \in 1..(len - n) /\ n + (i - n) = i)
  BY <1>1
<1>12. OnceEntry(a)
  BY <1>1, <1>3 DEF OnceEntry
<1>13. OnceEntry(b)
  <2> SUFFICES ASSUME NEW i \in 1..(len - n), NEW j \in 1..(len - n), b[i].d = b[j].d
               PROVE  i = j
    BY <1>2 DEF OnceEntry
  <2>1. n + i \in 1..len /\ n + j \in 1..len /\ b[i] = q[n + i] /\ b[j] = q[n + j]
    BY <1>2, <1>3
  <2>2. n + i = n + j
    BY <2>1, <1>1 DEF OnceEntry
  <2> QED
    BY <2>2, <1>3
<1>5. OnceEntry(a) /\ OnceEntry(b)
  BY <1>12, <1>13
<1>6. \A x : HasEntry(a, x) \/ HasEntry(b, x) => HasEntry(q, x)
  BY <1>1, <1>2, <1>3 DEF HasEntry
<1>7. ASSUME NEW x, HasEntry(q, x) PROVE HasEntry(a, x) \/ HasEntry(b, x)
  <2>1. PICK i \in 1..len : q[i].d = x
    BY <1>7, <1>1 DEF HasEntry
  <2>2. CASE i \in 1..n
    BY <2>1, <2>2, <1>1 DEF HasEntry
  <2>3. CASE i - n \in 1..(len - n) /\ n + (i - n) = i
    <3>1. b[i - n] = q[i]
      BY <2>3, <1>2
    <3> QED
      BY <2>1, <2>3, <3>1, <1>2 DEF HasEntry
  <2> QED
    BY <2>2, <2>3, <1>4
<1>8. ASSUME NEW x, HasEntry(a, x), HasEntry(b, x) PROVE FALSE
  <2>1. PICK i \in 1..n : a[i].d = x
    BY <1>1, <1>8 DEF HasEntry
  <2>2. PICK j \in 1..(len - n) : b[j].d = x
    BY <1>2, <1>8 DEF HasEntry
  <2>3. i \in 1..len /\ n + j \in 1..len /\ q[i].d = q[n + j].d /\ n + j # i
    BY <1>1, <1>2, <1>3, <2>1, <2>2
  <2> QED
    BY <1>1, <2>3 DEF OnceEntry
<1>9. \A x : HasEntry(q, x) <=> HasEntry(a, x) \/ HasEntry(b, x)
  BY <1>6, <1>7
<1>10. \A x : ~(HasEntry(a, x) /\ HasEntry(b, x))
  BY <1>8
<1>11. a \in Seq(Entry)
  BY <1>1
<1> QED
  BY <1>5, <1>9, <1>10, <1>11 DEF a, b

\* Entries are left out of awoken_queue_.
LEMMA PickEntry ==
  ASSUME NEW q \in Seq(Entry), OnceEntry(q), NEW keep \in SUBSET DOMAIN q
  PROVE  /\ EntriesAt(q, keep) \in Seq(Entry) /\ OnceEntry(EntriesAt(q, keep))
         /\ \A x : HasEntry(EntriesAt(q, keep), x) <=> \E i \in keep : q[i].d = x
<1> DEFINE r == EntriesAt(q, keep)
<1>1. /\ r \in Seq(Entry)
      /\ \E f \in [DOMAIN r -> keep] :
           /\ \A k \in DOMAIN r : r[k] = q[f[k]]
           /\ \A j, k \in DOMAIN r : f[j] = f[k] => j = k
           /\ \A i \in keep : \E k \in DOMAIN r : f[k] = i
  BY EntriesAtIs
<1> HIDE DEF r
<1>2. PICK f \in [DOMAIN r -> keep] :
           /\ \A k \in DOMAIN r : r[k] = q[f[k]]
           /\ \A j, k \in DOMAIN r : f[j] = f[k] => j = k
           /\ \A i \in keep : \E k \in DOMAIN r : f[k] = i
  BY <1>1
<1>3. OnceEntry(r)
  BY <1>2 DEF OnceEntry
<1>4. \A x : HasEntry(r, x) <=> \E i \in keep : q[i].d = x
  BY <1>2 DEF HasEntry
<1> QED
  BY <1>1, <1>3, <1>4 DEF r

\* Dispatchers are left out of processed_dispatchers_.
LEMMA PickMember ==
  ASSUME NEW q \in Seq(Member), Once(q), NEW keep \in SUBSET DOMAIN q
  PROVE  /\ EntriesAt(q, keep) \in Seq(Member) /\ Once(EntriesAt(q, keep))
         /\ \A x : Has(EntriesAt(q, keep), x) <=> \E i \in keep : q[i] = x
<1> DEFINE r == EntriesAt(q, keep)
<1>1. /\ r \in Seq(Member)
      /\ \E f \in [DOMAIN r -> keep] :
           /\ \A k \in DOMAIN r : r[k] = q[f[k]]
           /\ \A j, k \in DOMAIN r : f[j] = f[k] => j = k
           /\ \A i \in keep : \E k \in DOMAIN r : f[k] = i
  BY EntriesAtIs
<1> HIDE DEF r
<1>2. PICK f \in [DOMAIN r -> keep] :
           /\ \A k \in DOMAIN r : r[k] = q[f[k]]
           /\ \A j, k \in DOMAIN r : f[j] = f[k] => j = k
           /\ \A i \in keep : \E k \in DOMAIN r : f[k] = i
  BY <1>1
<1>3. Once(r)
  BY <1>2 DEF Once
<1>4. \A x : Has(r, x) <=> \E i \in keep : q[i] = x
  BY <1>2 DEF Has
<1> QED
  BY <1>1, <1>3, <1>4 DEF r

\* GetReadyDispatchers works on the first of those it retrieved before.
LEMMA TailMember ==
  ASSUME NEW q \in Seq(Member), q # <<>>, Once(q)
  PROVE  /\ Head(q) \in Member /\ Tail(q) \in Seq(Member) /\ Once(Tail(q))
         /\ \A x : Has(q, x) <=> x = Head(q) \/ Has(Tail(q), x)
         /\ ~Has(Tail(q), Head(q))
<1> DEFINE n == Len(q)
           t == Tail(q)
<1>1. /\ Head(q) = q[1] /\ q[1] \in Member /\ t \in Seq(Member) /\ n \in Nat /\ n >= 1
      /\ DOMAIN q = 1..n /\ DOMAIN t = 1..(n - 1)
      /\ \A i \in 1..(n - 1) : t[i] = q[i + 1]
  OBVIOUS
<1> HIDE DEF n, t
<1>2. /\ \A i \in 1..(n - 1) : i + 1 \in 1..n /\ i + 1 # 1
      /\ \A i, j \in 1..(n - 1) : i + 1 = j + 1 => i = j
      /\ 1 \in 1..n
  BY <1>1
<1>3. \A i \in 1..n : i = 1 \/ (i - 1 \in 1..(n - 1) /\ (i - 1) + 1 = i)
  BY <1>1
<1>4. Once(t)
  <2> SUFFICES ASSUME NEW i \in 1..(n - 1), NEW j \in 1..(n - 1), t[i] = t[j]
               PROVE  i = j
    BY <1>1 DEF Once
  <2>1. i + 1 \in 1..n /\ j + 1 \in 1..n /\ q[i + 1] = q[j + 1]
    BY <1>1, <1>2
  <2>2. i + 1 = j + 1
    BY <2>1, <1>1 DEF Once
  <2> QED
    BY <2>2, <1>2
<1>5. ASSUME NEW x PROVE Has(q, x) <=> x = q[1] \/ Has(t, x)
  <2>1. ASSUME Has(q, x) PROVE x = q[1] \/ Has(t, x)
    <3>1. PICK i \in 1..n : q[i] = x
      BY <2>1, <1>1 DEF Has
    <3>2. CASE i # 1
      <4>1. i - 1 \in 1..(n - 1) /\ t[i - 1] = q[i]
        BY <3>2, <1>1, <1>3
      <4> QED
        BY <3>1, <4>1, <1>1 DEF Has
    <3> QED
      BY <3>1, <3>2
  <2>2. ASSUME Has(t, x) PROVE Has(q, x)
    <3>1. PICK i \in 1..(n - 1) : t[i] = x
      BY <2>2, <1>1 DEF Has
    <3>2. i + 1 \in 1..n /\ q[i + 1] = x
      BY <3>1, <1>1, <1>2
    <3> QED
      BY <3>2, <1>1 DEF Has
  <2>3. Has(q, q[1])
    BY <1>1, <1>2 DEF Has
  <2> QED
    BY <2>1, <2>2, <2>3
<1>6. ~Has(t, q[1])
  BY <1>1, <1>2 DEF Has, Once
<1> QED
  BY <1>1, <1>4, <1>5, <1>6 DEF t

-----------------------------------------------------------------------------
(* Types.                                                                  *)

\* The places a call can be at.
At == {"idle", "addWake", "removeQueues", "requeue", "requeueWake",
       "closeCancel", "closeMembers", "closeQueues"}

\* What a call holds.
LEMMA CallHas ==
  ASSUME TypeOK, NEW t \in Api
  PROVE  /\ call[t].at \in At /\ call[t].d \in Member
         /\ call[t].pending \in Seq(Member) /\ call[t].max \in Counts
         /\ call[t] = [at |-> call[t].at, d |-> call[t].d,
                       pending |-> call[t].pending, max |-> call[t].max]
<1>1. call[t] \in Call
  BY DEF TypeOK
<1> QED
  BY <1>1 DEF Call, At

\* Goto moves a call and leaves what it holds.
LEMMA GotoMoves ==
  ASSUME TypeOK, NEW t \in Api, NEW at \in At, Goto(t, at)
  PROVE  /\ call' \in [Api -> Call]
         /\ call'[t].at = at /\ call'[t].d = call[t].d
         /\ call'[t].pending = call[t].pending /\ call'[t].max = call[t].max
         /\ \A u \in Api : u # t => call'[u] = call[u]
<1>1. call \in [Api -> Call] /\ call[t] \in Call
  BY DEF TypeOK
<1>2. call' = [call EXCEPT ![t].at = at]
  BY DEF Goto
<1>3. [call[t] EXCEPT !.at = at] \in Call
  BY <1>1 DEF Call, At
<1> QED
  BY <1>1, <1>2, <1>3 DEF Call

\* An entry of a queue.
LEMMA EntryOf ==
  ASSUME NEW q \in Seq(Entry), NEW i \in DOMAIN q
  PROVE  q[i] \in Entry /\ q[i].d \in Member
<1>1. q[i] \in Entry
  OBVIOUS
<1> QED
  BY <1>1 DEF Entry

\* What WakeDispatcher appends to awoken_queue_.
LEMMA QueuedIs ==
  ASSUME NEW q, NEW m \in Member,
         NEW result \in {"OK", "ALREADY_EXISTS", "FAILED_PRECONDITION", "CANCELLED"}
  PROVE  \E e \in Entry : e.d = m /\ Queued(q, m, result) = Append(q, e)
<1> DEFINE e == [d |-> m, result |-> IF result = "ALREADY_EXISTS" THEN "OK" ELSE result]
<1>1. e \in Entry /\ e.d = m
  BY DEF Entry, Result
<1>2. Queued(q, m, result) = Append(q, e)
  BY DEF Queued
<1> QED
  BY <1>1, <1>2

\* The results that are queued.
LEMMA Results ==
  ASSUME NEW m \in Member, NEW s \in Signal
  PROVE  /\ AddAwakable(m) \in {"INVALID_ARGUMENT", "ALREADY_EXISTS",
                                "FAILED_PRECONDITION", "OK"}
         /\ AwakeResult(s) \in {"CANCELLED", "OK", "FAILED_PRECONDITION"}
BY DEF AddAwakable, AwakeResult

\* Retrieved moves members to processed_dispatchers_.
LEMMA RetrievedTypes ==
  ASSUME TypeOK, NEW taken \in Seq(Entry), Retrieved(taken)
  PROVE  processed' \in Seq(Member) /\ waiting' \subseteq Member
<1> DEFINE keep == {i \in DOMAIN taken : taken[i].result # "CANCELLED"}
           open == EntriesAt(taken, keep)
           ds == [i \in DOMAIN open |-> open[i].d]
<1>1. open \in Seq(Entry)
  BY EntriesAtIs
<1>2. processed' = processed \o ds /\ waiting' \subseteq waiting
  BY DEF Retrieved
<1> HIDE DEF open
<1>3. ds \in Seq(Member)
  <2>1. \A i \in DOMAIN open : open[i].d \in Member
    BY <1>1, EntryOf
  <2>2. DOMAIN open = 1..Len(open) /\ Len(open) \in Nat
    BY <1>1
  <2> QED
    BY <2>1, <2>2
<1> HIDE DEF ds
<1> QED
  BY <1>2, <1>3 DEF TypeOK

\* The first entries of awoken_queue_ and the others.
LEMMA TakenTypes ==
  ASSUME TypeOK, NEW n, n \in 0..Len(awoken)
  PROVE  /\ SubSeq(awoken, 1, n) \in Seq(Entry)
         /\ SubSeq(awoken, n + 1, Len(awoken)) \in Seq(Entry)
         /\ Members(SubSeq(awoken, 1, n)) \subseteq Member
<1> DEFINE a == SubSeq(awoken, 1, n)
<1>1. a \in Seq(Entry) /\ SubSeq(awoken, n + 1, Len(awoken)) \in Seq(Entry)
  BY DEF TypeOK
<1> HIDE DEF a
<1>2. Members(a) \subseteq Member
  BY <1>1, EntryOf DEF Members
<1> QED
  BY <1>1, <1>2 DEF a

\* How many Retrieve takes.
LEMMA TakenLen ==
  ASSUME TypeOK, NEW t \in Api,
         NEW n, n = IF Len(awoken) < call[t].max THEN Len(awoken) ELSE call[t].max
  PROVE  n \in 0..Len(awoken) /\ (n = 0 => awoken = <<>>)
<1>1. call[t].max \in Nat \ {0} /\ awoken \in Seq(Entry)
  BY CallHas, WaitSetAssumption DEF TypeOK
<1> QED
  BY <1>1

\* TypeOK holds at first.
LEMMA InitTypes ==
  ASSUME Init
  PROVE  TypeOK
<1>1. call \in [Api -> Call]
  <2>1. /\ (CHOOSE m \in Member : TRUE) \in Member
        /\ (CHOOSE c \in Counts : TRUE) \in Counts
    BY WaitSetAssumption
  <2>2. <<>> \in Seq(Member)
    OBVIOUS
  <2> QED
    BY <2>1, <2>2 DEF Init, Call
<1>2. state \in [Member -> Signal]
  BY DEF Init, Signal
<1>3. awoken \in Seq(Entry) /\ processed \in Seq(Member)
  BY DEF Init
<1> QED
  BY <1>1, <1>2, <1>3 DEF Init, TypeOK

\* Waking a member's awakables keeps the types.
LEMMA AwakeTypes ==
  ASSUME TypeOK, NEW m \in Member, NEW s \in Signal, Awake(m, s)
  PROVE  awoken' \in Seq(Entry) /\ armed' \subseteq Member /\ waking' \subseteq Member
<1>1. PICK e \in Entry : Queued(awoken, m, AwakeResult(s)) = Append(awoken, e)
  BY Results, QueuedIs
<1>2. Append(awoken, e) \in Seq(Entry) /\ awoken \in Seq(Entry)
  BY DEF TypeOK
<1>3. awoken' \in {awoken, Append(awoken, e)} /\ armed' \subseteq armed
      /\ waking' \subseteq waking \cup {m}
  BY <1>1 DEF Awake
<1> QED
  BY <1>2, <1>3 DEF TypeOK

\* The next state has the types of TypeOK.
LEMMA TypeStep ==
  ASSUME TypeOK, [Next]_vars
  PROVE  TypeOK'
<1>1. ASSUME NEW m \in Member, SignalsChange(m) PROVE TypeOK'
  <2>1. PICK s \in Signal : state' = [state EXCEPT ![m] = s] /\ Awake(m, s)
    BY <1>1 DEF SignalsChange
  <2>2. awoken' \in Seq(Entry) /\ armed' \subseteq Member /\ waking' \subseteq Member
    BY <2>1, AwakeTypes
  <2>3. state' \in [Member -> Signal] /\ transit' \subseteq Member
    BY <1>1, <2>1 DEF SignalsChange, TypeOK
  <2> QED
    BY <1>1, <2>2, <2>3 DEF SignalsChange, TypeOK, waiterVars
<1>17. ASSUME NEW m \in Member, BeginTransit(m) PROVE TypeOK'
  BY <1>17 DEF BeginTransit, TypeOK, waiterVars
<1>18. ASSUME NEW m \in Member, CancelTransit(m) PROVE TypeOK'
  <2>1. state[m] \in Signal /\ Awake(m, state[m])
    BY <1>18 DEF CancelTransit, TypeOK
  <2>2. awoken' \in Seq(Entry) /\ armed' \subseteq Member /\ waking' \subseteq Member
    BY <2>1, AwakeTypes
  <2> QED
    BY <1>18, <2>2 DEF CancelTransit, TypeOK, waiterVars
<1>2. ASSUME NEW m \in Member, SignalsChanged(m) PROVE TypeOK'
  BY <1>2 DEF SignalsChanged, WakeWaiters, TypeOK
<1>3. ASSUME NEW t \in Api, NEW m \in Member, AddWaitingDispatcher(t, m) PROVE TypeOK'
  <2>1. CASE AddAwakable(m) = "OK"
    BY <1>3, <2>1 DEF AddWaitingDispatcher, TypeOK, waiterVars
  <2>2. CASE AddAwakable(m) # "OK"
    <3>1. AddAwakable(m) \in {"ALREADY_EXISTS", "FAILED_PRECONDITION"}
      <4>1. AddAwakable(m) # "INVALID_ARGUMENT"
        BY <1>3 DEF AddWaitingDispatcher
      <4>2. "unsat" \in Signal
        BY DEF Signal
      <4> QED
        BY <4>1, <4>2, <2>2, Results
    <3>2. PICK e \in Entry : Queued(awoken, m, AddAwakable(m)) = Append(awoken, e)
      BY <3>1, QueuedIs
    <3>3. awoken' \in Seq(Entry) /\ Goto(t, "addWake")
      BY <1>3, <2>2, <3>2 DEF AddWaitingDispatcher, TypeOK
    <3>4. call' \in [Api -> Call]
      <4>1. "addWake" \in At
        BY DEF At
      <4> QED
        BY <3>3, <4>1, GotoMoves
    <3> QED
      BY <1>3, <2>2, <3>3, <3>4 DEF AddWaitingDispatcher, TypeOK, waiterVars
  <2> QED
    BY <2>1, <2>2
<1>4. ASSUME NEW t \in Api, NEW m \in Member, RemoveWaitingDispatcher(t, m) PROVE TypeOK'
  <2>1. call' \in [Api -> Call]
    <3>1. /\ call \in [Api -> Call] /\ call[t] \in Call
          /\ call' = [call EXCEPT ![t].at = "removeQueues", ![t].d = m]
      BY <1>4 DEF RemoveWaitingDispatcher, TypeOK
    <3>2. [call[t] EXCEPT !.at = "removeQueues", !.d = m] \in Call
      BY <3>1 DEF Call
    <3> QED
      BY <3>1, <3>2
  <2> QED
    BY <1>4, <2>1 DEF RemoveWaitingDispatcher, TypeOK, waiterVars
<1>5. ASSUME NEW t \in Api, NEW max \in Counts, GetReadyDispatchers(t, max) PROVE TypeOK'
  <2>1. call' \in [Api -> Call]
    <3>1. /\ call \in [Api -> Call] /\ call[t] \in Call /\ processed \in Seq(Member)
          /\ call' = [call EXCEPT ![t].at = "requeue", ![t].pending = processed,
                                  ![t].max = max]
      BY <1>5 DEF GetReadyDispatchers, TypeOK
    <3>2. [call[t] EXCEPT !.at = "requeue", !.pending = processed, !.max = max] \in Call
      BY <3>1 DEF Call
    <3> QED
      BY <3>1, <3>2
  <2> QED
    BY <1>5, <2>1 DEF GetReadyDispatchers, TypeOK, waiterVars
<1>6. ASSUME NEW t \in Api, Close(t) PROVE TypeOK'
  <2>1. call' \in [Api -> Call]
    BY <1>6, GotoMoves DEF Close, At
  <2> QED
    BY <1>6, <2>1 DEF Close, TypeOK, waiterVars
<1>7. ASSUME NEW t \in Api, AddWaitingDispatcherWakes(t) PROVE TypeOK'
  <2>1. call' \in [Api -> Call]
    BY <1>7, GotoMoves DEF AddWaitingDispatcherWakes, At
  <2> QED
    BY <1>7, <2>1 DEF AddWaitingDispatcherWakes, WakeWaiters, TypeOK
<1>8. ASSUME NEW t \in Api, RemoveFromQueues(t) PROVE TypeOK'
  <2>1. call' \in [Api -> Call]
    BY <1>8, GotoMoves DEF RemoveFromQueues, At
  <2>2. awoken' \in Seq(Entry) /\ processed' \in Seq(Member)
    <3>1. Unqueued(call[t].d)
      BY <1>8 DEF RemoveFromQueues
    <3> QED
      BY <3>1, EntriesAtIs DEF Unqueued, TypeOK
  <2>3. failed' \in BOOLEAN
    BY <1>8 DEF RemoveFromQueues
  <2> QED
    BY <1>8, <2>1, <2>2, <2>3 DEF RemoveFromQueues, TypeOK, waiterVars
<1>9. ASSUME NEW t \in Api, Requeue(t) PROVE TypeOK'
  <2> DEFINE m == Head(call[t].pending)
             rest == Tail(call[t].pending)
             at == IF RequeueResult(m) \in {"OK", "INVALID_ARGUMENT"}
                   THEN "requeue" ELSE "requeueWake"
  <2>1. call[t].pending \in Seq(Member) /\ call[t].pending # <<>>
    BY <1>9, CallHas DEF Requeue
  <2>2. m \in Member /\ rest \in Seq(Member)
    BY <2>1
  <2>3. call' = [call EXCEPT ![t].pending = rest, ![t].at = at]
    BY <1>9 DEF Requeue
  <2>4. awoken' \in Seq(Entry)
    <3>1. CASE RequeueResult(m) \in {"OK", "INVALID_ARGUMENT"}
      BY <1>9, <3>1 DEF Requeue, TypeOK
    <3>2. CASE RequeueResult(m) \notin {"OK", "INVALID_ARGUMENT"}
      <4>1. AddAwakable(m) \in {"ALREADY_EXISTS", "FAILED_PRECONDITION"}
        <5>1. "unsat" \in Signal
          BY DEF Signal
        <5> QED
          BY <3>2, <5>1, <2>2, Results DEF RequeueResult
      <4>2. PICK e \in Entry : Queued(awoken, m, AddAwakable(m)) = Append(awoken, e)
        BY <4>1, <2>2, QueuedIs
      <4>3. awoken' = Append(awoken, e)
        BY <1>9, <3>2, <4>2 DEF Requeue, RequeueResult
      <4> QED
        BY <4>2, <4>3 DEF TypeOK
    <3> QED
      BY <3>1, <3>2
  <2>5. armed' \subseteq Member /\ waiting' \subseteq Member /\ failed' \in BOOLEAN
    BY <1>9, <2>2 DEF Requeue, Kept, TypeOK
  <2>6. at \in At
    BY DEF At
  <2> HIDE DEF m, rest, at
  <2>7. call' \in [Api -> Call]
    <3>1. call \in [Api -> Call] /\ call[t] \in Call
      BY DEF TypeOK
    <3>2. [call[t] EXCEPT !.pending = rest, !.at = at] \in Call
      BY <3>1, <2>2, <2>6 DEF Call, At
    <3> QED
      BY <3>1, <3>2, <2>3
  <2> QED
    BY <1>9, <2>4, <2>5, <2>7 DEF Requeue, TypeOK, waiterVars
<1>10. ASSUME NEW t \in Api, RequeueWakes(t) PROVE TypeOK'
  <2>1. call' \in [Api -> Call]
    BY <1>10, GotoMoves DEF RequeueWakes, At
  <2> QED
    BY <1>10, <2>1 DEF RequeueWakes, WakeWaiters, TypeOK
<1>11. ASSUME NEW t \in Api, Retrieve(t) PROVE TypeOK'
  <2> DEFINE n == IF Len(awoken) < call[t].max THEN Len(awoken) ELSE call[t].max
             taken == SubSeq(awoken, 1, n)
  <2>1. n \in 0..Len(awoken)
    BY TakenLen
  <2>2. /\ awoken' = SubSeq(awoken, n + 1, Len(awoken)) /\ Retrieved(taken)
        /\ returned' = Members(taken) /\ Goto(t, "idle") /\ holder' = {}
        /\ failed' = (failed \/ ~(Members(taken) \subseteq waiting))
    BY <1>11 DEF Retrieve
  <2> HIDE DEF n
  <2>3. awoken' \in Seq(Entry) /\ taken \in Seq(Entry) /\ returned' \subseteq Member
    BY <2>1, <2>2, TakenTypes
  <2> HIDE DEF taken
  <2>4. processed' \in Seq(Member) /\ waiting' \subseteq Member
    BY <2>2, <2>3, RetrievedTypes
  <2>5. call' \in [Api -> Call] /\ failed' \in BOOLEAN /\ holder' \subseteq Api
    BY <2>2, GotoMoves DEF At
  <2>6. UNCHANGED <<isClosed, state, transit, armed, waking, waiter, late, outrun>>
    BY <1>11 DEF Retrieve, waiterVars
  <2> QED
    BY <2>3, <2>4, <2>5, <2>6 DEF TypeOK
<1>12. ASSUME NEW t \in Api, CloseCancels(t) PROVE TypeOK'
  <2>1. call' \in [Api -> Call]
    BY <1>12, GotoMoves DEF CloseCancels, At
  <2> QED
    BY <1>12, <2>1 DEF CloseCancels, CancelAll, TypeOK
<1>13. ASSUME NEW t \in Api, CloseMembers(t) PROVE TypeOK'
  <2>1. call' \in [Api -> Call]
    BY <1>13, GotoMoves DEF CloseMembers, At
  <2> QED
    BY <1>13, <2>1 DEF CloseMembers, Disarmed, TypeOK, waiterVars
<1>14. ASSUME NEW t \in Api, CloseQueues(t) PROVE TypeOK'
  <2>1. call' \in [Api -> Call]
    BY <1>14, GotoMoves DEF CloseQueues, At
  <2> QED
    BY <1>14, <2>1 DEF CloseQueues, TypeOK, waiterVars
<1>15. CASE WaitFinds \/ WaitLooks \/ WaitListed \/ WaitOver
  BY <1>15 DEF WaitFinds, WaitLooks, WaitListed, WaitOver, TypeOK
<1>16. CASE UNCHANGED vars
  BY <1>16 DEF vars, TypeOK
<1> QED
  BY <1>1, <1>2, <1>3, <1>4, <1>5, <1>6, <1>7, <1>8, <1>9, <1>10, <1>11, <1>12,
     <1>13, <1>14, <1>15, <1>16, <1>17, <1>18 DEF Next, Continue

\* The type invariant of the wait set.
THEOREM TypeCorrect == Spec => []TypeOK
<1>1. TypeOK /\ [Next]_vars => TypeOK'
  BY TypeStep
<1> QED
  BY InitTypes, <1>1, PTL DEF Spec

-----------------------------------------------------------------------------
(* The one who waits is woken.                                             *)

\* Close is before CancelAll.
Cancelling == \E t \in Api : call[t].at = "closeCancel"

\* WaiterWoken, also for a thread that has looked and is not in the list yet;
\* one that has yet to look is too late only after CancelAll.
WakeSound ==
  /\ waiter \in {"checked", "listed"} /\ (Readable \/ isClosed) => late \/ Waking
  /\ waiter = "found" /\ isClosed => late \/ Cancelling

WInv == TypeOK /\ WakeSound

\* A step that wakes nobody, closes nothing and queues nothing.
LEMMA WakeKept ==
  ASSUME WakeSound, waiter' = waiter, late' = late, isClosed' = isClosed,
         Readable' => Readable, Waking => Waking', Cancelling => Cancelling'
  PROVE  WakeSound'
BY DEF WakeSound

\* The second half of WakeDispatcher.
LEMMA WakeDone ==
  ASSUME TypeOK, WakeSound, WakeWaiters, isClosed' = isClosed, Cancelling => Cancelling'
  PROVE  WakeSound'
BY DEF WakeSound, WakeWaiters, TypeOK

\* What the others do goes on.
LEMMA OthersKept ==
  ASSUME NEW t \in Api, \A u \in Api : u # t => call'[u] = call[u]
  PROVE  /\ (waking' = waking /\ call[t].at \notin {"addWake", "requeueWake", "closeCancel"})
              => (Waking => Waking')
         /\ call[t].at # "closeCancel" => (Cancelling => Cancelling')
BY DEF Waking, Cancelling

\* Nothing is left of an empty queue.
LEMMA PickEmpty ==
  ASSUME NEW S, NEW q \in Seq(S), q = <<>>, NEW keep, keep \subseteq DOMAIN q
  PROVE  EntriesAt(q, keep) = <<>>
<1> DEFINE r == EntriesAt(q, keep)
<1>1. r \in Seq(S) /\ \E f \in [DOMAIN r -> keep] : TRUE
  BY EntriesAtIs
<1> HIDE DEF r
<1>2. keep = {}
  OBVIOUS
<1>3. DOMAIN r = {}
  BY <1>1, <1>2
<1>4. r = <<>>
  BY <1>1, <1>3
<1> QED
  BY <1>4 DEF r

\* Nothing is retrieved from an empty queue.
LEMMA RetrieveEmpty ==
  ASSUME TypeOK, NEW t \in Api, Retrieve(t), awoken = <<>>
  PROVE  awoken' = <<>> /\ processed' = processed
<1> DEFINE n == IF Len(awoken) < call[t].max THEN Len(awoken) ELSE call[t].max
           taken == SubSeq(awoken, 1, n)
           keep == {i \in DOMAIN taken : taken[i].result # "CANCELLED"}
           open == EntriesAt(taken, keep)
<1>1. n \in 0..Len(awoken) /\ Len(awoken) = 0
  BY TakenLen
<1>2. n = 0
  BY <1>1
<1>3. awoken' = SubSeq(awoken, n + 1, Len(awoken)) /\ Retrieved(taken)
  BY DEF Retrieve
<1> HIDE DEF n
<1>4. taken = <<>> /\ awoken' = <<>>
  BY <1>2, <1>3
<1>5. processed' = processed \o [i \in DOMAIN open |-> open[i].d]
  BY <1>3 DEF Retrieved
<1>6. open = <<>>
  <2> HIDE DEF taken
  <2>1. <<>> \in Seq(Entry)
    OBVIOUS
  <2>2. taken \in Seq(Entry)
    BY <1>4, <2>1, Zenon
  <2> QED
    BY <2>2, <1>4, PickEmpty
<1> HIDE DEF open
<1>7. [i \in DOMAIN open |-> open[i].d] = <<>>
  BY <1>6
<1> QED
  BY <1>4, <1>5, <1>7 DEF TypeOK

\* A member that queues itself is about to wake the waiters.
LEMMA WakeSignal ==
  ASSUME WakeSound, NEW m, UNCHANGED <<isClosed, processed, call, waiter, late>>,
         m \in waking' \/ UNCHANGED <<awoken, waking>>
  PROVE  WakeSound'
<1>1. CASE m \in waking'
  BY <1>1 DEF WakeSound, Waking, Cancelling
<1>2. CASE UNCHANGED <<awoken, waking>>
  BY <1>2 DEF WakeSound, Waking, Cancelling, Readable
<1> QED
  BY <1>1, <1>2

\* The wakeup of every step.
LEMMA WakeStep ==
  ASSUME TypeOK, WakeSound, [Next]_vars
  PROVE  WakeSound'
<1>1. ASSUME NEW m \in Member, SignalsChange(m) PROVE WakeSound'
  BY <1>1, WakeSignal DEF SignalsChange, Awake, waiterVars
<1>17. ASSUME NEW m \in Member, BeginTransit(m) \/ CancelTransit(m) PROVE WakeSound'
  BY <1>17, WakeSignal DEF BeginTransit, CancelTransit, Awake, waiterVars
<1>2. ASSUME NEW m \in Member, SignalsChanged(m) PROVE WakeSound'
  <2>1. WakeWaiters /\ UNCHANGED <<isClosed, call>>
    BY <1>2 DEF SignalsChanged
  <2>2. Cancelling => Cancelling'
    BY <2>1 DEF Cancelling
  <2> QED
    BY <2>1, <2>2, WakeDone
<1>3. ASSUME NEW t \in Api, NEW m \in Member, AddWaitingDispatcher(t, m)
      PROVE  WakeSound'
  <2>1. UNCHANGED <<isClosed, processed, waking, waiter, late>> /\ call[t].at = "idle"
    BY <1>3 DEF AddWaitingDispatcher, waiterVars
  <2>2. CASE AddAwakable(m) = "OK"
    <3>1. UNCHANGED <<awoken, call>>
      BY <1>3, <2>2 DEF AddWaitingDispatcher
    <3> QED
      BY <2>1, <3>1 DEF WakeSound, Waking, Cancelling, Readable
  <2>3. CASE AddAwakable(m) # "OK"
    <3>1. Goto(t, "addWake")
      BY <1>3, <2>3 DEF AddWaitingDispatcher
    <3>2. call'[t].at = "addWake" /\ \A u \in Api : u # t => call'[u] = call[u]
      BY <3>1, GotoMoves DEF At
    <3>3. Waking'
      BY <3>2 DEF Waking
    <3>4. Cancelling => Cancelling'
      BY <2>1, <3>2, OthersKept
    <3> QED
      BY <2>1, <3>3, <3>4 DEF WakeSound
  <2> QED
    BY <2>2, <2>3
<1>4. ASSUME NEW t \in Api, NEW m \in Member, RemoveWaitingDispatcher(t, m)
      PROVE  WakeSound'
  <2>1. /\ UNCHANGED <<isClosed, awoken, processed, waking, waiter, late>>
        /\ call[t].at = "idle"
        /\ call' = [call EXCEPT ![t].at = "removeQueues", ![t].d = m]
    BY <1>4 DEF RemoveWaitingDispatcher, waiterVars
  <2>2. \A u \in Api : u # t => call'[u] = call[u]
    BY <2>1 DEF TypeOK
  <2>3. (Waking => Waking') /\ (Cancelling => Cancelling')
    BY <2>1, <2>2, OthersKept
  <2>4. Readable' => Readable
    BY <2>1 DEF Readable
  <2> QED
    BY <2>1, <2>3, <2>4, WakeKept
<1>5. ASSUME NEW t \in Api, NEW max \in Counts, GetReadyDispatchers(t, max)
      PROVE  WakeSound'
  <2>1. /\ UNCHANGED <<isClosed, awoken, waking, waiter, late>>
        /\ call[t].at = "idle" /\ processed' = <<>>
        /\ call' = [call EXCEPT ![t].at = "requeue", ![t].pending = processed,
                                ![t].max = max]
    BY <1>5 DEF GetReadyDispatchers, waiterVars
  <2>2. \A u \in Api : u # t => call'[u] = call[u]
    BY <2>1 DEF TypeOK
  <2>3. (Waking => Waking') /\ (Cancelling => Cancelling')
    BY <2>1, <2>2, OthersKept
  <2>4. Readable' => Readable
    BY <2>1 DEF Readable
  <2> QED
    BY <2>1, <2>3, <2>4, WakeKept
<1>6. ASSUME NEW t \in Api, Close(t) PROVE WakeSound'
  <2>1. Goto(t, "closeCancel")
    BY <1>6 DEF Close
  <2>2. call'[t].at = "closeCancel"
    BY <2>1, GotoMoves DEF At
  <2> QED
    BY <2>2 DEF WakeSound, Waking, Cancelling
<1>7. ASSUME NEW t \in Api, AddWaitingDispatcherWakes(t) PROVE WakeSound'
  <2>1. /\ Goto(t, "idle") /\ WakeWaiters /\ UNCHANGED isClosed
        /\ call[t].at = "addWake"
    BY <1>7 DEF AddWaitingDispatcherWakes
  <2>2. \A u \in Api : u # t => call'[u] = call[u]
    BY <2>1, GotoMoves DEF At
  <2>3. Cancelling => Cancelling'
    BY <2>1, <2>2, OthersKept
  <2> QED
    BY <2>1, <2>3, WakeDone
<1>8. ASSUME NEW t \in Api, RemoveFromQueues(t) PROVE WakeSound'
  <2>1. /\ UNCHANGED <<isClosed, waking, waiter, late>> /\ Goto(t, "idle")
        /\ call[t].at = "removeQueues" /\ Unqueued(call[t].d)
    BY <1>8 DEF RemoveFromQueues, waiterVars
  <2>2. \A u \in Api : u # t => call'[u] = call[u]
    BY <2>1, GotoMoves DEF At
  <2>3. (Waking => Waking') /\ (Cancelling => Cancelling')
    BY <2>1, <2>2, OthersKept
  <2>4. awoken = <<>> => awoken' = <<>>
    <3> DEFINE keep == {i \in DOMAIN awoken : awoken[i].d # call[t].d}
    <3>1. awoken' = EntriesAt(awoken, keep) /\ keep \subseteq DOMAIN awoken
      BY <2>1 DEF Unqueued
    <3> HIDE DEF keep
    <3> QED
      BY <3>1, PickEmpty DEF TypeOK
  <2>5. processed = <<>> => processed' = <<>>
    <3> DEFINE keep == {i \in DOMAIN processed : processed[i] # call[t].d}
    <3>1. processed' = EntriesAt(processed, keep) /\ keep \subseteq DOMAIN processed
      BY <2>1 DEF Unqueued
    <3> HIDE DEF keep
    <3> QED
      BY <3>1, PickEmpty DEF TypeOK
  <2>6. Readable' => Readable
    BY <2>4, <2>5 DEF Readable
  <2> QED
    BY <2>1, <2>3, <2>6, WakeKept
<1>9. ASSUME NEW t \in Api, Requeue(t) PROVE WakeSound'
  <2> DEFINE m == Head(call[t].pending)
             rest == Tail(call[t].pending)
             quiet == RequeueResult(m) \in {"OK", "INVALID_ARGUMENT"}
             at == IF quiet THEN "requeue" ELSE "requeueWake"
  <2>1. /\ call' = [call EXCEPT ![t].pending = rest, ![t].at = at]
        /\ quiet => awoken' = awoken
        /\ UNCHANGED <<isClosed, processed, waking, waiter, late>>
        /\ call[t].at = "requeue"
    BY <1>9 DEF Requeue, waiterVars
  <2>2. call \in [Api -> Call] /\ call[t] \in Call
    BY DEF TypeOK
  <2> HIDE DEF m, rest
  <2>3. call'[t].at = at /\ \A u \in Api : u # t => call'[u] = call[u]
    BY <2>1, <2>2 DEF Call
  <2> HIDE DEF quiet
  <2>4. CASE quiet
    <3>1. (Waking => Waking') /\ (Cancelling => Cancelling')
      BY <2>1, <2>3, OthersKept
    <3>2. Readable' => Readable
      BY <2>1, <2>4 DEF Readable
    <3> QED
      BY <2>1, <3>1, <3>2, WakeKept
  <2>5. CASE ~quiet
    <3>1. call'[t].at = "requeueWake"
      BY <2>3, <2>5
    <3>2. Waking'
      BY <3>1 DEF Waking
    <3>3. Cancelling => Cancelling'
      BY <2>1, <2>3, OthersKept
    <3> QED
      BY <2>1, <3>2, <3>3 DEF WakeSound
  <2> QED
    BY <2>4, <2>5
<1>10. ASSUME NEW t \in Api, RequeueWakes(t) PROVE WakeSound'
  <2>1. /\ Goto(t, "requeue") /\ WakeWaiters /\ UNCHANGED isClosed
        /\ call[t].at = "requeueWake"
    BY <1>10 DEF RequeueWakes
  <2>2. \A u \in Api : u # t => call'[u] = call[u]
    BY <2>1, GotoMoves DEF At
  <2>3. Cancelling => Cancelling'
    BY <2>1, <2>2, OthersKept
  <2> QED
    BY <2>1, <2>3, WakeDone
<1>11. ASSUME NEW t \in Api, Retrieve(t) PROVE WakeSound'
  <2>1. /\ UNCHANGED <<isClosed, waking, waiter, late>> /\ Goto(t, "idle")
        /\ call[t].at = "requeue"
    BY <1>11 DEF Retrieve, waiterVars
  <2>2. \A u \in Api : u # t => call'[u] = call[u]
    BY <2>1, GotoMoves DEF At
  <2>3. (Waking => Waking') /\ (Cancelling => Cancelling')
    BY <2>1, <2>2, OthersKept
  <2>4. Readable' => Readable
    BY <1>11, RetrieveEmpty DEF Readable
  <2> QED
    BY <2>1, <2>3, <2>4, WakeKept
<1>12. ASSUME NEW t \in Api, CloseCancels(t) PROVE WakeSound'
  BY <1>12 DEF CloseCancels, CancelAll, WakeSound, TypeOK
<1>13. ASSUME NEW t \in Api, CloseMembers(t) PROVE WakeSound'
  <2>1. /\ UNCHANGED <<isClosed, awoken, processed, waking, waiter, late>>
        /\ Goto(t, "closeQueues") /\ call[t].at = "closeMembers"
    BY <1>13 DEF CloseMembers, waiterVars
  <2>2. \A u \in Api : u # t => call'[u] = call[u]
    BY <2>1, GotoMoves DEF At
  <2>3. (Waking => Waking') /\ (Cancelling => Cancelling')
    BY <2>1, <2>2, OthersKept
  <2>4. Readable' => Readable
    BY <2>1 DEF Readable
  <2> QED
    BY <2>1, <2>3, <2>4, WakeKept
<1>14. ASSUME NEW t \in Api, CloseQueues(t) PROVE WakeSound'
  <2>1. /\ UNCHANGED <<isClosed, waking, waiter, late>> /\ Goto(t, "idle")
        /\ call[t].at = "closeQueues" /\ awoken' = <<>> /\ processed' = <<>>
    BY <1>14 DEF CloseQueues, waiterVars
  <2>2. \A u \in Api : u # t => call'[u] = call[u]
    BY <2>1, GotoMoves DEF At
  <2>3. (Waking => Waking') /\ (Cancelling => Cancelling')
    BY <2>1, <2>2, OthersKept
  <2>4. Readable' => Readable
    BY <2>1 DEF Readable
  <2> QED
    BY <2>1, <2>3, <2>4, WakeKept
<1>15. CASE WaitFinds \/ WaitLooks \/ WaitListed \/ WaitOver
  <2>1. UNCHANGED <<isClosed, awoken, processed, call, waking>>
    BY <1>15 DEF WaitFinds, WaitLooks, WaitListed, WaitOver
  <2>2. Readable' = Readable /\ Waking' = Waking /\ Cancelling' = Cancelling
    BY <2>1 DEF Readable, Waking, Cancelling
  <2>3. Cancelling => Waking
    BY DEF Cancelling, Waking
  <2> QED
    BY <1>15, <2>1, <2>2, <2>3
    DEF WaitFinds, WaitLooks, WaitListed, WaitOver, WakeSound, TypeOK
<1>16. CASE UNCHANGED vars
  BY <1>16 DEF vars, WakeSound, Waking, Cancelling, Readable
<1> QED
  BY <1>1, <1>2, <1>3, <1>4, <1>5, <1>6, <1>7, <1>8, <1>9, <1>10, <1>11, <1>12,
     <1>13, <1>14, <1>15, <1>16, <1>17 DEF Next, Continue

\* A thread that waits on the wait set is woken, whatever the calls and the
\* members do: WakeDispatcher and Close take awoken_lock_ and awakable_lock_ one
\* after the other, and only the wakeups that WaiterWoken names are missed.
THEOREM WaiterWokenHolds == Spec => []WaiterWoken
<1>1. Init => WInv
  BY InitTypes DEF Init, WInv, WakeSound
<1>2. WInv /\ [Next]_vars => WInv'
  BY TypeStep, WakeStep DEF WInv
<1>3. WInv => WaiterWoken
  BY DEF WInv, WakeSound, WaiterWoken
<1> QED
  BY <1>1, <1>2, <1>3, PTL DEF Spec

-----------------------------------------------------------------------------
(* Where the dispatchers are.                                              *)

\* What the calls in progress hold, and the dispatchers they are about to take
\* out of the queues.
InCall(m) == \E t \in Api : Has(call[t].pending, m)
Removing(m) == \E t \in Api : call[t].at = "removeQueues" /\ call[t].d = m
Closing == \E t \in Api : call[t].at = "closeQueues"
Requeuing(t) == call[t].at \in {"requeue", "requeueWake"}
Holding == {"addWake", "requeue", "requeueWake"}
InClose == {"closeCancel", "closeMembers", "closeQueues"}

\* Who holds lock_, and who closes the wait set: one thread at most each.
Locks ==
  /\ \A t \in Api : t \in holder <=> call[t].at \in Holding
  /\ \A t, u \in holder : t = u
  /\ \A t \in Api : call[t].at \in InClose => isClosed
  /\ \A t, u \in Api : call[t].at \in InClose /\ call[u].at \in InClose => t = u
  /\ Closing => waiting = {}

\* No list holds a dispatcher twice.
Lists ==
  /\ OnceEntry(awoken)
  /\ Once(processed)
  /\ \A t \in Api : Once(call[t].pending)

\* No two lists hold the same dispatcher.
Apart(m) ==
  /\ ~(HasEntry(awoken, m) /\ Has(processed, m))
  /\ ~(HasEntry(awoken, m) /\ m \in armed)
  /\ ~(HasEntry(awoken, m) /\ InCall(m))
  /\ ~(Has(processed, m) /\ m \in armed)
  /\ ~(Has(processed, m) /\ InCall(m))
  /\ ~(m \in armed /\ InCall(m))

\* A dispatcher that is waited for is in a list.
Placed(m) ==
  m \in waiting => HasEntry(awoken, m) \/ Has(processed, m) \/ InCall(m) \/ m \in armed

\* A dispatcher in a list is waited for, or about to leave the queues.
Known(m) ==
  /\ m \in armed \/ InCall(m) => m \in waiting
  /\ HasEntry(awoken, m) \/ Has(processed, m) => m \in waiting \/ Removing(m) \/ Closing
  /\ Removing(m) \/ Closing => m \notin waiting

\* What GetReadyDispatchers has retrieved before is its own while it runs.
Calls ==
  \A t \in Api : IF Requeuing(t) THEN processed = <<>> ELSE call[t].pending = <<>>

\* It does not run beside a call that is half through with a removal.
Excludes == (\E t \in Api : Requeuing(t)) => ~HalfRemoving

PlaceInv ==
  /\ ~failed
  /\ Lists
  /\ \A m \in Member : Apart(m) /\ Placed(m) /\ Known(m)
  /\ Calls
  /\ Excludes

PInv == TypeOK /\ Locks /\ (outrun \/ PlaceInv)

\* A thread that takes lock_ or has it runs GetReadyDispatchers alone.
LEMMA Alone ==
  ASSUME TypeOK, Locks, NEW t \in Api, Free \/ call[t].at \in Holding
  PROVE  \A u \in Api : u # t => ~Requeuing(u)
BY DEF Locks, Free, Requeuing, Holding

\* An empty list holds nothing.
LEMMA EmptyList ==
  /\ OnceEntry(<<>>) /\ Once(<<>>)
  /\ \A m : ~HasEntry(<<>>, m) /\ ~Has(<<>>, m)
BY DEF OnceEntry, Once, HasEntry, Has

\* Only the call of t has retrieved dispatchers.
LEMMA OnlyCall ==
  ASSUME TypeOK, PlaceInv, NEW t \in Api, \A u \in Api : u # t => ~Requeuing(u)
  PROVE  /\ \A m : InCall(m) <=> Has(call[t].pending, m)
         /\ \A u \in Api : u # t => call[u].pending = <<>>
<1>1. \A u \in Api : u # t => call[u].pending = <<>>
  BY DEF PlaceInv, Calls
<1>2. \A u \in Api : \A m : u # t => ~Has(call[u].pending, m)
  BY <1>1, EmptyList
<1> QED
  BY <1>1, <1>2 DEF InCall

\* The same of the next state.
LEMMA OnlyCallNext ==
  ASSUME TypeOK, PlaceInv, NEW t \in Api, \A u \in Api : u # t => ~Requeuing(u),
         \A u \in Api : u # t => call'[u] = call[u]
  PROVE  /\ \A m : InCall(m)' <=> Has(call'[t].pending, m)
         /\ \A u \in Api : u # t => call'[u].pending = <<>> /\ ~Requeuing(u)'
<1>1. \A u \in Api : u # t => call'[u].pending = <<>> /\ ~Requeuing(u)'
  BY OnlyCall DEF Requeuing
<1>2. \A u \in Api : \A m : u # t => ~Has(call'[u].pending, m)
  BY <1>1, EmptyList
<1>3. ASSUME NEW m PROVE InCall(m)' <=> \E u \in Api : Has(call'[u].pending, m)
  BY DEF InCall, Has
<1> QED
  BY <1>1, <1>2, <1>3

\* PlaceInv holds at first.
LEMMA InitPlaces ==
  ASSUME Init
  PROVE  PlaceInv
<1>1. awoken = <<>> /\ processed = <<>> /\ waiting = {} /\ armed = {} /\ ~failed
  BY DEF Init
<1>2. \A t \in Api : call[t].pending = <<>> /\ call[t].at = "idle"
  BY DEF Init
<1>3. \A m : ~InCall(m) /\ ~Removing(m)
  BY <1>2, EmptyList DEF InCall, Removing
<1>4. ~Closing /\ Calls /\ Excludes
  BY <1>2 DEF Closing, Calls, Requeuing, Excludes
<1>5. Lists
  BY <1>1, <1>2, EmptyList DEF Lists
<1>6. \A m \in Member : Apart(m) /\ Placed(m) /\ Known(m)
  BY <1>1, <1>3, <1>4, EmptyList DEF Apart, Placed, Known
<1> QED
  BY <1>1, <1>4, <1>5, <1>6 DEF PlaceInv

\* A step that leaves the lists and the calls.
LEMMA PlacesSame ==
  ASSUME PlaceInv, UNCHANGED <<failed, awoken, processed, waiting, armed, call>>
  PROVE  PlaceInv'
BY DEF PlaceInv, Lists, Apart, Placed, Known, Calls, OnceEntry, Once, HasEntry, Has,
       InCall, Removing, Closing, Requeuing, Excludes, HalfRemoving

\* A member that changes state, or whose transit is cancelled.
LEMMA PlacesSignal ==
  ASSUME TypeOK, PlaceInv, NEW m \in Member, NEW z \in Signal, Awake(m, z),
         UNCHANGED <<failed, processed, waiting, call>>
  PROVE  PlaceInv'
<1>1. /\ UNCHANGED <<failed, processed, waiting, call>>
      /\ \/ UNCHANGED <<awoken, armed>>
         \/ /\ m \in armed /\ armed' = armed \ {m}
            /\ \E s \in Signal : awoken' = Queued(awoken, m, AwakeResult(s))
  BY DEF Awake
<1>2. CASE UNCHANGED <<awoken, armed>>
  BY <1>1, <1>2, PlacesSame
<1>3. ASSUME m \in armed, armed' = armed \ {m}, NEW s \in Signal,
             awoken' = Queued(awoken, m, AwakeResult(s))
      PROVE  PlaceInv'
  <2>1. PICK e \in Entry : e.d = m /\ awoken' = Append(awoken, e)
    BY <1>3, Results, QueuedIs
  <2>2. OnceEntry(awoken) /\ ~HasEntry(awoken, e.d) /\ awoken \in Seq(Entry)
    BY <1>3, <2>1 DEF PlaceInv, Lists, Apart, TypeOK
  <2>3. OnceEntry(awoken') /\ \A x : HasEntry(awoken', x) <=> HasEntry(awoken, x) \/ x = m
    BY <2>1, <2>2, AppendEntry
  <2>4. /\ \A x : Has(processed', x) <=> Has(processed, x)
        /\ \A x : InCall(x)' <=> InCall(x)
        /\ \A x : Removing(x)' <=> Removing(x)
        /\ Closing' <=> Closing
        /\ Calls' <=> Calls
        /\ Excludes' <=> Excludes
    BY <1>1 DEF InCall, Removing, Closing, Calls, Requeuing, Excludes, HalfRemoving
  <2>5. Lists'
    BY <1>1, <2>3 DEF PlaceInv, Lists, OnceEntry, Once
  <2>6. ASSUME NEW x \in Member PROVE Apart(x)' /\ Placed(x)' /\ Known(x)'
    <3>1. Apart(x) /\ Placed(x) /\ Known(x)
      BY DEF PlaceInv
    <3>2. HasEntry(awoken, x)' <=> HasEntry(awoken, x) \/ x = m
      BY <2>3 DEF HasEntry
    <3>3. Has(processed, x)' <=> Has(processed, x)
      BY <2>4 DEF Has
    <3> QED
      BY <1>1, <1>3, <2>4, <3>1, <3>2, <3>3 DEF Apart, Placed, Known
  <2> QED
    BY <1>1, <2>4, <2>5, <2>6 DEF PlaceInv
<1> QED
  BY <1>1, <1>2, <1>3

\* PlaceInv and what it says of each dispatcher and of the call of t.
LEMMA PlacesOf ==
  ASSUME TypeOK, PlaceInv, NEW t \in Api
  PROVE  /\ ~failed /\ OnceEntry(awoken) /\ Once(processed) /\ Once(call[t].pending)
         /\ awoken \in Seq(Entry) /\ processed \in Seq(Member)
         /\ call[t].pending \in Seq(Member)
         /\ IF Requeuing(t) THEN processed = <<>> ELSE call[t].pending = <<>>
         /\ \A m \in Member : Apart(m) /\ Placed(m) /\ Known(m)
BY CallHas DEF PlaceInv, Lists, Calls, TypeOK

\* PlaceInv of the next state from what the step of t leaves.
LEMMA PlacesFrom ==
  ASSUME TypeOK, PlaceInv, NEW t \in Api, \A u \in Api : u # t => ~Requeuing(u),
         \A u \in Api : u # t => call'[u] = call[u],
         ~failed', OnceEntry(awoken'), Once(processed'), Once(call'[t].pending),
         IF Requeuing(t)' THEN processed' = <<>> ELSE call'[t].pending = <<>>,
         Requeuing(t)' => ~HalfRemoving',
         \A m \in Member : Apart(m)' /\ Placed(m)' /\ Known(m)'
  PROVE  PlaceInv'
<1>1. \A u \in Api : u # t => call'[u].pending = <<>> /\ ~Requeuing(u)'
  BY OnlyCallNext
<1>2. Calls'
  <2>1. \A u \in Api : IF Requeuing(u)' THEN processed' = <<>> ELSE call'[u].pending = <<>>
    BY <1>1
  <2> QED
    BY <2>1 DEF Calls
<1>3. Lists'
  <2>1. \A u \in Api : Once(call'[u].pending)
    BY <1>1, EmptyList
  <2> QED
    BY <2>1 DEF Lists, Once, OnceEntry
<1>4. Excludes'
  <2>1. ASSUME NEW u \in Api, Requeuing(u)' PROVE u = t
    BY <1>1, <2>1
  <2> QED
    BY <2>1 DEF Excludes
<1> QED
  BY <1>2, <1>3, <1>4 DEF PlaceInv

\* A step of a call that neither begins nor ends a removal from the queues.
LEMMA QueuesLeft ==
  ASSUME NEW t \in Api, \A u \in Api : u # t => call'[u] = call[u],
         call[t].at \notin {"removeQueues", "closeQueues"},
         call'[t].at \notin {"removeQueues", "closeQueues"}
  PROVE  (\A x : Removing(x)' <=> Removing(x)) /\ (Closing' <=> Closing)
<1>1. \A x : Removing(x)' <=> \E u \in Api : call'[u].at = "removeQueues" /\ call'[u].d = x
  BY DEF Removing
<1>2. \A u \in Api : \/ call'[u] = call[u]
                     \/ /\ call[u].at \notin {"removeQueues", "closeQueues"}
                        /\ call'[u].at \notin {"removeQueues", "closeQueues"}
  OBVIOUS
<1> QED
  BY <1>1, <1>2 DEF Removing, Closing

\* AddWaitingDispatcher: a dispatcher that is not waited for is in no list.
LEMMA PlacesAdd ==
  ASSUME TypeOK, Locks, PlaceInv, NEW t \in Api, NEW m \in Member,
         AddWaitingDispatcher(t, m), ~outrun'
  PROVE  PlaceInv'
<1>1. /\ call[t].at = "idle" /\ m \notin waiting /\ waiting' = waiting \cup {m}
      /\ Free /\ ~isClosed /\ ~Removing(m)
      /\ UNCHANGED <<processed, failed>>
  BY DEF AddWaitingDispatcher, Addable, HalfRemoved, Removing
<1>7. \A u \in Api : u # t => ~Requeuing(u)
  BY <1>1, Alone
<1>2. ~failed /\ OnceEntry(awoken) /\ Once(processed) /\ Once(call[t].pending)
      /\ awoken \in Seq(Entry) /\ call[t].pending = <<>>
      /\ \A x \in Member : Apart(x) /\ Placed(x) /\ Known(x)
  BY <1>1, PlacesOf DEF Requeuing, PlaceInv
<1>3. \A x : ~InCall(x) /\ ~Closing
  BY <1>1, <1>2, <1>7, OnlyCall, EmptyList DEF Locks, Closing, InClose
<1>4. ~HasEntry(awoken, m) /\ ~Has(processed, m) /\ m \notin armed
  BY <1>1, <1>2, <1>3 DEF Known
<1>5. CASE AddAwakable(m) = "OK"
  <2>1. armed' = armed \cup {m} /\ UNCHANGED <<awoken, call>>
    BY <1>5 DEF AddWaitingDispatcher
  <2>2. \A x : ~InCall(x)' /\ (Removing(x)' <=> Removing(x)) /\ ~Closing'
    BY <2>1, <1>3 DEF InCall, Removing, Closing
  <2>3. ASSUME NEW x \in Member PROVE Apart(x)' /\ Placed(x)' /\ Known(x)'
    <3>1. /\ HasEntry(awoken, x)' <=> HasEntry(awoken, x)
          /\ Has(processed, x)' <=> Has(processed, x)
      BY <1>1, <2>1 DEF HasEntry, Has
    <3> QED
      BY <1>1, <1>2, <1>3, <1>4, <2>1, <2>2, <3>1 DEF Apart, Placed, Known
  <2> QED
    BY <1>1, <1>2, <1>7, <2>1, <2>3, PlacesFrom DEF Requeuing
<1>6. CASE AddAwakable(m) # "OK"
  <2>1. /\ Goto(t, "addWake") /\ armed' = armed
        /\ awoken' = Queued(awoken, m, AddAwakable(m))
        /\ AddAwakable(m) # "INVALID_ARGUMENT"
    BY <1>6 DEF AddWaitingDispatcher
  <2>2. AddAwakable(m) \in {"ALREADY_EXISTS", "FAILED_PRECONDITION"}
    <3>1. "unsat" \in Signal
      BY DEF Signal
    <3> QED
      BY <1>6, <2>1, <3>1, Results
  <2>3. PICK e \in Entry : e.d = m /\ awoken' = Append(awoken, e)
    BY <2>1, <2>2, QueuedIs
  <2>4. OnceEntry(awoken') /\ \A x : HasEntry(awoken', x) <=> HasEntry(awoken, x) \/ x = m
    BY <1>2, <1>4, <2>3, AppendEntry
  <2>5. /\ call'[t].at = "addWake" /\ call'[t].pending = <<>>
        /\ \A u \in Api : u # t => call'[u] = call[u]
    BY <1>2, <2>1, GotoMoves DEF At
  <2>6. \A x : ~InCall(x)' /\ (Removing(x)' <=> Removing(x)) /\ ~Closing'
    BY <1>1, <1>3, <1>7, <2>5, OnlyCallNext, EmptyList, QueuesLeft
  <2>7. ASSUME NEW x \in Member PROVE Apart(x)' /\ Placed(x)' /\ Known(x)'
    <3>1. /\ HasEntry(awoken, x)' <=> HasEntry(awoken, x) \/ x = m
          /\ Has(processed, x)' <=> Has(processed, x)
      BY <1>1, <2>4 DEF HasEntry, Has
    <3> QED
      BY <1>1, <1>2, <1>3, <1>4, <2>1, <2>6, <3>1 DEF Apart, Placed, Known
  <2>8. ~Requeuing(t)' /\ Once(call'[t].pending)
    BY <2>5, EmptyList DEF Requeuing
  <2> QED
    BY <1>1, <1>2, <1>7, <2>4, <2>5, <2>7, <2>8, PlacesFrom
<1> QED
  BY <1>5, <1>6

\* RemoveWaitingDispatcher under lock_: the queues still hold the dispatcher.
LEMMA PlacesRemove ==
  ASSUME TypeOK, Locks, PlaceInv, NEW t \in Api, NEW m \in Member,
         RemoveWaitingDispatcher(t, m)
  PROVE  PlaceInv'
<1>8. \A u \in Api : u # t => ~Requeuing(u)
  BY Alone DEF RemoveWaitingDispatcher
<1>1. /\ call[t].at = "idle" /\ armed' = armed \ {m} /\ waiting' = waiting \ {m}
      /\ call' = [call EXCEPT ![t].at = "removeQueues", ![t].d = m]
      /\ UNCHANGED <<awoken, processed, failed>>
  BY DEF RemoveWaitingDispatcher
<1>2. /\ ~failed /\ OnceEntry(awoken) /\ Once(processed) /\ call[t].pending = <<>>
      /\ \A x \in Member : Apart(x) /\ Placed(x) /\ Known(x)
  BY <1>1, PlacesOf DEF Requeuing
<1>3. \A x : ~InCall(x)
  BY <1>1, <1>2, <1>8, OnlyCall, EmptyList
<1>4. /\ call'[t].at = "removeQueues" /\ call'[t].d = m
      /\ call'[t].pending = call[t].pending
      /\ \A u \in Api : u # t => call'[u] = call[u]
  <2>1. call \in [Api -> Call] /\ call[t] \in Call
    BY DEF TypeOK
  <2> QED
    BY <1>1, <2>1 DEF Call
<1>5. /\ \A x : ~InCall(x)' /\ (Removing(x)' <=> Removing(x) \/ x = m)
      /\ Closing' <=> Closing
  <2>1. \A x : ~InCall(x)'
    BY <1>2, <1>4, <1>8, OnlyCallNext, EmptyList
  <2>2. \A x : Removing(x)' <=> \E u \in Api : call'[u].at = "removeQueues" /\ call'[u].d = x
    BY DEF Removing
  <2>3. Closing' <=> Closing
    BY <1>1, <1>4 DEF Closing
  <2>4. ASSUME NEW x PROVE Removing(x)' <=> Removing(x) \/ x = m
    BY <1>1, <1>4, <2>2 DEF Removing
  <2> QED
    BY <2>1, <2>3, <2>4
<1>6. ASSUME NEW x \in Member PROVE Apart(x)' /\ Placed(x)' /\ Known(x)'
  <2>1. /\ HasEntry(awoken, x)' <=> HasEntry(awoken, x)
        /\ Has(processed, x)' <=> Has(processed, x)
    BY <1>1 DEF HasEntry, Has
  <2> QED
    BY <1>1, <1>2, <1>3, <1>5, <2>1 DEF Apart, Placed, Known
<1>7. ~Requeuing(t)' /\ Once(call'[t].pending) /\ call'[t].pending = <<>>
  BY <1>2, <1>4, EmptyList DEF Requeuing
<1> QED
  BY <1>1, <1>2, <1>4, <1>6, <1>7, <1>8, PlacesFrom

\* RemoveWaitingDispatcher under awoken_lock_: they do not any more.
LEMMA PlacesUnqueue ==
  ASSUME TypeOK, PlaceInv, NEW t \in Api, RemoveFromQueues(t)
  PROVE  PlaceInv'
<1> DEFINE m == call[t].d
           keepA == {i \in DOMAIN awoken : awoken[i].d # m}
           keepP == {i \in DOMAIN processed : processed[i] # m}
<1>1. /\ call[t].at = "removeQueues" /\ Goto(t, "idle") /\ UNCHANGED <<waiting, armed>>
      /\ awoken' = EntriesAt(awoken, keepA) /\ processed' = EntriesAt(processed, keepP)
      /\ failed' = (failed \/ Cardinality({i \in DOMAIN awoken : awoken[i].d = m}) > 1)
  BY DEF RemoveFromQueues, Unqueued
<1>2. /\ ~failed /\ OnceEntry(awoken) /\ Once(processed) /\ call[t].pending = <<>>
      /\ awoken \in Seq(Entry) /\ processed \in Seq(Member)
      /\ \A x \in Member : Apart(x) /\ Placed(x) /\ Known(x)
  BY <1>1, PlacesOf DEF Requeuing
<1>11. \A u \in Api : ~Requeuing(u)
  BY <1>1 DEF PlaceInv, Excludes, HalfRemoving
<1>3. \A x : ~InCall(x) /\ (x = m => Removing(x))
  BY <1>1, <1>2, <1>11, OnlyCall, EmptyList DEF Removing
<1>4. /\ call'[t].at = "idle" /\ call'[t].pending = <<>>
      /\ \A u \in Api : u # t => call'[u] = call[u]
  BY <1>1, <1>2, GotoMoves DEF At
<1>5. /\ \A x : /\ ~InCall(x)' /\ (Removing(x)' => Removing(x))
                /\ Removing(x) /\ x # m => Removing(x)'
      /\ Closing' <=> Closing
  <2>1. \A x : ~InCall(x)'
    BY <1>2, <1>4, <1>11, OnlyCallNext, EmptyList
  <2>2. \A x : Removing(x)' <=> \E u \in Api : call'[u].at = "removeQueues" /\ call'[u].d = x
    BY DEF Removing
  <2> HIDE DEF keepA, keepP
  <2> QED
    BY <1>1, <1>4, <2>1, <2>2 DEF Removing, Closing
<1>6. /\ OnceEntry(awoken')
      /\ \A x : HasEntry(awoken', x) <=> HasEntry(awoken, x) /\ x # m
  <2>1. \A x : (\E i \in keepA : awoken[i].d = x) <=> HasEntry(awoken, x) /\ x # m
    BY DEF HasEntry
  <2>2. keepA \in SUBSET DOMAIN awoken
    OBVIOUS
  <2> HIDE DEF keepA
  <2> QED
    BY <1>1, <1>2, <2>1, <2>2, PickEntry
<1>7. /\ Once(processed')
      /\ \A x : Has(processed', x) <=> Has(processed, x) /\ x # m
  <2>1. \A x : (\E i \in keepP : processed[i] = x) <=> Has(processed, x) /\ x # m
    BY DEF Has
  <2>2. keepP \in SUBSET DOMAIN processed
    OBVIOUS
  <2> HIDE DEF keepP
  <2> QED
    BY <1>1, <1>2, <2>1, <2>2, PickMember
<1>8. ~failed'
  <2> DEFINE S == {i \in DOMAIN awoken : awoken[i].d = m}
  <2>1. \A i, j \in S : i = j
    BY <1>2 DEF OnceEntry
  <2>2. S = {} \/ \E i : S = {i}
    <3> HIDE DEF S
    <3> QED
      BY <2>1
  <2>3. Cardinality(S) \in {0, 1}
    BY <2>2, FS_EmptySet, FS_Singleton
  <2> HIDE DEF S
  <2>4. ~(Cardinality(S) > 1)
    BY <2>3
  <2> QED
    BY <1>1, <1>2, <2>4 DEF S
<1> HIDE DEF m, keepA, keepP
<1>9. ASSUME NEW x \in Member PROVE Apart(x)' /\ Placed(x)' /\ Known(x)'
  <2>1. /\ HasEntry(awoken, x)' <=> HasEntry(awoken, x) /\ x # m
        /\ Has(processed, x)' <=> Has(processed, x) /\ x # m
    BY <1>6, <1>7 DEF HasEntry, Has
  <2>2. Apart(x) /\ Placed(x) /\ Known(x)
    BY <1>2
  <2>3. Apart(x)'
    BY <1>1, <1>5, <2>1, <2>2 DEF Apart
  <2>4. Placed(x)'
    BY <1>1, <1>3, <2>1, <2>2 DEF Placed, Known
  <2>5. Known(x)'
    BY <1>1, <1>5, <2>1, <2>2 DEF Known
  <2> QED
    BY <2>3, <2>4, <2>5
<1>10. ~Requeuing(t)' /\ Once(call'[t].pending)
  BY <1>4, EmptyList DEF Requeuing
<1> QED
  BY <1>4, <1>6, <1>7, <1>8, <1>9, <1>10, <1>11, PlacesFrom

\* GetReadyDispatchers takes over what was retrieved before.
LEMMA PlacesReady ==
  ASSUME TypeOK, Locks, PlaceInv, NEW t \in Api, NEW max \in Counts,
         GetReadyDispatchers(t, max), ~outrun'
  PROVE  PlaceInv'
<1>8. (\A u \in Api : u # t => ~Requeuing(u)) /\ ~HalfRemoving
  BY Alone DEF GetReadyDispatchers
<1>1. /\ call[t].at = "idle" /\ processed' = <<>>
      /\ call' = [call EXCEPT ![t].at = "requeue", ![t].pending = processed,
                              ![t].max = max]
      /\ UNCHANGED <<waiting, armed, awoken, failed>>
  BY DEF GetReadyDispatchers
<1>2. /\ ~failed /\ OnceEntry(awoken) /\ Once(processed) /\ call[t].pending = <<>>
      /\ \A x \in Member : Apart(x) /\ Placed(x) /\ Known(x)
  BY <1>1, PlacesOf DEF Requeuing
<1>3. \A x : ~InCall(x) /\ ~Removing(x) /\ ~Closing
  BY <1>1, <1>2, <1>8, OnlyCall, EmptyList DEF HalfRemoving, Removing, Closing
<1>4. /\ call'[t].at = "requeue" /\ call'[t].pending = processed
      /\ \A u \in Api : u # t => call'[u] = call[u]
  <2>1. call \in [Api -> Call] /\ call[t] \in Call
    BY DEF TypeOK
  <2> QED
    BY <1>1, <2>1 DEF Call
<1>9. ~HalfRemoving'
  BY <1>4, <1>8 DEF HalfRemoving
<1>5. \A x : ~Removing(x)' /\ ~Closing' /\ (InCall(x)' <=> Has(processed, x))
  BY <1>4, <1>8, <1>9, OnlyCallNext DEF HalfRemoving, Removing, Closing
<1>6. ASSUME NEW x \in Member PROVE Apart(x)' /\ Placed(x)' /\ Known(x)'
  <2>1. HasEntry(awoken, x)' <=> HasEntry(awoken, x)
    BY <1>1 DEF HasEntry
  <2>2. ~Has(processed, x)'
    BY <1>1 DEF Has
  <2> QED
    BY <1>1, <1>2, <1>3, <1>5, <2>1, <2>2 DEF Apart, Placed, Known
<1>7. Requeuing(t)' /\ Once(processed')
  BY <1>1, <1>4, EmptyList DEF Requeuing
<1> QED
  BY <1>1, <1>2, <1>4, <1>6, <1>7, <1>8, <1>9, PlacesFrom

\* A round of the loop of GetReadyDispatchers: the dispatcher is waited for again,
\* queued again, or gone.
LEMMA PlacesRequeue ==
  ASSUME TypeOK, Locks, PlaceInv, NEW t \in Api, Requeue(t)
  PROVE  PlaceInv'
<1>14. \A u \in Api : u # t => ~Requeuing(u)
  BY Alone DEF Requeue, Holding
<1>15. ~HalfRemoving
  BY DEF PlaceInv, Excludes, Requeue, Requeuing
<1> DEFINE m == Head(call[t].pending)
           rest == Tail(call[t].pending)
           result == AddAwakable(m)
           quiet == result \in {"OK", "INVALID_ARGUMENT"}
           at == IF quiet THEN "requeue" ELSE "requeueWake"
<1>1. /\ call[t].at = "requeue" /\ call[t].pending # <<>> /\ failed' = (failed \/ m \notin waiting)
      /\ call' = [call EXCEPT ![t].pending = rest, ![t].at = at]
      /\ armed' = IF result = "OK" THEN armed \cup {m} ELSE armed
      /\ waiting' = IF result = "INVALID_ARGUMENT" THEN waiting \ {m} ELSE waiting
      /\ awoken' = IF quiet THEN awoken ELSE Queued(awoken, m, result)
      /\ processed' = processed
  BY DEF Requeue, RequeueResult, Kept
<1>2. /\ ~failed /\ OnceEntry(awoken) /\ Once(processed) /\ Once(call[t].pending)
      /\ awoken \in Seq(Entry) /\ call[t].pending \in Seq(Member) /\ processed = <<>>
      /\ \A x \in Member : Apart(x) /\ Placed(x) /\ Known(x)
  BY <1>1, PlacesOf DEF Requeuing
<1>3. /\ m \in Member /\ Once(rest) /\ ~Has(rest, m)
      /\ \A x : Has(call[t].pending, x) <=> x = m \/ Has(rest, x)
  BY <1>1, <1>2, TailMember
<1>4. result \in {"INVALID_ARGUMENT", "ALREADY_EXISTS", "FAILED_PRECONDITION", "OK"}
  <2>1. "unsat" \in Signal
    BY DEF Signal
  <2> QED
    BY <1>3, <2>1, Results
<1> HIDE DEF m, rest, result
<1>5. \A x : /\ InCall(x) <=> x = m \/ Has(rest, x)
             /\ ~Removing(x) /\ ~Closing
  BY <1>1, <1>3, <1>14, <1>15, OnlyCall DEF HalfRemoving, Removing, Closing
<1>6. /\ call'[t].at = at /\ call'[t].pending = rest
      /\ \A u \in Api : u # t => call'[u] = call[u]
  <2>1. call \in [Api -> Call] /\ call[t] \in Call
    BY DEF TypeOK
  <2> QED
    BY <1>1, <2>1 DEF Call
<1>7. at \in {"requeue", "requeueWake"}
  OBVIOUS
<1> HIDE DEF at
<1>16. ~HalfRemoving'
  BY <1>6, <1>7, <1>15 DEF HalfRemoving
<1>8. \A x : /\ InCall(x)' <=> Has(rest, x)
             /\ ~Removing(x)' /\ ~Closing'
  BY <1>6, <1>7, <1>14, <1>16, OnlyCallNext DEF HalfRemoving, Removing, Closing
<1>9. m \in waiting /\ ~HasEntry(awoken, m) /\ ~Has(processed, m) /\ m \notin armed
  BY <1>2, <1>3, <1>5 DEF Known, Apart
<1>10. /\ OnceEntry(awoken')
       /\ \A x : HasEntry(awoken', x) <=> HasEntry(awoken, x) \/ (x = m /\ ~quiet)
  <2>1. CASE quiet
    BY <1>1, <1>2, <2>1
  <2>2. CASE ~quiet
    <3>1. result \in {"ALREADY_EXISTS", "FAILED_PRECONDITION"}
      BY <1>4, <2>2
    <3>2. PICK e \in Entry : e.d = m /\ awoken' = Append(awoken, e)
      BY <1>1, <1>3, <2>2, <3>1, QueuedIs
    <3> QED
      BY <1>2, <1>9, <2>2, <3>2, AppendEntry
  <2> QED
    BY <2>1, <2>2
<1>11. ASSUME NEW x \in Member PROVE Apart(x)' /\ Placed(x)' /\ Known(x)'
  <2>1. HasEntry(awoken, x)' <=> HasEntry(awoken, x) \/ (x = m /\ ~quiet)
    BY <1>10 DEF HasEntry
  <2>2. ~Has(processed, x)' /\ ~Has(processed, x)
    BY <1>1, <1>2 DEF Has
  <2>3. Apart(x) /\ Placed(x) /\ Known(x)
    BY <1>2
  <2>4. CASE x # m
    BY <1>1, <1>5, <1>8, <2>1, <2>2, <2>3, <2>4 DEF Apart, Placed, Known
  <2>5. CASE x = m
    <3>1. ~InCall(x)'
      BY <1>3, <1>8, <2>5
    <3> QED
      BY <1>1, <1>8, <1>9, <2>1, <2>2, <2>5, <3>1 DEF Apart, Placed, Known
  <2> QED
    BY <2>4, <2>5
<1>12. Requeuing(t)' /\ ~failed' /\ processed' = <<>>
  BY <1>1, <1>2, <1>6, <1>7, <1>9 DEF Requeuing
<1>13. Once(processed') /\ Once(call'[t].pending)
  BY <1>3, <1>6, <1>12, EmptyList
<1> QED
  BY <1>6, <1>10, <1>11, <1>12, <1>13, <1>14, <1>16, PlacesFrom

\* The dispatchers of the entries that are kept, in their order.
LEMMA DispatchersOf ==
  ASSUME NEW q \in Seq(Entry), OnceEntry(q), NEW ds, ds = <<>> \o [i \in DOMAIN q |-> q[i].d]
  PROVE  Once(ds) /\ \A x : Has(ds, x) <=> HasEntry(q, x)
<1> DEFINE f == [i \in DOMAIN q |-> q[i].d]
<1>1. f \in Seq(Member)
  <2>1. \A i \in DOMAIN q : q[i].d \in Member
    BY EntryOf
  <2>2. DOMAIN q = 1..Len(q) /\ Len(q) \in Nat
    OBVIOUS
  <2> QED
    BY <2>1, <2>2
<1>2. DOMAIN f = DOMAIN q /\ \A i \in DOMAIN q : f[i] = q[i].d
  OBVIOUS
<1> HIDE DEF f
<1>3. ds = f
  BY <1>1 DEF f
<1> QED
  BY <1>2, <1>3 DEF Once, Has, OnceEntry, HasEntry

\* The end of GetReadyDispatchers: the entries that are returned move on, or go.
LEMMA PlacesRetrieve ==
  ASSUME TypeOK, Locks, PlaceInv, NEW t \in Api, Retrieve(t)
  PROVE  PlaceInv'
<1>14. \A u \in Api : u # t => ~Requeuing(u)
  BY Alone DEF Retrieve, Holding
<1>15. ~HalfRemoving
  BY DEF PlaceInv, Excludes, Retrieve, Requeuing
<1> DEFINE n == IF Len(awoken) < call[t].max THEN Len(awoken) ELSE call[t].max
           taken == SubSeq(awoken, 1, n)
           rest == SubSeq(awoken, n + 1, Len(awoken))
           keep == {i \in DOMAIN taken : taken[i].result # "CANCELLED"}
           open == EntriesAt(taken, keep)
<1>1. /\ call[t].at = "requeue" /\ call[t].pending = <<>> /\ Goto(t, "idle")
      /\ failed' = (failed \/ ~(Members(taken) \subseteq waiting))
      /\ awoken' = rest /\ armed' = armed
      /\ processed' = processed \o [i \in DOMAIN open |-> open[i].d]
      /\ waiting' = waiting \ (Members(taken) \ Members(open))
  BY DEF Retrieve, Retrieved
<1>2. /\ ~failed /\ OnceEntry(awoken) /\ awoken \in Seq(Entry) /\ processed = <<>>
      /\ \A x \in Member : Apart(x) /\ Placed(x) /\ Known(x)
  BY <1>1, PlacesOf DEF Requeuing
<1>3. n \in 0..Len(awoken)
  BY TakenLen
<1> HIDE DEF n
<1>4. /\ taken \in Seq(Entry) /\ OnceEntry(taken) /\ OnceEntry(rest)
      /\ \A x : HasEntry(awoken, x) <=> HasEntry(taken, x) \/ HasEntry(rest, x)
      /\ \A x : ~(HasEntry(taken, x) /\ HasEntry(rest, x))
  <2>1. taken = SubSeq(awoken, 1, n) /\ rest = SubSeq(awoken, n + 1, Len(awoken))
    OBVIOUS
  <2> HIDE DEF taken, rest
  <2>2. awoken \in Seq(Entry) /\ OnceEntry(awoken)
    BY <1>2
  <2> QED
    BY <1>3, <2>1, <2>2, SplitAt
<1> HIDE DEF taken, rest
<1>5. /\ open \in Seq(Entry) /\ OnceEntry(open)
      /\ \A x : HasEntry(open, x) => HasEntry(taken, x)
  <2>1. keep \in SUBSET DOMAIN taken
    OBVIOUS
  <2> HIDE DEF keep
  <2>2. /\ open \in Seq(Entry) /\ OnceEntry(open)
        /\ \A x : HasEntry(open, x) <=> \E i \in keep : taken[i].d = x
    BY <1>4, <2>1, PickEntry
  <2> QED
    BY <2>1, <2>2 DEF HasEntry
<1> HIDE DEF open
<1>6. Once(processed') /\ \A x : Has(processed', x) <=> HasEntry(open, x)
  BY <1>1, <1>2, <1>5, DispatchersOf
<1>7. \A x : /\ x \in Members(taken) <=> HasEntry(taken, x)
             /\ x \in Members(open) <=> HasEntry(open, x)
  BY DEF Members, HasEntry
<1>8. \A x : ~InCall(x) /\ ~Removing(x) /\ ~Closing
  BY <1>1, <1>14, <1>15, OnlyCall, EmptyList DEF HalfRemoving, Removing, Closing
<1>9. /\ call'[t].at = "idle" /\ call'[t].pending = <<>>
      /\ \A u \in Api : u # t => call'[u] = call[u]
  BY <1>1, GotoMoves DEF At
<1>16. ~HalfRemoving'
  BY <1>9, <1>15 DEF HalfRemoving
<1>10. \A x : ~InCall(x)' /\ ~Removing(x)' /\ ~Closing'
  BY <1>9, <1>14, <1>16, OnlyCallNext, EmptyList DEF HalfRemoving, Removing, Closing
<1>11. ~failed'
  <2>1. \A x \in Members(taken) : x \in Member
    BY <1>4, EntryOf DEF Members
  <2>2. \A x \in Members(taken) : x \in waiting
    BY <1>2, <1>4, <1>7, <1>8, <2>1 DEF Known
  <2> QED
    BY <1>1, <1>2, <2>2
<1>12. ASSUME NEW x \in Member PROVE Apart(x)' /\ Placed(x)' /\ Known(x)'
  <2>1. (HasEntry(awoken, x)' <=> HasEntry(rest, x)) /\ (Has(processed, x)' <=> HasEntry(open, x))
    BY <1>1, <1>6 DEF HasEntry, Has
  <2>2. x \in waiting' <=> x \in waiting /\ (HasEntry(taken, x) => HasEntry(open, x))
    BY <1>1, <1>7
  <2>3. ~Has(processed, x)
    BY <1>2, EmptyList
  <2>4. Apart(x) /\ Placed(x) /\ Known(x)
    BY <1>2
  <2> QED
    BY <1>1, <1>4, <1>5, <1>8, <1>10, <2>1, <2>2, <2>3, <2>4 DEF Apart, Placed, Known
<1>13. ~Requeuing(t)' /\ Once(call'[t].pending)
  BY <1>9, EmptyList DEF Requeuing
<1> QED
  BY <1>1, <1>4, <1>6, <1>9, <1>11, <1>12, <1>13, <1>14, PlacesFrom

\* A step that only moves a call on.
LEMMA PlacesMove ==
  ASSUME TypeOK, PlaceInv, NEW t \in Api, NEW at \in At, Goto(t, at),
         call[t].at \notin {"removeQueues", "closeQueues"},
         at \notin {"removeQueues", "closeQueues"},
         Requeuing(t) <=> at \in {"requeue", "requeueWake"},
         UNCHANGED <<failed, awoken, processed, waiting, armed>>
  PROVE  PlaceInv'
<1>1. /\ call'[t].at = at /\ call'[t].pending = call[t].pending
      /\ \A u \in Api : u # t => call'[u] = call[u]
  BY GotoMoves
<1>2. \A u \in Api : /\ call'[u].pending = call[u].pending
                     /\ Requeuing(u)' <=> Requeuing(u)
                     /\ call'[u].at = "removeQueues" <=> call[u].at = "removeQueues"
                     /\ call'[u].at = "closeQueues" <=> call[u].at = "closeQueues"
                     /\ call[u].at = "removeQueues" => call'[u].d = call[u].d
  <2> SUFFICES ASSUME NEW u \in Api
               PROVE  /\ call'[u].pending = call[u].pending
                      /\ Requeuing(u)' <=> Requeuing(u)
                      /\ call'[u].at = "removeQueues" <=> call[u].at = "removeQueues"
                      /\ call'[u].at = "closeQueues" <=> call[u].at = "closeQueues"
                      /\ call[u].at = "removeQueues" => call'[u].d = call[u].d
    OBVIOUS
  <2>1. CASE u = t
    BY <1>1, <2>1 DEF Requeuing
  <2>2. CASE u # t
    BY <1>1, <2>2 DEF Requeuing
  <2> QED
    BY <2>1, <2>2
<1>3. /\ \A x : (InCall(x)' <=> InCall(x)) /\ (Removing(x)' <=> Removing(x))
      /\ Closing' <=> Closing
  <2>1. \A x : /\ InCall(x)' <=> \E u \in Api : Has(call'[u].pending, x)
               /\ Removing(x)' <=> \E u \in Api : call'[u].at = "removeQueues" /\ call'[u].d = x
    BY DEF InCall, Has, Removing
  <2>2. \A x : InCall(x)' <=> InCall(x)
    BY <1>2, <2>1 DEF InCall
  <2>3. \A x : Removing(x)' <=> Removing(x)
    BY <1>2, <2>1 DEF Removing
  <2>4. Closing' <=> Closing
    BY <1>2 DEF Closing
  <2> QED
    BY <2>2, <2>3, <2>4
<1>4. ASSUME NEW x \in Member PROVE Apart(x)' /\ Placed(x)' /\ Known(x)'
  <2>1. /\ HasEntry(awoken, x)' <=> HasEntry(awoken, x)
        /\ Has(processed, x)' <=> Has(processed, x)
    BY DEF HasEntry, Has
  <2>2. Apart(x) /\ Placed(x) /\ Known(x)
    BY DEF PlaceInv
  <2> QED
    BY <1>3, <2>1, <2>2 DEF Apart, Placed, Known
<1>5. Lists' /\ Calls' /\ Excludes'
  <2>1. Lists'
    <3>1. \A u \in Api : Once(call'[u].pending)
      BY <1>2 DEF PlaceInv, Lists
    <3> QED
      BY <3>1 DEF PlaceInv, Lists, Once, OnceEntry
  <2>2. Calls'
    <3>1. \A u \in Api : IF Requeuing(u)' THEN processed' = <<>> ELSE call'[u].pending = <<>>
      BY <1>2 DEF PlaceInv, Calls
    <3> QED
      BY <3>1 DEF Calls
  <2>3. HalfRemoving' => HalfRemoving
    BY <1>2 DEF HalfRemoving
  <2>4. Excludes'
    BY <1>2, <2>3 DEF PlaceInv, Excludes
  <2> QED
    BY <2>1, <2>2, <2>4
<1> QED
  BY <1>4, <1>5 DEF PlaceInv

\* Close lets the members go, then empties the queues.
LEMMA PlacesClose ==
  ASSUME TypeOK, Locks, PlaceInv, NEW t \in Api, CloseMembers(t) \/ CloseQueues(t)
  PROVE  PlaceInv'
<1>1. call[t].at \in {"closeMembers", "closeQueues"} /\ failed' = failed
  BY DEF CloseMembers, CloseQueues
<1>2. /\ ~failed /\ OnceEntry(awoken) /\ Once(processed) /\ call[t].pending = <<>>
      /\ \A x \in Member : Apart(x) /\ Placed(x) /\ Known(x)
  BY <1>1, PlacesOf DEF Requeuing
<1>6. \A u \in Api : u # t => ~Requeuing(u)
  <2>1. CASE CloseMembers(t)
    BY <2>1, Alone DEF CloseMembers
  <2>2. CASE CloseQueues(t)
    BY <2>2 DEF CloseQueues, PlaceInv, Excludes, HalfRemoving
  <2> QED
    BY <2>1, <2>2
<1>3. \A x : ~InCall(x)
  BY <1>1, <1>2, <1>6, OnlyCall, EmptyList
<1>4. CASE CloseMembers(t)
  <2>1. /\ Goto(t, "closeQueues") /\ armed' = armed \ waiting /\ waiting' = {}
        /\ UNCHANGED <<awoken, processed>>
    BY <1>4 DEF CloseMembers, Disarmed
  <2>2. /\ call'[t].at = "closeQueues" /\ call'[t].pending = <<>>
        /\ \A u \in Api : u # t => call'[u] = call[u]
    BY <1>2, <2>1, GotoMoves DEF At
  <2>3. \A x : ~InCall(x)' /\ Closing'
    BY <1>6, <2>2, OnlyCallNext, EmptyList DEF Closing
  <2>4. ASSUME NEW x \in Member PROVE Apart(x)' /\ Placed(x)' /\ Known(x)'
    <3>1. /\ HasEntry(awoken, x)' <=> HasEntry(awoken, x)
          /\ Has(processed, x)' <=> Has(processed, x)
      BY <2>1 DEF HasEntry, Has
    <3>2. Apart(x) /\ Known(x)
      BY <1>2
    <3> QED
      BY <1>3, <2>1, <2>3, <3>1, <3>2 DEF Apart, Placed, Known
  <2>5. ~Requeuing(t)' /\ Once(call'[t].pending)
    BY <2>2, EmptyList DEF Requeuing
  <2> QED
    BY <1>1, <1>2, <1>6, <2>1, <2>2, <2>4, <2>5, PlacesFrom
<1>5. CASE CloseQueues(t)
  <2>1. /\ Goto(t, "idle") /\ awoken' = <<>> /\ processed' = <<>>
        /\ call[t].at = "closeQueues" /\ UNCHANGED <<waiting, armed>>
    BY <1>5 DEF CloseQueues
  <2>2. /\ call'[t].at = "idle" /\ call'[t].pending = <<>>
        /\ \A u \in Api : u # t => call'[u] = call[u]
    BY <1>2, <2>1, GotoMoves DEF At
  <2>3. \A x : ~InCall(x)'
    BY <1>6, <2>2, OnlyCallNext, EmptyList
  <2>6. waiting' = {}
    BY <2>1 DEF Locks, Closing
  <2>4. ASSUME NEW x \in Member PROVE Apart(x)' /\ Placed(x)' /\ Known(x)'
    <3>1. ~HasEntry(awoken, x)' /\ ~Has(processed, x)'
      BY <2>1 DEF HasEntry, Has
    <3>2. Known(x) /\ Closing
      BY <1>2, <2>1 DEF Closing
    <3> QED
      BY <1>3, <2>1, <2>3, <2>6, <3>1, <3>2 DEF Apart, Placed, Known
  <2>5. ~Requeuing(t)' /\ Once(call'[t].pending) /\ OnceEntry(awoken') /\ Once(processed')
    BY <2>1, <2>2, EmptyList DEF Requeuing
  <2> QED
    BY <1>1, <1>2, <1>6, <2>2, <2>4, <2>5, PlacesFrom
<1> QED
  BY <1>4, <1>5

\* PlaceInv is kept by every step that does not meet what is half removed.
LEMMA PlaceStep ==
  ASSUME TypeOK, Locks, PlaceInv, ~outrun', [Next]_vars
  PROVE  PlaceInv'
<1>1. ASSUME NEW m \in Member,
             \/ SignalsChange(m) \/ BeginTransit(m) \/ CancelTransit(m)
             \/ SignalsChanged(m)
      PROVE  PlaceInv'
  <2>1. CASE SignalsChange(m)
    <3>1. PICK s \in Signal : Awake(m, s)
      BY <2>1 DEF SignalsChange
    <3> QED
      BY <2>1, <3>1, PlacesSignal DEF SignalsChange
  <2>2. CASE SignalsChanged(m)
    BY <2>2, PlacesSame DEF SignalsChanged
  <2>3. CASE BeginTransit(m)
    BY <2>3, PlacesSame DEF BeginTransit
  <2>4. CASE CancelTransit(m)
    <3>1. state[m] \in Signal /\ Awake(m, state[m])
      BY <2>4 DEF CancelTransit, TypeOK
    <3> QED
      BY <2>4, <3>1, PlacesSignal DEF CancelTransit
  <2> QED
    BY <1>1, <2>1, <2>2, <2>3, <2>4
<1>2. ASSUME NEW t \in Api, Close(t) PROVE PlaceInv'
  <2>1. /\ Goto(t, "closeCancel") /\ call[t].at = "idle"
        /\ UNCHANGED <<failed, awoken, processed, waiting, armed>>
    BY <1>2 DEF Close
  <2> QED
    BY <2>1, PlacesMove DEF At, Requeuing
<1>3. ASSUME NEW t \in Api, AddWaitingDispatcherWakes(t) PROVE PlaceInv'
  <2>1. /\ Goto(t, "idle") /\ call[t].at = "addWake"
        /\ UNCHANGED <<failed, awoken, processed, waiting, armed>>
    BY <1>3 DEF AddWaitingDispatcherWakes
  <2> QED
    BY <2>1, PlacesMove DEF At, Requeuing
<1>4. ASSUME NEW t \in Api, RequeueWakes(t) PROVE PlaceInv'
  <2>1. /\ Goto(t, "requeue") /\ call[t].at = "requeueWake"
        /\ UNCHANGED <<failed, awoken, processed, waiting, armed>>
    BY <1>4 DEF RequeueWakes
  <2> QED
    BY <2>1, PlacesMove DEF At, Requeuing
<1>5. ASSUME NEW t \in Api, CloseCancels(t) PROVE PlaceInv'
  <2>1. /\ Goto(t, "closeMembers") /\ call[t].at = "closeCancel"
        /\ UNCHANGED <<failed, awoken, processed, waiting, armed>>
    BY <1>5 DEF CloseCancels
  <2> QED
    BY <2>1, PlacesMove DEF At, Requeuing
<1>6. CASE WaitFinds \/ WaitLooks \/ WaitListed \/ WaitOver
  BY <1>6, PlacesSame DEF WaitFinds, WaitLooks, WaitListed, WaitOver
<1>7. CASE UNCHANGED vars
  BY <1>7, PlacesSame DEF vars
<1>8. ASSUME NEW t \in Api, Continue(t) PROVE PlaceInv'
  BY <1>3, <1>4, <1>5, <1>8, PlacesUnqueue, PlacesRequeue, PlacesRetrieve, PlacesClose
  DEF Continue
<1>9. ASSUME NEW t \in Api, NEW m \in Member,
             AddWaitingDispatcher(t, m) \/ RemoveWaitingDispatcher(t, m)
      PROVE  PlaceInv'
  BY <1>9, PlacesAdd, PlacesRemove
<1>10. ASSUME NEW t \in Api, NEW max \in Counts, GetReadyDispatchers(t, max)
       PROVE  PlaceInv'
  BY <1>10, PlacesReady
<1> QED
  BY <1>1, <1>2, <1>6, <1>7, <1>8, <1>9, <1>10 DEF Next

-----------------------------------------------------------------------------
(* What lock_ excludes.                                                    *)

\* A step of t that takes lock_ when it is free, keeps it or gives it back.
LEMMA LocksFrom ==
  ASSUME Locks, NEW t \in Api, \A u \in Api : u # t => call'[u] = call[u],
         holder' = IF call'[t].at \in Holding THEN {t} ELSE holder \ {t},
         call'[t].at \in Holding => Free \/ t \in holder,
         isClosed => isClosed',
         call'[t].at \in InClose =>
           isClosed' /\ (call[t].at \in InClose \/ ~isClosed),
         call'[t].at = "closeQueues" => waiting' = {},
         isClosed => waiting' \subseteq waiting
  PROVE  Locks'
<1>1. \A u \in Api : u \in holder' <=> call'[u].at \in Holding
  BY DEF Locks, Free
<1>2. \A u, v \in holder' : u = v
  BY DEF Locks
<1>3. \A u \in Api : call'[u].at \in InClose => isClosed'
  BY DEF Locks
<1>4. ASSUME NEW u \in Api, NEW v \in Api, call'[u].at \in InClose, call'[v].at \in InClose
      PROVE  u = v
  BY <1>4 DEF Locks
<1>5. Closing' => waiting' = {}
  <2> SUFFICES ASSUME NEW u \in Api, call'[u].at = "closeQueues", u # t
               PROVE  waiting' = {}
    BY DEF Closing
  <2>1. Closing /\ isClosed
    BY DEF Closing, Locks, InClose
  <2> QED
    BY <2>1 DEF Locks
<1> QED
  BY <1>1, <1>2, <1>3, <1>4, <1>5 DEF Locks

\* A step that leaves the calls, lock_ and the members of the wait set.
LEMMA LocksSame ==
  ASSUME Locks, UNCHANGED <<call, holder, isClosed, waiting>>
  PROVE  Locks'
BY DEF Locks, Closing

\* Locks is kept by every step.
LEMMA LocksStep ==
  ASSUME TypeOK, Locks, [Next]_vars
  PROVE  Locks'
<1>1. ASSUME NEW m \in Member,
             \/ SignalsChange(m) \/ BeginTransit(m) \/ CancelTransit(m)
             \/ SignalsChanged(m)
      PROVE  Locks'
  BY <1>1, LocksSame DEF SignalsChange, BeginTransit, CancelTransit, SignalsChanged
<1>2. ASSUME NEW t \in Api, NEW m \in Member, AddWaitingDispatcher(t, m) PROVE Locks'
  <2>1. call[t].at = "idle" /\ Free /\ ~isClosed /\ isClosed' = isClosed
    BY <1>2 DEF AddWaitingDispatcher, Addable
  <2>2. CASE AddAwakable(m) = "OK"
    <3>1. UNCHANGED <<call, holder>>
      BY <1>2, <2>2 DEF AddWaitingDispatcher
    <3>2. t \notin holder /\ call'[t].at = "idle"
      BY <2>1, <3>1 DEF Free
    <3> QED
      BY <2>1, <3>1, <3>2, LocksFrom DEF Holding, InClose
  <2>3. CASE AddAwakable(m) # "OK"
    <3>1. Goto(t, "addWake") /\ holder' = {t}
      BY <1>2, <2>3 DEF AddWaitingDispatcher
    <3>2. call'[t].at = "addWake" /\ \A u \in Api : u # t => call'[u] = call[u]
      BY <3>1, GotoMoves DEF At
    <3> QED
      BY <2>1, <3>1, <3>2, LocksFrom DEF Holding, InClose
  <2> QED
    BY <2>2, <2>3
<1>3. ASSUME NEW t \in Api, NEW m \in Member, RemoveWaitingDispatcher(t, m) PROVE Locks'
  <2>1. /\ call[t].at = "idle" /\ Free /\ UNCHANGED <<isClosed, holder>>
        /\ waiting' \subseteq waiting
        /\ call' = [call EXCEPT ![t].at = "removeQueues", ![t].d = m]
    BY <1>3 DEF RemoveWaitingDispatcher
  <2>2. call'[t].at = "removeQueues" /\ \A u \in Api : u # t => call'[u] = call[u]
    <3>1. call \in [Api -> Call] /\ call[t] \in Call
      BY DEF TypeOK
    <3> QED
      BY <2>1, <3>1 DEF Call
  <2> QED
    BY <2>1, <2>2, LocksFrom DEF Holding, InClose, Free
<1>4. ASSUME NEW t \in Api, NEW max \in Counts, GetReadyDispatchers(t, max) PROVE Locks'
  <2>1. /\ call[t].at = "idle" /\ Free /\ UNCHANGED <<isClosed, waiting>> /\ holder' = {t}
        /\ call' = [call EXCEPT ![t].at = "requeue", ![t].pending = processed,
                                ![t].max = max]
    BY <1>4 DEF GetReadyDispatchers
  <2>2. call'[t].at = "requeue" /\ \A u \in Api : u # t => call'[u] = call[u]
    <3>1. call \in [Api -> Call] /\ call[t] \in Call
      BY DEF TypeOK
    <3> QED
      BY <2>1, <3>1 DEF Call
  <2> QED
    BY <2>1, <2>2, LocksFrom DEF Holding, InClose
<1>5. ASSUME NEW t \in Api, Close(t) PROVE Locks'
  <2>1. /\ Goto(t, "closeCancel") /\ Free /\ ~isClosed /\ isClosed'
        /\ UNCHANGED <<waiting, holder>>
    BY <1>5 DEF Close
  <2>2. call'[t].at = "closeCancel" /\ \A u \in Api : u # t => call'[u] = call[u]
    BY <2>1, GotoMoves DEF At
  <2> QED
    BY <2>1, <2>2, LocksFrom DEF Holding, InClose, Free
<1>6. ASSUME NEW t \in Api, AddWaitingDispatcherWakes(t) \/ Retrieve(t) PROVE Locks'
  <2>1. /\ Goto(t, "idle") /\ holder' = {} /\ call[t].at \in Holding
        /\ isClosed' = isClosed /\ waiting' \subseteq waiting
    BY <1>6 DEF AddWaitingDispatcherWakes, Retrieve, Retrieved, Holding
  <2>2. call'[t].at = "idle" /\ \A u \in Api : u # t => call'[u] = call[u]
    BY <2>1, GotoMoves DEF At
  <2>3. holder = {t}
    BY <2>1 DEF Locks
  <2> QED
    BY <2>1, <2>2, <2>3, LocksFrom DEF Holding, InClose
<1>7. ASSUME NEW t \in Api, Requeue(t) \/ RequeueWakes(t) PROVE Locks'
  <2>1. /\ call[t].at \in Holding /\ UNCHANGED <<isClosed, holder>>
        /\ waiting' \subseteq waiting
    BY <1>7 DEF Requeue, RequeueWakes, Kept, Holding
  <2>2. call'[t].at \in {"requeue", "requeueWake"} /\ \A u \in Api : u # t => call'[u] = call[u]
    <3>1. CASE Requeue(t)
      <4> DEFINE at == IF RequeueResult(Head(call[t].pending)) \in {"OK", "INVALID_ARGUMENT"}
                       THEN "requeue" ELSE "requeueWake"
                 rest == Tail(call[t].pending)
      <4>1. call' = [call EXCEPT ![t].pending = rest, ![t].at = at]
        BY <3>1 DEF Requeue
      <4>2. at \in {"requeue", "requeueWake"}
        OBVIOUS
      <4>3. call \in [Api -> Call] /\ call[t] \in Call
        BY DEF TypeOK
      <4> HIDE DEF at, rest
      <4> QED
        BY <4>1, <4>2, <4>3 DEF Call
    <3>2. CASE RequeueWakes(t)
      BY <3>2, GotoMoves DEF RequeueWakes, At
    <3> QED
      BY <1>7, <3>1, <3>2
  <2>3. holder = {t}
    BY <2>1 DEF Locks
  <2> QED
    BY <2>1, <2>2, <2>3, LocksFrom DEF Holding, InClose
<1>8. ASSUME NEW t \in Api, RemoveFromQueues(t) \/ CloseQueues(t) PROVE Locks'
  <2>1. /\ Goto(t, "idle") /\ call[t].at \notin Holding
        /\ UNCHANGED <<isClosed, holder, waiting>>
    BY <1>8 DEF RemoveFromQueues, CloseQueues, Holding
  <2>2. call'[t].at = "idle" /\ \A u \in Api : u # t => call'[u] = call[u]
    BY <2>1, GotoMoves DEF At
  <2>3. t \notin holder
    BY <2>1 DEF Locks
  <2> QED
    BY <2>1, <2>2, <2>3, LocksFrom DEF Holding, InClose
<1>9. ASSUME NEW t \in Api, NEW at \in {"closeMembers", "closeQueues"}, Goto(t, at),
             call[t].at \in {"closeCancel", "closeMembers"},
             UNCHANGED <<isClosed, holder>>, waiting' \subseteq waiting,
             at = "closeQueues" => waiting' = {}
      PROVE  Locks'
  <2>1. call'[t].at = at /\ \A u \in Api : u # t => call'[u] = call[u]
    BY <1>9, GotoMoves DEF At
  <2>2. t \notin holder /\ isClosed
    BY <1>9 DEF Locks, Holding, InClose
  <2> QED
    BY <1>9, <2>1, <2>2, LocksFrom DEF Holding, InClose
<1>10. ASSUME NEW t \in Api, CloseCancels(t) \/ CloseMembers(t) PROVE Locks'
  BY <1>9, <1>10 DEF CloseCancels, CloseMembers
<1>11. CASE WaitFinds \/ WaitLooks \/ WaitListed \/ WaitOver
  BY <1>11, LocksSame DEF WaitFinds, WaitLooks, WaitListed, WaitOver
<1>12. CASE UNCHANGED vars
  BY <1>12, LocksSame DEF vars
<1> QED
  BY <1>1, <1>2, <1>3, <1>4, <1>5, <1>6, <1>7, <1>8, <1>10, <1>11, <1>12
  DEF Next, Continue

\* Once a call has met what another one had half removed, that is remembered.
LEMMA OutrunStays ==
  ASSUME TypeOK, [Next]_vars, outrun
  PROVE  outrun'
BY DEF Next, Continue, vars, SignalsChange, BeginTransit, CancelTransit, SignalsChanged,
       AddWaitingDispatcher, RemoveWaitingDispatcher, GetReadyDispatchers, Close,
       AddWaitingDispatcherWakes, RemoveFromQueues, Requeue, RequeueWakes, Retrieve,
       CloseCancels, CloseMembers, CloseQueues, WaitFinds, WaitLooks, WaitListed, WaitOver

-----------------------------------------------------------------------------
(* How many places a dispatcher is at.                                     *)

\* A set with one element at most.
LEMMA CountOne ==
  ASSUME NEW S, \A x, y \in S : x = y
  PROVE  Cardinality(S) = IF S = {} THEN 0 ELSE 1
<1>1. CASE S = {}
  BY <1>1, FS_EmptySet
<1>2. CASE S # {}
  <2>1. PICK x : x \in S
    BY <1>2
  <2>2. S = {x}
    BY <2>1
  <2> QED
    BY <1>2, <2>2, FS_Singleton
<1> QED
  BY <1>1, <1>2

\* A list without repetition is no longer than there are dispatchers.
LEMMA ListLen ==
  ASSUME NEW q \in Seq(Member), Once(q)
  PROVE  \A i \in DOMAIN q : i \in 1..Cardinality(Member)
<1>1. DOMAIN q = 1..Len(q) /\ Len(q) \in Nat /\ q \in [1..Len(q) -> Member]
  OBVIOUS
<1>2. q \in Injection(1..Len(q), Member)
  BY <1>1 DEF Once, Injection, IsInjective
<1>3. Cardinality(1..Len(q)) <= Cardinality(Member)
  BY <1>2, WaitSetAssumption, FS_Injection
<1>4. Cardinality(1..Len(q)) = Len(q)
  <2>1. 1 \in Int /\ Len(q) \in Int
    BY <1>1
  <2>2. Cardinality(1..Len(q)) = IF 1 > Len(q) THEN 0 ELSE Len(q) - 1 + 1
    BY <2>1, FS_Interval
  <2> QED
    BY <1>1, <2>2
<1>5. Cardinality(Member) \in Nat
  BY WaitSetAssumption, FS_CardinalityType
<1> QED
  BY <1>1, <1>3, <1>4, <1>5

\* Places counts the lists that hold a dispatcher.
LEMMA PlacesCount ==
  ASSUME TypeOK, Locks, PlaceInv, NEW m \in Member
  PROVE  Places(m) = (IF HasEntry(awoken, m) THEN 1 ELSE 0)
                     + (IF Has(processed, m) THEN 1 ELSE 0)
                     + (IF InCall(m) THEN 1 ELSE 0)
                     + (IF m \in armed THEN 1 ELSE 0)
<1> DEFINE A == {i \in DOMAIN awoken : awoken[i].d = m}
           P == {i \in DOMAIN processed : processed[i] = m}
           C == {x \in Api \X (1..Cardinality(Member)) :
                   /\ x[2] \in DOMAIN call[x[1]].pending
                   /\ call[x[1]].pending[x[2]] = m}
<1>1. Cardinality(A) = IF HasEntry(awoken, m) THEN 1 ELSE 0
  <2>1. \A x, y \in A : x = y
    BY DEF PlaceInv, Lists, OnceEntry
  <2>2. A = {} <=> ~HasEntry(awoken, m)
    BY DEF HasEntry
  <2> HIDE DEF A
  <2> QED
    BY <2>1, <2>2, CountOne
<1>2. Cardinality(P) = IF Has(processed, m) THEN 1 ELSE 0
  <2>1. \A x, y \in P : x = y
    BY DEF PlaceInv, Lists, Once
  <2>2. P = {} <=> ~Has(processed, m)
    BY DEF Has
  <2> HIDE DEF P
  <2> QED
    BY <2>1, <2>2, CountOne
<1>3. Cardinality(C) = IF InCall(m) THEN 1 ELSE 0
  <2>1. ASSUME NEW x \in C, NEW y \in C PROVE x = y
    <3>1. /\ x \in Api \X (1..Cardinality(Member)) /\ y \in Api \X (1..Cardinality(Member))
          /\ x[1] \in Api /\ y[1] \in Api
      OBVIOUS
    <3>4. call[x[1]].pending # <<>> /\ call[y[1]].pending # <<>>
      OBVIOUS
    <3>5. Requeuing(x[1]) /\ Requeuing(y[1])
      BY <3>1, <3>4 DEF PlaceInv, Calls
    <3>2. x[1] = y[1]
      BY <3>1, <3>5 DEF Locks, Requeuing, Holding
    <3>3. x[2] = y[2]
      BY <3>1, <3>2 DEF PlaceInv, Lists, Once
    <3> QED
      BY <3>1, <3>2, <3>3
  <2>2. InCall(m) => C # {}
    <3>1. SUFFICES ASSUME NEW t \in Api, Has(call[t].pending, m) PROVE C # {}
      BY DEF InCall
    <3>2. PICK i \in DOMAIN call[t].pending : call[t].pending[i] = m
      BY <3>1 DEF Has
    <3>3. i \in 1..Cardinality(Member)
      BY CallHas, ListLen DEF PlaceInv, Lists
    <3>4. <<t, i>> \in C
      BY <3>2, <3>3
    <3> QED
      BY <3>4
  <2>3. C # {} => InCall(m)
    BY DEF InCall, Has
  <2> HIDE DEF C
  <2> QED
    BY <2>1, <2>2, <2>3, CountOne
<1>4. Places(m) = Cardinality(A) + Cardinality(P) + Cardinality(C)
                  + (IF m \in armed THEN 1 ELSE 0)
  BY DEF Places
<1> HIDE DEF A, P, C
<1> QED
  BY <1>1, <1>2, <1>3, <1>4

\* For any threads that call the wait set, any members and any counts: each
\* dispatcher in waiting_dispatchers_ is at exactly one place whatever the members
\* do meanwhile, no other one is left anywhere once the calls are over, and no
\* DCHECK of the wait set fails, until a GetReadyDispatchers begins, or the same
\* dispatcher is added, between the two halves of a removal or of Close.
THEOREM OnePlaceHolds == Spec => []OnePlace
<1>1. Init => PInv
  <2> SUFFICES ASSUME Init PROVE PInv
    OBVIOUS
  <2>1. \A t \in Api : call[t].at = "idle"
    BY DEF Init
  <2>2. Locks
    BY <2>1 DEF Init, Locks, Holding, InClose, Closing
  <2> QED
    BY <2>2, InitTypes, InitPlaces DEF PInv
<1>2. PInv /\ [Next]_vars => PInv'
  BY TypeStep, LocksStep, OutrunStays, PlaceStep DEF PInv
<1>3. PInv => OnePlace
  <2> SUFFICES ASSUME PInv, ~outrun PROVE OnePlace
    BY DEF OnePlace
  <2>3. TypeOK /\ Locks /\ PlaceInv
    BY DEF PInv
  <2>1. ASSUME NEW m \in waiting PROVE Places(m) = 1
    <3>1. m \in Member
      BY <2>3 DEF TypeOK
    <3>2. Apart(m) /\ Placed(m)
      BY <2>3, <3>1 DEF PlaceInv
    <3> QED
      BY <2>3, <3>1, <3>2, PlacesCount DEF Apart, Placed
  <2>2. ASSUME \A t \in Api : call[t].at = "idle", NEW m \in Member \ waiting
        PROVE  Places(m) = 0
    <3>1. ~Removing(m) /\ ~Closing
      BY <2>2 DEF Removing, Closing
    <3>2. Known(m)
      BY <2>3 DEF PlaceInv
    <3> QED
      BY <2>3, <3>1, <3>2, PlacesCount DEF Known
  <2> QED
    BY <2>1, <2>2, <2>3 DEF OnePlace, PlaceInv
<1> QED
  BY <1>1, <1>2, <1>3, PTL DEF Spec

=============================================================================
