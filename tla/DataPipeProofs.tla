--------------------------- MODULE DataPipeProofs ---------------------------
(***************************************************************************)
(* What TLAPS proves about the data pipe, for every capacity, element      *)
(* size and number of bytes, calls and moves:                              *)
(*   TypeCorrect        the numbers of a dispatcher stay within the ring   *)
(*   AccountingHolds    available_capacity_, bytes_available_ and the      *)
(*                      notifications between them add up                  *)
(*   ClosureTrueHolds   peer_closed_ is set when the peer is closed and    *)
(*                      every byte is known                                *)
(*   Refinement         the pipe implements ByteStream                     *)
(*   NoLostWakeupHolds  nobody waits for what is there                     *)
(*                                                                         *)
(* The inductive invariant IInv follows a byte: its number decides its     *)
(* cell (Offsets, Contents), and what an end has, will be told and should  *)
(* have been told (Due) is what was written and not read, or the rest of   *)
(* the ring (WrittenAccount, FreeAccount).  So the queued messages always  *)
(* fit, and the loop of UpdateSignalsStateNoLock reads them all.  WInv     *)
(* adds what is needed of the awakables.                                   *)
(***************************************************************************)
EXTENDS DataPipe, NumberLemmas, SequenceTheorems

-----------------------------------------------------------------------------
(* Sums.                                                                   *)

\* f is the table of the sums of the first 0..n numbers of s.
IsSum(f, s, n) ==
  /\ f \in [0..n -> Nat]
  /\ f[0] = 0
  /\ \A i \in 1..n : f[i] = f[i - 1] + s[i]
HasSum(s, n) == \E f : IsSum(f, s, n)

\* Every sequence of numbers has a table of partial sums: the least length without
\* one would be one more than a length with one.
LEMMA SumExists ==
  ASSUME NEW s \in Seq(Nat)
  PROVE  HasSum(s, Len(s))
<1> DEFINE Bad == {n \in 0..Len(s) : ~HasSum(s, n)}
<1>1. SUFFICES ASSUME Bad # {} PROVE FALSE
  OBVIOUS
<1>2. PICK n \in Bad : \A m \in Bad : n <= m
  <2>1. Bad \in SUBSET Nat
    OBVIOUS
  <2> HIDE DEF Bad
  <2> QED
    BY <1>1, <2>1, LeastNumber
<1>3. n # 0
  <2>1. IsSum([i \in 0..0 |-> 0], s, 0)
    BY DEF IsSum
  <2> QED
    BY <2>1, <1>2 DEF HasSum
<1>4. n \in 1..Len(s) /\ n - 1 \in 0..Len(s) /\ n - 1 \notin Bad
  BY <1>2, <1>3
<1>5. PICK f : IsSum(f, s, n - 1)
  BY <1>4 DEF HasSum
<1> HIDE DEF Bad
<1> DEFINE g == [i \in 0..n |-> IF i = n THEN f[n - 1] + s[n] ELSE f[i]]
<1>6. IsSum(g, s, n)
  <2>1. s[n] \in Nat /\ f[n - 1] \in Nat /\ f[0] = 0
    BY <1>4, <1>5 DEF IsSum
  <2>2. \A i \in 0..(n - 1) : f[i] \in Nat /\ g[i] = f[i]
    BY <1>4, <1>5 DEF IsSum
  <2>3. g[n] = f[n - 1] + s[n]
    BY <1>4
  <2>4. g \in [0..n -> Nat]
    <3>1. ASSUME NEW i \in 0..n PROVE g[i] \in Nat
      <4>1. i = n \/ i \in 0..(n - 1)
        BY <1>4
      <4>2. g[n] \in Nat
        BY <2>1, <2>3
      <4> QED
        BY <4>1, <4>2, <2>2
    <3>2. g = [i \in 0..n |-> g[i]]
      OBVIOUS
    <3> HIDE DEF g
    <3> QED
      BY <3>1, <3>2
  <2>5. ASSUME NEW i \in 1..n PROVE g[i] = g[i - 1] + s[i]
    <3>1. CASE i = n
      BY <3>1, <2>2, <2>3, <1>4
    <3>2. CASE i # n
      <4>1. i \in 1..(n - 1) /\ i \in 0..(n - 1) /\ i - 1 \in 0..(n - 1)
        BY <3>2, <1>4
      <4>2. f[i] = f[i - 1] + s[i]
        BY <4>1, <1>5 DEF IsSum
      <4> QED
        BY <4>1, <4>2, <2>2
    <3> QED
      BY <3>1, <3>2
  <2>6. g[0] = 0
    BY <2>1, <2>2, <1>4
  <2> QED
    BY <2>4, <2>5, <2>6 DEF IsSum
<1>7. HasSum(s, n)
  BY <1>6 DEF HasSum
<1> QED
  BY <1>2, <1>7 DEF Bad

\* Total, which DataPipe defines by a recursive function, is the last of them.
LEMMA TotalIs ==
  ASSUME NEW s \in Seq(Nat), NEW f, IsSum(f, s, Len(s))
  PROVE  Total(s) = f[Len(s)] /\ Total(s) \in Nat
<1> DEFINE Sum(g) == g = [i \in 0..Len(s) |-> IF i = 0 THEN 0 ELSE g[i - 1] + s[i]]
           sum == CHOOSE g : Sum(g)
<1>1. Sum(f)
  BY DEF IsSum
<1>2. Sum(sum)
  BY <1>1, Zenon
<1>3. Total(s) = sum[Len(s)]
  BY DEF Total
<1> HIDE DEF sum
<1>6. \A i \in 1..Len(s) : sum[i] = sum[i - 1] + s[i]
  BY <1>2
<1> DEFINE Bad == {n \in 0..Len(s) : sum[n] # f[n]}
<1>4. Bad = {}
  <2>1. SUFFICES ASSUME Bad # {} PROVE FALSE
    OBVIOUS
  <2>2. PICK n \in Bad : \A m \in Bad : n <= m
    <3>1. Bad \in SUBSET Nat
      OBVIOUS
    <3> HIDE DEF Bad
    <3> QED
      BY <2>1, <3>1, LeastNumber
  <2>3. n # 0
    BY <1>2, <2>2 DEF IsSum
  <2>4. n - 1 \in 0..Len(s) /\ n \in 1..Len(s) /\ ~(n <= n - 1)
    BY <2>2, <2>3
  <2>5. sum[n - 1] = f[n - 1]
    BY <2>2, <2>4
  <2>6. sum[n] = sum[n - 1] + s[n]
    BY <1>6, <2>4
  <2>7. f[n] = f[n - 1] + s[n]
    BY <2>4 DEF IsSum
  <2> QED
    BY <2>2, <2>5, <2>6, <2>7
<1>5. Len(s) \in 0..Len(s)
  OBVIOUS
<1> QED
  BY <1>3, <1>4, <1>5 DEF IsSum

\* A total is a natural number.
LEMMA TotalType ==
  ASSUME NEW s \in Seq(Nat)
  PROVE  Total(s) \in Nat
BY SumExists, TotalIs DEF HasSum

\* Nothing adds up to 0.
LEMMA TotalEmpty == Total(<<>>) = 0
<1>1. IsSum([i \in 0..0 |-> 0], <<>>, Len(<<>>))
  BY DEF IsSum
<1>2. <<>> \in Seq(Nat)
  OBVIOUS
<1>3. Total(<<>>) = [i \in 0..0 |-> 0][Len(<<>>)]
  BY <1>1, <1>2, TotalIs
<1> QED
  BY <1>3

\* The total of two sequences, one after the other.
LEMMA TotalConcat ==
  ASSUME NEW s \in Seq(Nat), NEW t \in Seq(Nat)
  PROVE  Total(s \o t) = Total(s) + Total(t)
<1> DEFINE m == Len(s)
           n == Len(t)
<1>1. PICK f : IsSum(f, s, m)
  BY SumExists DEF HasSum
<1>2. PICK g : IsSum(g, t, n)
  BY SumExists DEF HasSum
<1> DEFINE h == [i \in 0..(m + n) |-> IF i <= m THEN f[i] ELSE f[m] + g[i - m]]
<1>3. m \in Nat /\ n \in Nat /\ s \o t \in Seq(Nat) /\ Len(s \o t) = m + n
  OBVIOUS
<1>4. \A i \in 1..m : (s \o t)[i] = s[i] /\ s[i] \in Nat
  OBVIOUS
<1>5. \A i \in 1..n : (s \o t)[m + i] = t[i] /\ t[i] \in Nat
  OBVIOUS
<1> HIDE DEF m, n
<1>6. \A i \in 0..m : f[i] \in Nat
  BY <1>1 DEF IsSum
<1>7. \A i \in 0..n : g[i] \in Nat
  BY <1>2 DEF IsSum
<1>8. \A i \in 0..m : i \in 0..(m + n) /\ h[i] = f[i] /\ h[i] \in Nat
  BY <1>3, <1>6
<1>9. \A i \in 0..n : m + i \in 0..(m + n) /\ h[m + i] = f[m] + g[i] /\ h[m + i] \in Nat
  <2> SUFFICES ASSUME NEW i \in 0..n
               PROVE  m + i \in 0..(m + n) /\ h[m + i] = f[m] + g[i] /\ h[m + i] \in Nat
    OBVIOUS
  <2>1. m + i \in 0..(m + n) /\ (m + i) - m = i /\ g[i] \in Nat /\ f[m] \in Nat
    BY <1>3, <1>6, <1>7
  <2>2. CASE i = 0
    <3>1. g[0] = 0
      BY <1>2 DEF IsSum
    <3> QED
      BY <2>1, <2>2, <3>1, <1>3
  <2>3. CASE i # 0
    BY <2>1, <2>3, <1>3
  <2> QED
    BY <2>2, <2>3
<1>10. IsSum(h, s \o t, m + n)
  <2>1. ASSUME NEW i \in 0..(m + n) PROVE h[i] \in Nat
    <3>1. i \in 0..m \/ (i - m \in 0..n /\ m + (i - m) = i)
      BY <1>3
    <3> HIDE DEF h
    <3> QED
      BY <3>1, <1>8, <1>9
  <2>2. h = [i \in 0..(m + n) |-> h[i]]
    OBVIOUS
  <2> HIDE DEF h
  <2>3. h \in [0..(m + n) -> Nat]
    BY <2>1, <2>2
  <2>4. h[0] = 0
    BY <1>8, <1>1, <1>3 DEF IsSum
  <2>5. ASSUME NEW i \in 1..(m + n) PROVE h[i] = h[i - 1] + (s \o t)[i]
    <3>1. CASE i \in 1..m
      <4>1. i \in 0..m /\ i - 1 \in 0..m
        BY <3>1, <1>3
      <4>2. f[i] = f[i - 1] + s[i]
        BY <3>1, <1>1 DEF IsSum
      <4> QED
        BY <3>1, <4>1, <4>2, <1>4, <1>8
    <3>2. CASE i \notin 1..m
      <4> DEFINE k == i - m
      <4>1. k \in 1..n /\ k \in 0..n /\ k - 1 \in 0..n /\ i = m + k /\ i - 1 = m + (k - 1)
        BY <3>2, <1>3
      <4> HIDE DEF k
      <4>2. g[k] = g[k - 1] + t[k]
        BY <4>1, <1>2 DEF IsSum
      <4>3. h[i] = f[m] + g[k] /\ h[i - 1] = f[m] + g[k - 1]
        BY <4>1, <1>9
      <4>4. (s \o t)[i] = t[k] /\ t[k] \in Nat
        BY <4>1, <1>5
      <4>5. f[m] \in Nat /\ g[k - 1] \in Nat
        BY <4>1, <1>6, <1>7, <1>3
      <4> QED
        BY <4>2, <4>3, <4>4, <4>5
    <3> QED
      BY <3>1, <3>2
  <2> QED
    BY <2>3, <2>4, <2>5 DEF IsSum
<1> HIDE DEF h
<1>11. Total(s \o t) = h[m + n]
  BY <1>3, <1>10, TotalIs
<1>12. Total(s) = f[m] /\ Total(t) = g[n]
  BY <1>1, <1>2, TotalIs DEF m, n
<1>13. h[m + n] = f[m] + g[n]
  BY <1>9, <1>3
<1> QED
  BY <1>11, <1>12, <1>13

\* The total of one number.
LEMMA TotalSingle ==
  ASSUME NEW n \in Nat
  PROVE  Total(<<n>>) = n
<1>1. IsSum([i \in 0..1 |-> IF i = 0 THEN 0 ELSE n], <<n>>, Len(<<n>>))
  BY DEF IsSum
<1>2. <<n>> \in Seq(Nat) /\ Len(<<n>>) = 1
  OBVIOUS
<1>3. Total(<<n>>) = [i \in 0..1 |-> IF i = 0 THEN 0 ELSE n][1]
  BY <1>1, <1>2, TotalIs
<1> QED
  BY <1>3

\* The total after a message was appended to a queue.
LEMMA TotalAppend ==
  ASSUME NEW s \in Seq(Nat), NEW n \in Nat
  PROVE  Total(Append(s, n)) = Total(s) + n
<1>1. Append(s, n) = s \o <<n>> /\ <<n>> \in Seq(Nat)
  BY AppendIsConcat
<1> QED
  BY <1>1, TotalConcat, TotalSingle

\* The total of a queue is its head and the rest.
LEMMA TotalTail ==
  ASSUME NEW s \in Seq(Nat), s # <<>>
  PROVE  Total(s) = Head(s) + Total(Tail(s))
<1>1. Head(s) \in Nat /\ Tail(s) \in Seq(Nat) /\ <<Head(s)>> \in Seq(Nat)
  OBVIOUS
<1>2. s = <<Head(s)>> \o Tail(s)
  OBVIOUS
<1>3. Total(s) = Total(<<Head(s)>> \o Tail(s))
  BY <1>2
<1>4. Total(<<Head(s)>> \o Tail(s)) = Total(<<Head(s)>>) + Total(Tail(s))
  BY <1>1, TotalConcat
<1> QED
  BY <1>1, <1>3, <1>4, TotalSingle

\* A queue can be read in two parts.
LEMMA TotalSplit ==
  ASSUME NEW s \in Seq(Nat), NEW k \in 0..Len(s)
  PROVE  Total(s) = Total(SubSeq(s, 1, k)) + Total(SubSeq(s, k + 1, Len(s)))
<1>1. SubSeq(s, 1, k) \in Seq(Nat) /\ SubSeq(s, k + 1, Len(s)) \in Seq(Nat)
  OBVIOUS
<1>2. s = SubSeq(s, 1, k) \o SubSeq(s, k + 1, Len(s))
  <2>1. 1 \in 1..(Len(s) + 1) /\ k \in (1 - 1)..Len(s) /\ Len(s) \in k..Len(s)
    OBVIOUS
  <2>2. SubSeq(s, 1, k) \o SubSeq(s, k + 1, Len(s)) = SubSeq(s, 1, Len(s))
    BY <2>1, ConcatAdjacentSubSeq
  <2> QED
    BY <2>2, SubSeqFull
<1> QED
  BY <1>1, <1>2, TotalConcat

\* The bytes of the notes of an end.
LEMMA NotedType ==
  ASSUME NEW s \in Seq(Note)
  PROVE  [i \in DOMAIN s |-> s[i].n] \in Seq(Nat) /\ Noted(s) \in Nat
<1> DEFINE t == [i \in DOMAIN s |-> s[i].n]
<1>1. t \in Seq(Nat)
  <2>1. Len(s) \in Nat /\ DOMAIN s = 1..Len(s) /\ \A i \in 1..Len(s) : s[i] \in Note
    OBVIOUS
  <2>2. t \in [1..Len(s) -> Nat]
    BY <2>1 DEF Note
  <2> HIDE DEF t
  <2> QED
    BY <2>1, <2>2, SeqDef
<1> HIDE DEF t
<1>2. Total(t) \in Nat
  BY <1>1, TotalType
<1> QED
  BY <1>1, <1>2 DEF Noted, t

\* Without calls under way nothing is noted.
LEMMA NotedEmpty == Noted(<<>>) = 0
<1>1. [i \in DOMAIN <<>> |-> <<>>[i].n] = <<>>
  OBVIOUS
<1> QED
  BY <1>1, TotalEmpty DEF Noted

\* A call that drops the lock (NotifyWrite, NotifyRead are still to run) adds its
\* bytes to those that are noted.
LEMMA NotedAppend ==
  ASSUME NEW s \in Seq(Note), NEW note \in Note
  PROVE  Noted(Append(s, note)) = Noted(s) + note.n
<1> DEFINE t == [i \in DOMAIN s |-> s[i].n]
           u == [i \in DOMAIN Append(s, note) |-> Append(s, note)[i].n]
<1>1. t \in Seq(Nat) /\ note.n \in Nat
  BY NotedType DEF Note
<1>2. u = Append(t, note.n)
  BY DEF Note
<1> HIDE DEF t, u
<1>3. Total(u) = Total(t) + note.n
  BY <1>1, <1>2, TotalAppend
<1> QED
  BY <1>3 DEF Noted, t, u

\* The elements of a concatenation.
LEMMA ConcatAt ==
  ASSUME NEW S, NEW s \in Seq(S), NEW t \in Seq(S)
  PROVE  /\ s \o t \in Seq(S)
         /\ Len(s \o t) = Len(s) + Len(t)
         /\ \A k \in 1..Len(s) : (s \o t)[k] = s[k]
         /\ \A k \in (Len(s) + 1)..(Len(s) + Len(t)) : (s \o t)[k] = t[k - Len(s)]
BY ConcatProperties

\* A call that notifies takes its bytes off the list, in whatever order the calls
\* get the lock again.
LEMMA NotedRemove ==
  ASSUME NEW s \in Seq(Note), NEW i \in DOMAIN s
  PROVE  /\ RemoveAt(s, i) \in Seq(Note)
         /\ Noted(s) = Noted(RemoveAt(s, i)) + s[i].n
         /\ s[i] \in Note
<1> DEFINE r == RemoveAt(s, i)
           t == [k \in DOMAIN s |-> s[k].n]
           u == [k \in DOMAIN r |-> r[k].n]
           a == SubSeq(t, 1, i - 1)
           b == SubSeq(t, i + 1, Len(t))
<1>0. i \in 1..Len(s) /\ Len(s) \in Nat /\ DOMAIN s = 1..Len(s) /\ s[i] \in Note
  OBVIOUS
<1>1. r \in Seq(Note) /\ s[i].n \in Nat
  <2>1. SubSeq(s, 1, i - 1) \in Seq(Note) /\ SubSeq(s, i + 1, Len(s)) \in Seq(Note)
    BY <1>0
  <2> QED
    BY <1>0, <2>1 DEF RemoveAt, Note
<1>2. t \in Seq(Nat) /\ DOMAIN t = 1..Len(s) /\ t[i] = s[i].n
  BY <1>0, NotedType
<1>3. Len(t) = Len(s)
  <2> HIDE DEF t
  <2> QED
    BY <1>0, <1>2
<1>4. a \in Seq(Nat) /\ b \in Seq(Nat) /\ i \in 1..Len(t)
  <2> HIDE DEF t
  <2> QED
    BY <1>0, <1>2, <1>3
<1>10. u = a \o b
  <2>1. Len(a) = i - 1 /\ Len(b) = Len(s) - i
    <3> HIDE DEF t
    <3> QED
      BY <1>0, <1>2, <1>3
  <2>2. /\ \A k \in 1..(i - 1) : a[k] = s[k].n
        /\ \A k \in 1..(Len(s) - i) : b[k] = s[i + k].n
    <3>1. \A k \in 1..Len(s) : t[k] = s[k].n
      BY <1>0
    <3> HIDE DEF t
    <3>2. \A k \in 1..(i - 1) : a[k] = t[k] /\ k \in 1..Len(s)
      BY <1>0, <1>2, <1>3
    <3>3. \A k \in 1..(Len(s) - i) : b[k] = t[i + k] /\ i + k \in 1..Len(s)
      BY <1>0, <1>2, <1>3
    <3> QED
      BY <3>1, <3>2, <3>3
  <2> DEFINE p == SubSeq(s, 1, i - 1)
             q == SubSeq(s, i + 1, Len(s))
  <2>3. /\ p \in Seq(Note) /\ q \in Seq(Note)
        /\ Len(p) = i - 1 /\ Len(q) = Len(s) - i
        /\ \A k \in 1..(i - 1) : p[k] = s[k]
        /\ \A k \in 1..(Len(s) - i) : q[k] = s[i + k]
    BY <1>0
  <2>4. r = p \o q
    BY DEF RemoveAt
  <2> HIDE DEF a, b, p, q, t, r
  <2> DEFINE ab == a \o b
             pq == p \o q
  <2>5. /\ ab \in Seq(Nat) /\ Len(ab) = Len(s) - 1
        /\ \A k \in 1..(i - 1) : ab[k] = a[k]
        /\ \A k \in i..(Len(s) - 1) : ab[k] = b[k - (i - 1)]
    <3>0. a \in Seq(Nat) /\ b \in Seq(Nat)
      BY <1>0, <1>4, <2>1
    <3>1. /\ ab \in Seq(Nat) /\ Len(ab) = Len(a) + Len(b)
          /\ \A k \in 1..Len(a) : ab[k] = a[k]
          /\ \A k \in (Len(a) + 1)..(Len(a) + Len(b)) : ab[k] = b[k - Len(a)]
      BY <3>0, ConcatAt
    <3> HIDE DEF ab
    <3>2. Len(a) = i - 1 /\ Len(b) = Len(s) - i
      BY <1>0, <1>4, <2>1
    <3>3. Len(a) + 1 = i /\ Len(a) + Len(b) = Len(s) - 1
      BY <3>2, <1>0
    <3> QED
      BY <3>1, <3>2, <3>3
  <2>6. /\ pq \in Seq(Note) /\ Len(pq) = Len(s) - 1
        /\ \A k \in 1..(i - 1) : pq[k] = p[k]
        /\ \A k \in i..(Len(s) - 1) : pq[k] = q[k - (i - 1)]
    <3>0. p \in Seq(Note) /\ q \in Seq(Note)
      BY <1>0, <2>3
    <3>1. /\ pq \in Seq(Note) /\ Len(pq) = Len(p) + Len(q)
          /\ \A k \in 1..Len(p) : pq[k] = p[k]
          /\ \A k \in (Len(p) + 1)..(Len(p) + Len(q)) : pq[k] = q[k - Len(p)]
      BY <3>0, ConcatAt
    <3> HIDE DEF pq
    <3>2. Len(p) = i - 1 /\ Len(q) = Len(s) - i
      BY <1>0, <2>3
    <3>3. Len(p) + 1 = i /\ Len(p) + Len(q) = Len(s) - 1
      BY <3>2, <1>0
    <3> QED
      BY <3>1, <3>2, <3>3
  <2> HIDE DEF ab, pq
  <2>7. ASSUME NEW k \in 1..(Len(s) - 1) PROVE pq[k].n = ab[k]
    <3>1. CASE k < i
      <4>1. k \in 1..(i - 1)
        BY <3>1, <1>0
      <4> QED
        BY <4>1, <2>2, <2>3, <2>5, <2>6
    <3>2. CASE k >= i
      <4> DEFINE j == k - (i - 1)
      <4>1. k \in i..(Len(s) - 1) /\ j \in 1..(Len(s) - i)
        BY <3>2, <1>0
      <4>2. pq[k] = q[j] /\ ab[k] = b[j]
        BY <4>1, <2>5, <2>6
      <4> HIDE DEF j
      <4>3. q[j] = s[i + j] /\ b[j] = s[i + j].n
        BY <4>1, <2>2, <2>3
      <4> QED
        BY <4>2, <4>3
    <3> QED
      BY <3>1, <3>2, <1>0
  <2>8. u = [k \in 1..(Len(s) - 1) |-> pq[k].n]
    BY <2>4, <2>6, <1>0 DEF pq
  <2>9. ab = [k \in 1..(Len(s) - 1) |-> ab[k]]
    BY <2>5, <1>0
  <2>10. u = ab
    BY <2>7, <2>8, <2>9
  <2> QED
    BY <2>10 DEF ab
<1> HIDE DEF t, u
<1>5. Total(t) = Total(SubSeq(t, 1, i)) + Total(b)
  <2>1. i \in 0..Len(t)
    BY <1>4
  <2> QED
    BY <1>2, <2>1, TotalSplit
<1>6. Total(SubSeq(t, 1, i)) = Total(a) + t[i]
  <2>1. SubSeq(t, 1, i) = Append(a, t[i])
    BY <1>2, <1>4
  <2>2. t[i] \in Nat
    BY <1>1, <1>2
  <2> HIDE DEF a
  <2> QED
    BY <1>4, <2>1, <2>2, TotalAppend
<1>7. Total(u) = Total(a) + Total(b)
  <2> HIDE DEF a, b
  <2> QED
    BY <1>10, <1>4, TotalConcat
<1>8. Total(a) \in Nat /\ Total(b) \in Nat
  BY <1>4, TotalType
<1>9. Total(t) = Total(u) + s[i].n
  BY <1>1, <1>2, <1>5, <1>6, <1>7, <1>8
<1> QED
  BY <1>0, <1>1, <1>9 DEF Noted, t, u

-----------------------------------------------------------------------------
(* Reading the control port.                                               *)

\* The ring has a cell.
LEMMA Capacities == Capacity \in Nat \ {0}
BY DataPipeAssumption

\* What is queued fits if it fits all at once.
LEMMA FitsAll ==
  ASSUME NEW e \in Ends, NEW r, r.avail \in Nat, queue[e] \in Seq(Nat),
         r.avail + Total(queue[e]) <= Capacity
  PROVE  Fits(e, r) = Len(queue[e])
<1> DEFINE q == queue[e]
           K == {k \in 0..Len(q) : r.avail + Total(SubSeq(q, 1, k)) <= Capacity}
<1>1. SubSeq(q, 1, Len(q)) = q /\ Len(q) \in 0..Len(q)
  BY SubSeqFull
<1>2. Len(q) \in K
  BY <1>1
<1>3. \A y \in K : y <= Len(q) /\ y \in Nat
  OBVIOUS
<1>4. Fits(e, r) = Max(K)
  BY DEF Fits
<1> HIDE DEF K, q
<1>5. Max(K) = Len(q)
  <2>1. Len(q) \in K /\ \A y \in K : Len(q) >= y
    BY <1>2, <1>3
  <2>2. \E x \in K : \A y \in K : x >= y
    BY <2>1
  <2>3. Max(K) \in K /\ \A y \in K : Max(K) >= y
    BY <2>2 DEF Max
  <2> QED
    BY <2>1, <2>3, <1>3
<1> QED
  BY <1>4, <1>5 DEF q

\* UpdateSignalsStateNoLock then reads all of it: what was queued is added to
\* what is available, and a closure is only reported behind the last message.
LEMMA UpdatedIs ==
  ASSUME NEW e \in Ends, NEW r \in Dispatcher, queue[e] \in Seq(Nat),
         r.avail + Total(queue[e]) <= Capacity
  PROVE  /\ Updated(e, r) \in Dispatcher
         /\ Updated(e, r) =
              [r EXCEPT !.avail = Updated(e, r).avail,
                        !.peerClosed = Updated(e, r).peerClosed]
         /\ Updated(e, r).avail + Total(Unread(e, r))
              = r.avail + Total(queue[e])
         /\ Updated(e, r).avail >= r.avail
         /\ Unread(e, r) \in {queue[e], <<>>}
         /\ r.peerClosed => Updated(e, r).peerClosed
         /\ Updated(e, r).peerClosed =>
              \/ r.peerClosed
              \/ e \in peerShut /\ wire[e] = <<>> /\ Unread(e, r) = <<>>
         /\ ~r.inTransit =>
              /\ Unread(e, r) = <<>>
              /\ Updated(e, r).peerClosed \/ e \notin peerShut \/ wire[e] # <<>>
<1> DEFINE s == Updated(e, r)
           q == queue[e]
           av == IF q # <<>> /\ ~r.inTransit THEN r.avail + Total(q) ELSE r.avail
           pc == \/ r.peerClosed
                 \/ ~Receiving(e)
                 \/ q # <<>> /\ ~r.inTransit /\ e \in peerShut /\ wire[e] = <<>>
<1>1. r.avail \in Nat /\ Total(q) \in Nat /\ Total(<<>>) = 0 /\ Len(q) \in Nat
  BY TotalType, TotalEmpty DEF Dispatcher
<1>2. Fits(e, r) = Len(q) /\ SubSeq(q, 1, Len(q)) = q
  BY <1>1, FitsAll, SubSeqFull
<1>3. Unread(e, r) = IF r.inTransit THEN q ELSE <<>>
  <2>1. SubSeq(q, Len(q) + 2, Len(q)) = <<>>
    BY <1>1
  <2> QED
    BY <1>2, <2>1 DEF Unread
<1>4. r.peerClosed \in BOOLEAN /\ r.inTransit \in BOOLEAN
  BY DEF Dispatcher
<1>5. s = [r EXCEPT !.avail = av, !.peerClosed = pc]
  <2>1. DOMAIN r = {"ring", "inTwoPhase", "inTransit", "closed", "peerClosed",
                    "offset", "avail", "max"}
    BY DEF Dispatcher
  <2>2. s.avail = av
    BY <1>1, <1>2, <2>1 DEF Updated
  <2>3. s.peerClosed = pc
    <3> DEFINE reads == q # <<>> /\ ~r.inTransit
               last == e \in peerShut /\ wire[e] = <<>>
    <3>1. s.peerClosed =
            (\/ r.peerClosed
             \/ ~Receiving(e)
             \/ reads /\ last /\ Len(q) = Len(q)
             \/ reads /\ Len(q) < Len(q) /\ e = "consumer")
      BY <1>2, <2>1 DEF Updated
    <3>2. ~(Len(q) < Len(q))
      BY <1>1
    <3> HIDE DEF s, q
    <3> QED
      BY <3>1, <3>2, Zenon
  <2>4. s = [r EXCEPT !.avail = s.avail, !.peerClosed = s.peerClosed]
    BY <2>1 DEF Updated
  <2> QED
    BY <2>2, <2>3, <2>4
<1>6. av \in Nat /\ pc \in BOOLEAN
  BY <1>1, <1>4
<1>7. s.avail = av /\ s.peerClosed = pc
  <2> HIDE DEF s, av, pc
  <2> QED
    BY <1>5 DEF Dispatcher
<1>8. s \in Dispatcher /\ s = [r EXCEPT !.avail = s.avail, !.peerClosed = s.peerClosed]
  <2> HIDE DEF s, av, pc
  <2> QED
    BY <1>5, <1>6, <1>7 DEF Dispatcher
<1> HIDE DEF s
<1>9. s.avail + Total(Unread(e, r)) = r.avail + Total(q) /\ s.avail >= r.avail
  BY <1>1, <1>3, <1>7
<1>10. s.peerClosed => \/ r.peerClosed
                       \/ e \in peerShut /\ wire[e] = <<>> /\ Unread(e, r) = <<>>
  BY <1>3, <1>7 DEF Receiving
<1>11. r.peerClosed => s.peerClosed
  BY <1>7
<1>12. Unread(e, r) \in {q, <<>>}
  BY <1>3
<1>13. ~r.inTransit => /\ Unread(e, r) = <<>>
                       /\ s.peerClosed \/ e \notin peerShut \/ wire[e] # <<>>
  BY <1>3, <1>7 DEF Receiving
<1> QED
  BY <1>8, <1>9, <1>10, <1>11, <1>12, <1>13 DEF s

-----------------------------------------------------------------------------
(* The inductive invariant.                                                *)

\* A closed end has nothing under way to it or from it, and nothing of it
\* travels; an end that travels is in no two-phase operation.
Lifecycle ==
  \A e \in Ends :
    /\ d[e].closed => notes[e] = <<>> /\ wire[e] = <<>> /\ queue[e] = <<>>
    /\ e \in peerShut => d[Other(e)].closed
    /\ d[e].ring \/ d[e].inTransit \/ e \in away => ~d[e].closed
    /\ d[e].inTransit \/ e \in away => ~d[e].inTwoPhase

\* The bytes between the ends fit into the ring.
InFlight ==
  Len(delivered) <= written /\ written <= Len(delivered) + Capacity

\* What end e has, will be told of, or should have been told of.
Due(e) ==
  d[e].avail + Total(queue[e]) + Total(wire[e]) + Noted(notes[Other(e)])
    + refused[Other(e)]

\* For the consumer these are the bytes that were written and not read, for
\* the producer the other cells of the ring.
WrittenAccount ==
  ~d["consumer"].closed => Due("consumer") = written - Len(delivered)
FreeAccount ==
  ~d["producer"].closed =>
    Due("producer") = Capacity - (written - Len(delivered))

Offsets ==
  /\ d["producer"].offset = written % Capacity
  /\ d["consumer"].offset = Len(delivered) % Capacity

\* The bytes that were not read are in the ring, and the ones read in order.
Contents ==
  \A b \in (Len(delivered) + 1)..written : buf[(b - 1) % Capacity] = b
Ordered == delivered = [i \in 1..Len(delivered) |-> i]

\* What a two-phase operation was given is still there when it ends.
TwoPhase ==
  \A e \in Ends : d[e].inTwoPhase /\ ~Ending(e) => d[e].max <= d[e].avail
Granted ==
  d["producer"].inTwoPhase /\ ~Ending("producer") =>
    \A k \in 0..(d["producer"].max - 1) :
      buf[(written + k) % Capacity] = written + k + 1

\* A closure is reported after it happened, to the consumer behind the last
\* message.
Told ==
  /\ \A e \in Ends : d[e].peerClosed => d[Other(e)].closed
  /\ d["consumer"].peerClosed /\ ~d["consumer"].closed =>
       /\ "consumer" \in peerShut
       /\ wire["consumer"] = <<>>
       /\ queue["consumer"] = <<>>

IInv ==
  /\ TypeOK /\ Lifecycle
  /\ InFlight /\ WrittenAccount /\ FreeAccount
  /\ Offsets /\ Contents /\ Ordered
  /\ TwoPhase /\ Granted
  /\ Told

\* What a step of the data pipe is to the byte stream: nothing, or end e is
\* told that its peer is closed; a write; a read; the closure of end e.
Unclosed == \A x \in Ends : d'[x].closed = d[x].closed
Untold == \A x \in Ends : d'[x].peerClosed = d[x].peerClosed
Calm(e) ==
  /\ UNCHANGED <<written, delivered>> /\ Unclosed
  /\ \A x \in Ends : x # e => d'[x].peerClosed = d[x].peerClosed
  /\ d[e].peerClosed => d'[e].peerClosed
Wrote ==
  /\ ~d["producer"].closed /\ written' \in Nat /\ written' >= written
  /\ UNCHANGED delivered /\ Unclosed /\ Untold
Took ==
  /\ ~d["consumer"].closed
  /\ \E n \in 0..(written - Len(delivered)) :
       delivered' = delivered \o [i \in 1..n |-> Len(delivered) + i]
  /\ UNCHANGED written /\ Unclosed /\ Untold
Shut(e) ==
  /\ UNCHANGED <<written, delivered>> /\ Untold
  /\ ~d[e].closed /\ d'[e].closed
  /\ \A x \in Ends : x # e => d'[x].closed = d[x].closed

\* The two ends.
LEMMA TheEnds ==
  /\ "producer" \in Ends /\ "consumer" \in Ends
  /\ Other("producer") = "consumer" /\ Other("consumer") = "producer"
  /\ \A e \in Ends : e = "producer" \/ e = "consumer"
  /\ \A e \in Ends : Other(e) \in Ends /\ Other(e) # e /\ Other(Other(e)) = e
BY DEF Ends, Other

\* The numbers that the accounts add up.
LEMMA Numbers ==
  ASSUME TypeOK
  PROVE  /\ \A e \in Ends :
              /\ d[e] \in Dispatcher
              /\ d[e].avail \in Nat /\ d[e].offset \in Nat /\ d[e].max \in Nat
              /\ d[e].closed \in BOOLEAN /\ d[e].peerClosed \in BOOLEAN
              /\ d[e].inTwoPhase \in BOOLEAN /\ d[e].inTransit \in BOOLEAN
              /\ d[e].ring \in BOOLEAN
              /\ notes[e] \in Seq(Note) /\ wire[e] \in Seq(Nat)
              /\ queue[e] \in Seq(Nat) /\ refused[e] \in Nat
         /\ written \in Nat /\ delivered \in Seq(Nat) /\ Len(delivered) \in Nat
         /\ \A e \in Ends :
              /\ Noted(notes[e]) \in Nat /\ Total(wire[e]) \in Nat
              /\ Total(queue[e]) \in Nat
         /\ \A e \in Ends : Due(e) \in Nat
<1>1. /\ \A e \in Ends :
           /\ d[e] \in Dispatcher
           /\ notes[e] \in Seq(Note) /\ wire[e] \in Seq(Nat)
           /\ queue[e] \in Seq(Nat) /\ refused[e] \in Nat
      /\ written \in Nat /\ delivered \in Seq(Nat) /\ Len(delivered) \in Nat
  BY DEF TypeOK
<1>2. \A e \in Ends :
        /\ d[e].avail \in Nat /\ d[e].offset \in Nat /\ d[e].max \in Nat
        /\ d[e].closed \in BOOLEAN /\ d[e].peerClosed \in BOOLEAN
        /\ d[e].inTwoPhase \in BOOLEAN /\ d[e].inTransit \in BOOLEAN
        /\ d[e].ring \in BOOLEAN
  BY <1>1 DEF Dispatcher
<1>3. \A e \in Ends :
        /\ Noted(notes[e]) \in Nat /\ Total(wire[e]) \in Nat
        /\ Total(queue[e]) \in Nat
  BY <1>1, TotalType, NotedType
<1>4. \A e \in Ends : Due(e) \in Nat
  <2> SUFFICES ASSUME NEW e \in Ends PROVE Due(e) \in Nat
    OBVIOUS
  <2>1. refused[Other(e)] \in Nat /\ Noted(notes[Other(e)]) \in Nat
    BY <1>1, <1>3, TheEnds
  <2> QED
    BY <1>2, <1>3, <2>1 DEF Due
<1> QED
  BY <1>1, <1>2, <1>3, <1>4

\* An end has the same due if what is on its way to it is the same.
LEMMA DueSame ==
  ASSUME TypeOK, NEW x \in Ends, d'[x].avail = d[x].avail, queue'[x] = queue[x],
         NEW w \in Nat, NEW n \in Nat, NEW f \in Nat,
         w = Total(wire'[x]), n = Noted(notes'[Other(x)]),
         f = refused'[Other(x)],
         w + n + f = Total(wire[x]) + Noted(notes[Other(x)]) + refused[Other(x)]
  PROVE  Due(x)' = Due(x)
<1>1. /\ d[x].avail \in Nat /\ Noted(notes[Other(x)]) \in Nat
      /\ refused[Other(x)] \in Nat
      /\ Total(queue[x]) \in Nat /\ Total(wire[x]) \in Nat
  BY TheEnds, Numbers
<1>2. Due(x)' = d[x].avail + Total(queue[x]) + w + n + f
  BY DEF Due
<1>3. Due(x) = d[x].avail + Total(queue[x]) + Total(wire[x])
                 + Noted(notes[Other(x)]) + refused[Other(x)]
  BY DEF Due
<1> QED
  BY <1>1, <1>2, <1>3

\* What an end can be told fits into the ring.
LEMMA RoomForReports ==
  ASSUME IInv, NEW e \in Ends
  PROVE  d[e].avail + Total(queue[e]) <= Capacity
<1> Capacity \in Nat \ {0} /\ TypeOK
  BY Capacities DEF IInv
<1>0. /\ written \in Nat /\ Len(delivered) \in Nat
      /\ \A x \in Ends : /\ d[x].avail \in Nat /\ refused[x] \in Nat
                         /\ Noted(notes[x]) \in Nat /\ Total(wire[x]) \in Nat
                         /\ Total(queue[x]) \in Nat
  BY Numbers
<1>1. CASE d[e].closed
  BY <1>0, <1>1, TotalEmpty DEF IInv, Lifecycle, TypeOK
<1>2. CASE ~d[e].closed
  <2>1. Due(e) <= Capacity
    <3>1. CASE e = "producer"
      BY <1>0, <1>2, <3>1 DEF IInv, FreeAccount, InFlight
    <3>2. CASE e = "consumer"
      BY <1>0, <1>2, <3>2 DEF IInv, WrittenAccount, InFlight
    <3> QED
      BY <3>1, <3>2, TheEnds
  <2>2. refused[Other(e)] \in Nat /\ Noted(notes[Other(e)]) \in Nat
    BY <1>0, TheEnds
  <2> QED
    BY <1>0, <2>1, <2>2 DEF Due
<1> QED
  BY <1>1, <1>2

\* A step that changes neither what was written nor what was read keeps the
\* accounts if every end that is open has the same due.
LEMMA AccountsKept ==
  ASSUME IInv, UNCHANGED <<written, delivered>>,
         \A x \in Ends :
           ~d'[x].closed => ~d[x].closed /\ Due(x)' = Due(x)
  PROVE  WrittenAccount' /\ FreeAccount'
<1>1. WrittenAccount'
  BY TheEnds DEF IInv, WrittenAccount
<1>2. FreeAccount'
  BY TheEnds DEF IInv, FreeAccount
<1> QED
  BY <1>1, <1>2

-----------------------------------------------------------------------------
(* The ring buffer.                                                        *)

\* Filled puts the next n bytes at their positions and leaves the ones alone
\* that were written less than a turn before the last of them.
LEMMA FilledIs ==
  ASSUME buf \in [0..(Capacity - 1) -> Nat], written \in Nat,
         NEW n \in 0..Capacity
  PROVE  /\ Filled(written % Capacity, n) \in [0..(Capacity - 1) -> Nat]
         /\ \A k \in 0..(n - 1) :
              Filled(written % Capacity, n)[(written + k) % Capacity]
                = written + k + 1
         /\ \A b \in Nat : b < written /\ written + n <= b + Capacity =>
              Filled(written % Capacity, n)[b % Capacity] = buf[b % Capacity]
<1> DEFINE from == written % Capacity
           K == [i \in 0..(Capacity - 1) |-> (i + Capacity - from) % Capacity]
           F == Filled(from, n)
<1>1. Capacity \in Nat \ {0} /\ from \in 0..(Capacity - 1)
  BY Capacities, DivMod
<1>2. \A i \in 0..(Capacity - 1) :
        F[i] = IF K[i] < n THEN written + K[i] + 1 ELSE buf[i]
  BY DEF Filled
<1>3. \A i \in 0..(Capacity - 1) :
        K[i] \in 0..(Capacity - 1) /\ (written + K[i]) % Capacity = i
  BY <1>1, CellOf
<1>4. F = [i \in 0..(Capacity - 1) |-> F[i]]
  BY DEF Filled
<1> HIDE DEF K, F, from
<1>5. F \in [0..(Capacity - 1) -> Nat]
  <2>1. \A i \in 0..(Capacity - 1) : K[i] \in Nat /\ buf[i] \in Nat
    BY <1>1, <1>3
  <2>2. \A i \in 0..(Capacity - 1) : F[i] \in Nat
    BY <1>2, <2>1
  <2> QED
    BY <1>4, <2>2
<1>6. ASSUME NEW k \in 0..(n - 1)
      PROVE  F[(written + k) % Capacity] = written + k + 1
  <2> DEFINE i == (written + k) % Capacity
             j == K[i]
  <2>1. i \in 0..(Capacity - 1) /\ written + k \in Nat
    BY <1>1, DivMod
  <2>2. j \in 0..(Capacity - 1) /\ (written + j) % Capacity = i
    BY <2>1, <1>3
  <2> HIDE DEF j
  <2>3. j = k
    <3> DEFINE x == written + j
               y == written + k
    <3>1. x \in Nat /\ y \in Nat /\ x - y < Capacity /\ y - x < Capacity
      BY <1>1, <2>2
    <3>2. x % Capacity = y % Capacity
      BY <2>2
    <3> HIDE DEF x, y
    <3>3. x = y
      BY <3>1, <3>2, <1>1, SameCell
    <3> QED
      BY <3>3, <2>2 DEF x, y
  <2>4. F[i] = IF j < n THEN written + j + 1 ELSE buf[i]
    BY <1>2, <2>1 DEF j
  <2> QED
    BY <2>3, <2>4
<1>7. ASSUME NEW b \in Nat, b < written, written + n <= b + Capacity
      PROVE  F[b % Capacity] = buf[b % Capacity]
  <2> DEFINE i == b % Capacity
             j == K[i]
  <2>1. i \in 0..(Capacity - 1)
    BY <1>1, DivMod
  <2>2. j \in 0..(Capacity - 1) /\ (written + j) % Capacity = i
    BY <2>1, <1>3
  <2>3. F[i] = IF j < n THEN written + j + 1 ELSE buf[i]
    BY <1>2, <2>1
  <2> HIDE DEF j
  <2>4. ~(j < n)
    <3>1. written + j \in Nat /\ b < written + j
      BY <1>7, <2>2, <1>1
    <3>2. (written + j) - b >= Capacity
      BY <3>1, <2>2, <1>1, ModApart
    <3> QED
      BY <3>1, <3>2, <1>1, <1>7, <2>2
  <2> QED
    BY <2>3, <2>4
<1> QED
  BY <1>5, <1>6, <1>7 DEF F, from

\* What the consumer takes are the next bytes in order.
LEMMA BytesAre ==
  ASSUME Contents, written \in Nat, delivered \in Seq(Nat), NEW n \in Nat,
         Len(delivered) + n <= written
  PROVE  Bytes(Len(delivered) % Capacity, n)
           = [i \in 1..n |-> Len(delivered) + i]
<1>1. ASSUME NEW i \in 1..n
      PROVE  buf[((Len(delivered) % Capacity) + i - 1) % Capacity]
               = Len(delivered) + i
  <2> DEFINE x == Len(delivered)
             k == i - 1
             b == x + i
  <2>1. x \in Nat /\ k \in Nat /\ b \in (x + 1)..written /\ b - 1 = x + k
    OBVIOUS
  <2>2. buf[(b - 1) % Capacity] = b
    BY <2>1 DEF Contents
  <2>3. ((x % Capacity) + k) % Capacity = (x + k) % Capacity
    BY <2>1, Capacities, ModAdd
  <2>4. (x % Capacity) + k = (x % Capacity) + i - 1
    <3>1. x % Capacity \in Nat
      BY <2>1, Capacities, DivMod
    <3> QED
      BY <3>1
  <2> HIDE DEF x, k, b
  <2>5. buf[((x % Capacity) + i - 1) % Capacity] = b
    BY <2>1, <2>2, <2>3, <2>4
  <2> QED
    BY <2>5 DEF x, b
<1> QED
  BY <1>1 DEF Bytes

\* They continue the bytes it has.
LEMMA OrderedConcat ==
  ASSUME Ordered, delivered \in Seq(Nat), NEW n \in Nat,
         NEW s, s = [i \in 1..n |-> Len(delivered) + i]
  PROVE  /\ delivered \o s \in Seq(Nat)
         /\ Len(delivered \o s) = Len(delivered) + n
         /\ delivered \o s = [i \in 1..(Len(delivered) + n) |-> i]
<1> DEFINE m == Len(delivered)
           t == delivered \o s
<1>1. m \in Nat
  OBVIOUS
<1>2. s \in [1..n -> Nat] /\ \A i \in 1..n : s[i] = m + i
  BY <1>1
<1>3. s \in Seq(Nat) /\ Len(s) = n
  <2>1. s \in Seq(Nat)
    BY <1>2, SeqDef
  <2> QED
    BY <1>2, <2>1
<1>4. /\ t \in Seq(Nat) /\ Len(t) = m + n
      /\ \A k \in 1..m : t[k] = delivered[k]
      /\ \A k \in (m + 1)..(m + n) : t[k] = s[k - m]
  BY <1>3, ConcatAt
<1>5. \A k \in 1..m : delivered[k] = k
  BY <1>1 DEF Ordered
<1> HIDE DEF t, m
<1>6. ASSUME NEW k \in 1..(m + n) PROVE t[k] = k
  <2>1. CASE k \in 1..m
    BY <2>1, <1>4, <1>5
  <2>2. CASE k \notin 1..m
    <3>1. k \in (m + 1)..(m + n) /\ k - m \in 1..n /\ m + (k - m) = k
      BY <2>2, <1>1
    <3> QED
      BY <3>1, <1>2, <1>4
  <2> QED
    BY <2>1, <2>2
<1>7. t = [k \in 1..(m + n) |-> t[k]]
  BY <1>1, <1>4
<1>8. t = [k \in 1..(m + n) |-> k]
  BY <1>6, <1>7
<1> QED
  BY <1>4, <1>8 DEF t, m

-----------------------------------------------------------------------------
(* Init establishes the invariant.                                         *)

\* The pipe as it is created.
LEMMA InitInv == Init => IInv
<1> SUFFICES ASSUME Init PROVE IInv
  OBVIOUS
<1>1. TypeOK
  BY Capacities DEF Init, TypeOK, New, Dispatcher, Gone, Leaving, Waiting, Ends
<1>2. Lifecycle /\ InFlight /\ Contents /\ TwoPhase /\ Granted /\ Told
  BY Capacities DEF Init, New, Ends, Lifecycle, InFlight, Contents, TwoPhase,
     Granted, Told
<1>3. WrittenAccount /\ FreeAccount
  BY Capacities, TheEnds, TotalEmpty, NotedEmpty
  DEF Init, New, WrittenAccount, FreeAccount, Due
<1>4. Offsets
  BY Capacities, TheEnds DEF Init, New, Offsets
<1>5. Ordered
  BY DEF Init, Ordered
<1> QED
  BY <1>1, <1>2, <1>3, <1>4, <1>5 DEF IInv

-----------------------------------------------------------------------------
(* The steps that leave bytes, counts and notes alone.                     *)

\* Everything but TypeOK depends on these variables only.
core == <<d, buf, notes, wire, queue, peerShut, away, written, delivered, refused>>

\* Steps that change nothing but awakables and status changes.
LEMMA SameCore ==
  ASSUME IInv, NEW e \in Ends, UNCHANGED core, TypeOK'
  PROVE  IInv' /\ Calm(e)
<1>1. Lifecycle'
  BY DEF core, IInv, Lifecycle
<1>2. InFlight' /\ Offsets' /\ Contents' /\ Ordered'
  BY DEF core, IInv, InFlight, Offsets, Contents, Ordered
<1>3. WrittenAccount' /\ FreeAccount'
  BY DEF core, IInv, WrittenAccount, FreeAccount, Due
<1>4. TwoPhase' /\ Granted'
  BY DEF core, IInv, TwoPhase, Granted, Ending
<1>5. Told'
  BY DEF core, IInv, Told
<1>6. Calm(e)
  BY DEF core, Calm, Unclosed
<1> QED
  BY <1>1, <1>2, <1>3, <1>4, <1>5, <1>6 DEF IInv

\* AwakeForStateChange leaves an awakable, or none.
LEMMA AwakeType ==
  ASSUME NEW e, NEW r, NEW w \in Waiting
  PROVE  AwakeForStateChange(e, r, w) \in Waiting
BY DEF AwakeForStateChange, Waiting

\* A status change that the sender's dispatcher still gets is without effect.
LEMMA LateStatusChangedInv ==
  ASSUME IInv, NEW e \in Ends, LateStatusChanged(e)
  PROVE  IInv' /\ Calm(e)
<1>1. TypeOK /\ leaving[e] \in Leaving
  BY DEF IInv, TypeOK
<1> DEFINE w == AwakeForStateChange(e, [d[e] EXCEPT !.peerClosed = TRUE],
                                    leaving[e].wait)
<1>2. w \in Waiting
  BY <1>1, AwakeType DEF Leaving
<1>3. leaving' = [leaving EXCEPT ![e] = [@ EXCEPT !.event = FALSE, !.wait = w]]
  BY <1>1 DEF LateStatusChanged, TypeOK
<1> HIDE DEF w
<1>4. leaving' \in [Ends -> Leaving]
  BY <1>1, <1>2, <1>3 DEF TypeOK, Leaving
<1>5. TypeOK' /\ UNCHANGED core
  BY <1>1, <1>4 DEF TypeOK, LateStatusChanged, core
<1> QED
  BY <1>5, SameCore

\* A wait that is given up.
LEMMA RemoveAwakableInv ==
  ASSUME IInv, NEW e \in Ends, RemoveAwakable(e)
  PROVE  IInv' /\ Calm(e)
<1>1. TypeOK' /\ UNCHANGED core
  BY DEF IInv, TypeOK, RemoveAwakable, core, Waiting
<1> QED
  BY <1>1, SameCore

\* The sender's dispatcher goes.
LEMMA CompleteTransitAndCloseInv ==
  ASSUME IInv, NEW e \in Ends, CompleteTransitAndClose(e)
  PROVE  IInv' /\ Calm(e)
<1>1. TypeOK' /\ UNCHANGED core
  BY DEF IInv, TypeOK, CompleteTransitAndClose, core, Gone, Leaving, Waiting
<1> QED
  BY <1>1, SameCore

-----------------------------------------------------------------------------
(* The steps that change an end's view of its port.                        *)

\* r is the dispatcher of e, perhaps with a transit given up.
LEMMA UpdateInv ==
  ASSUME IInv, NEW e \in Ends, NEW r \in Dispatcher,
         r = [d[e] EXCEPT !.inTransit = r.inTransit],
         r.inTransit => d[e].inTransit,
         Update(e, r), wait' \in [Ends -> Waiting], event' \subseteq Ends,
         UNCHANGED <<buf, notes, wire, peerShut, away, leaving, moves, written,
                     delivered, refused>>
  PROVE  IInv' /\ Calm(e)
<1> DEFINE s == Updated(e, r)
           u == Unread(e, r)
<1>1. TypeOK /\ Capacity \in Nat
  BY Capacities DEF IInv
<1>2. /\ r.avail = d[e].avail /\ r.closed = d[e].closed /\ r.ring = d[e].ring
      /\ r.peerClosed = d[e].peerClosed /\ r.offset = d[e].offset
      /\ r.inTwoPhase = d[e].inTwoPhase /\ r.max = d[e].max
  BY <1>1 DEF TypeOK, Dispatcher
<1>3. r.avail + Total(queue[e]) <= Capacity /\ queue[e] \in Seq(Nat)
  BY <1>1, <1>2, RoomForReports DEF TypeOK
<1>4. /\ s \in Dispatcher
      /\ s = [r EXCEPT !.avail = s.avail, !.peerClosed = s.peerClosed]
      /\ s.avail + Total(u) = r.avail + Total(queue[e])
      /\ s.avail >= r.avail
      /\ u \in {queue[e], <<>>}
      /\ r.peerClosed => s.peerClosed
      /\ s.peerClosed => \/ r.peerClosed
                         \/ e \in peerShut /\ wire[e] = <<>> /\ u = <<>>
  BY <1>3, UpdatedIs
<1>5. d' = [d EXCEPT ![e] = s] /\ queue' = [queue EXCEPT ![e] = u]
  BY DEF Update
<1> HIDE DEF s, u
<1>6. /\ s.closed = d[e].closed /\ s.ring = d[e].ring /\ s.offset = d[e].offset
      /\ s.inTwoPhase = d[e].inTwoPhase /\ s.max = d[e].max
      /\ s.inTransit => d[e].inTransit
      /\ s.avail \in Nat /\ s.avail >= d[e].avail
  BY <1>2, <1>4 DEF Dispatcher
<1>7. u \in Seq(Nat) /\ Total(u) \in Nat /\ Total(queue[e]) \in Nat
  <2>1. u = queue[e] \/ u = <<>>
    BY <1>4
  <2>2. u \in Seq(Nat)
    <3>1. <<>> \in Seq(Nat) /\ queue[e] \in Seq(Nat)
      BY <1>3
    <3> QED
      BY <2>1, <3>1, Zenon
  <2> QED
    BY <1>3, <2>2, TotalType
<1>8. d'[e] = s /\ queue'[e] = u
  BY <1>1, <1>5 DEF TypeOK
<1>9. \A x \in Ends : x # e => d'[x] = d[x] /\ queue'[x] = queue[x]
  BY <1>1, <1>5 DEF TypeOK
<1>10. TypeOK'
  <2>1. d' \in [Ends -> Dispatcher] /\ queue' \in [Ends -> Seq(Nat)]
    BY <1>1, <1>4, <1>5, <1>7 DEF TypeOK
  <2>2. s.avail <= Capacity
    BY <1>3, <1>4, <1>6, <1>7, <1>1
  <2>3. \A x \in Ends : d'[x].offset < Capacity /\ d'[x].avail <= Capacity
    BY <1>1, <1>6, <1>8, <1>9, <2>2 DEF TypeOK
  <2> QED
    BY <1>1, <2>1, <2>3 DEF TypeOK
<1>11. Lifecycle'
  <2>1. \A x \in Ends : /\ d'[x].closed = d[x].closed /\ d'[x].ring = d[x].ring
                        /\ d'[x].inTwoPhase = d[x].inTwoPhase
                        /\ d'[x].inTransit => d[x].inTransit
                        /\ queue[x] = <<>> => queue'[x] = <<>>
    BY <1>4, <1>6, <1>8, <1>9
  <2> QED
    BY <2>1, TheEnds DEF IInv, Lifecycle
<1>12. InFlight' /\ Offsets' /\ Contents' /\ Ordered'
  <2>1. \A x \in Ends : d'[x].offset = d[x].offset
    BY <1>6, <1>8, <1>9
  <2> QED
    BY <2>1, TheEnds DEF IInv, InFlight, Offsets, Contents, Ordered
<1>13. WrittenAccount' /\ FreeAccount'
  <2>1. ASSUME NEW x \in Ends
        PROVE  d'[x].closed = d[x].closed /\ Due(x)' = Due(x)
    <3>1. /\ Other(x) \in Ends /\ d[x].avail \in Nat /\ Total(wire[x]) \in Nat
          /\ Total(queue[x]) \in Nat /\ Noted(notes[Other(x)]) \in Nat
          /\ refused[Other(x)] \in Nat
      BY <1>1, TheEnds, Numbers
    <3>2. /\ d'[x].avail + Total(queue'[x]) = d[x].avail + Total(queue[x])
          /\ d'[x].avail \in Nat /\ Total(queue'[x]) \in Nat
      BY <3>1, <1>2, <1>4, <1>6, <1>7, <1>8, <1>9
    <3>3. d'[x].closed = d[x].closed
      BY <1>6, <1>8, <1>9
    <3> QED
      BY <3>1, <3>2, <3>3 DEF Due
  <2> QED
    BY <2>1, AccountsKept
<1>14. TwoPhase' /\ Granted'
  <2>1. \A x \in Ends : /\ d'[x].inTwoPhase = d[x].inTwoPhase
                        /\ d'[x].max = d[x].max
                        /\ d'[x].avail >= d[x].avail
                        /\ d'[x].avail \in Nat /\ d[x].avail \in Nat
                        /\ d[x].max \in Nat
    <3> SUFFICES ASSUME NEW x \in Ends
                 PROVE  /\ d'[x].inTwoPhase = d[x].inTwoPhase
                        /\ d'[x].max = d[x].max
                        /\ d'[x].avail >= d[x].avail
                        /\ d'[x].avail \in Nat /\ d[x].avail \in Nat
                        /\ d[x].max \in Nat
      OBVIOUS
    <3>1. d[x].avail \in Nat /\ d[x].max \in Nat
      BY <1>1, Numbers
    <3>2. CASE x = e
      BY <3>1, <3>2, <1>6, <1>8
    <3>3. CASE x # e
      BY <3>1, <3>3, <1>9
    <3> QED
      BY <3>2, <3>3
  <2>2. \A x \in Ends : Ending(x)' <=> Ending(x)
    BY DEF Ending
  <2>3. TwoPhase'
    BY <2>1, <2>2 DEF IInv, TwoPhase
  <2>4. Granted'
    BY <2>1, <2>2, TheEnds DEF IInv, Granted
  <2> QED
    BY <2>3, <2>4
<1>15. Told'
  <2>1. \A x \in Ends : d'[x].closed = d[x].closed
    BY <1>6, <1>8, <1>9
  <2>2. ASSUME NEW x \in Ends, d'[x].peerClosed PROVE d'[Other(x)].closed
    BY <2>1, <2>2, <1>2, <1>4, <1>8, <1>9, TheEnds DEF IInv, Told, Lifecycle
  <2>3. ASSUME d'["consumer"].peerClosed, ~d'["consumer"].closed
        PROVE  /\ "consumer" \in peerShut'
               /\ wire'["consumer"] = <<>>
               /\ queue'["consumer"] = <<>>
    BY <2>1, <2>3, <1>2, <1>4, <1>8, <1>9, TheEnds DEF IInv, Told
  <2> QED
    BY <2>2, <2>3 DEF Told
<1>16. Calm(e)
  <2>1. Unclosed
    BY <1>6, <1>8, <1>9 DEF Unclosed
  <2> QED
    BY <1>2, <1>4, <1>8, <1>9, <2>1 DEF Calm
<1> QED
  BY <1>10, <1>11, <1>12, <1>13, <1>14, <1>15, <1>16 DEF IInv

\* OnPortStatusChanged adds to avail what it takes from the queue.
LEMMA OnPortStatusChangedInv ==
  ASSUME IInv, NEW e \in Ends, OnPortStatusChanged(e)
  PROVE  IInv' /\ Calm(e)
<1>1. TypeOK /\ d[e] \in Dispatcher /\ wait[e] \in Waiting
  BY DEF IInv, TypeOK
<1>2. Woken(e, d[e], wait[e]) \in Waiting
  BY <1>1, AwakeType DEF Woken
<1>3. wait' \in [Ends -> Waiting] /\ event' \subseteq Ends
  BY <1>1, <1>2 DEF OnPortStatusChanged, TypeOK
<1>4. d[e] = [d[e] EXCEPT !.inTransit = d[e].inTransit]
  BY <1>1 DEF Dispatcher
<1> QED
  BY <1>1, <1>3, <1>4, UpdateInv DEF OnPortStatusChanged

\* So does AddAwakable.
LEMMA AddAwakableInv ==
  ASSUME IInv, NEW e \in Ends, NEW s \in Waiting, AddAwakable(e, s)
  PROVE  IInv' /\ Calm(e)
<1>1. TypeOK /\ d[e] \in Dispatcher /\ wait[e] \in Waiting
  BY DEF IInv, TypeOK
<1>2. wait' \in [Ends -> Waiting] /\ event' \subseteq Ends
  BY <1>1 DEF AddAwakable, TypeOK, Waiting
<1>3. d[e] = [d[e] EXCEPT !.inTransit = d[e].inTransit]
  BY <1>1 DEF Dispatcher
<1> QED
  BY <1>1, <1>2, <1>3, UpdateInv DEF AddAwakable

-----------------------------------------------------------------------------
(* Transits.                                                               *)

\* A step that changes the flags of the dispatcher of e, sets it on its way or
\* has the rest of its notifications refused.
LEMMA FlagsInv ==
  ASSUME IInv, NEW e \in Ends, NEW r \in Dispatcher,
         d' = [d EXCEPT ![e] = r],
         r.avail = d[e].avail, r.offset = d[e].offset,
         r.closed = d[e].closed, r.peerClosed = d[e].peerClosed,
         r.inTwoPhase => d[e].inTwoPhase /\ r.max = d[e].max
                           /\ notes'[e] = notes[e],
         r.ring \/ r.inTransit \/ e \in away' => ~r.closed,
         r.inTransit \/ e \in away' => ~r.inTwoPhase,
         \A x \in Ends : x # e => /\ x \in away' <=> x \in away
                                  /\ notes'[x] = notes[x]
                                  /\ refused'[x] = refused[x],
         notes'[e] \in {notes[e], <<>>},
         Noted(notes'[e]) + refused'[e] = Noted(notes[e]) + refused[e],
         notes' \in [Ends -> Seq(Note)], refused' \in [Ends -> Nat],
         event' \subseteq Ends, away' \subseteq Ends,
         wait' \in [Ends -> Waiting], leaving' \in [Ends -> Leaving],
         moves' \in Nat,
         UNCHANGED <<buf, wire, queue, peerShut, written, delivered>>
  PROVE  IInv' /\ Calm(e)
<1>1. TypeOK
  BY DEF IInv
<1>2. d'[e] = r /\ \A x \in Ends : x # e => d'[x] = d[x]
  BY <1>1 DEF TypeOK
<1>3. \A x \in Ends : /\ d'[x].avail = d[x].avail /\ d'[x].offset = d[x].offset
                      /\ d'[x].closed = d[x].closed
                      /\ d'[x].peerClosed = d[x].peerClosed
  BY <1>2
<1>4. TypeOK'
  <2>1. d' \in [Ends -> Dispatcher]
    BY <1>1 DEF TypeOK
  <2> QED
    BY <1>1, <1>3, <2>1 DEF TypeOK
<1>5. Lifecycle'
  <2> SUFFICES ASSUME NEW x \in Ends
               PROVE  /\ d'[x].closed => /\ notes'[x] = <<>> /\ wire'[x] = <<>>
                                         /\ queue'[x] = <<>>
                      /\ x \in peerShut' => d'[Other(x)].closed
                      /\ d'[x].ring \/ d'[x].inTransit \/ x \in away'
                           => ~d'[x].closed
                      /\ d'[x].inTransit \/ x \in away' => ~d'[x].inTwoPhase
    BY DEF Lifecycle
  <2>1. d[x].closed => /\ notes[x] = <<>> /\ wire[x] = <<>> /\ queue[x] = <<>>
    BY DEF IInv, Lifecycle
  <2>2. x \in peerShut' => d'[Other(x)].closed
    BY <1>3, TheEnds DEF IInv, Lifecycle
  <2>3. notes'[x] = notes[x] \/ notes'[x] = <<>>
    OBVIOUS
  <2>4. CASE x = e
    BY <1>2, <1>3, <2>1, <2>2, <2>3, <2>4
  <2>5. CASE x # e
    BY <1>2, <1>3, <2>1, <2>2, <2>3, <2>5 DEF IInv, Lifecycle
  <2> QED
    BY <2>4, <2>5
<1>6. InFlight' /\ Offsets' /\ Contents' /\ Ordered'
  BY <1>3, TheEnds DEF IInv, InFlight, Offsets, Contents, Ordered
<1>7. WrittenAccount' /\ FreeAccount'
  <2>1. ASSUME NEW x \in Ends PROVE Due(x)' = Due(x)
    <3>1. /\ Other(x) \in Ends /\ Noted(notes[Other(x)]) \in Nat
          /\ refused[Other(x)] \in Nat /\ d[x].avail \in Nat
          /\ Total(queue[x]) \in Nat /\ Total(wire[x]) \in Nat
      BY <1>1, TheEnds, Numbers
    <3>2. Noted(notes'[Other(x)]) \in Nat /\ refused'[Other(x)] \in Nat
      BY <3>1, NotedType
    <3>3. Total(wire'[x]) + Noted(notes'[Other(x)]) + refused'[Other(x)]
            = Total(wire[x]) + Noted(notes[Other(x)]) + refused[Other(x)]
      <4>1. Noted(notes'[Other(x)]) + refused'[Other(x)]
              = Noted(notes[Other(x)]) + refused[Other(x)]
        BY <3>1
      <4> DEFINE w == Total(wire[x])
                 n == Noted(notes[Other(x)])
                 f == refused[Other(x)]
                 m == Noted(notes'[Other(x)])
                 g == refused'[Other(x)]
      <4>2. w \in Nat /\ n \in Nat /\ f \in Nat /\ m \in Nat /\ g \in Nat
              /\ m + g = n + f
        BY <3>1, <3>2, <4>1
      <4> HIDE DEF w, n, f, m, g
      <4>3. w + m + g = w + n + f
        BY <4>2
      <4> QED
        BY <4>3 DEF w, n, f, m, g
    <3> QED
      BY <1>1, <1>3, <3>1, <3>2, <3>3, DueSame
  <2> QED
    BY <1>3, <2>1, AccountsKept
<1>8. TwoPhase' /\ Granted'
  <2>1. \A x \in Ends : d'[x].inTwoPhase => /\ d[x].inTwoPhase
                                            /\ d'[x].max = d[x].max
                                            /\ Ending(x)' <=> Ending(x)
    BY <1>2 DEF Ending
  <2>2. TwoPhase'
    BY <1>3, <2>1 DEF IInv, TwoPhase
  <2>3. Granted'
    BY <2>1, TheEnds DEF IInv, Granted
  <2> QED
    BY <2>2, <2>3
<1>9. Told'
  BY <1>3, TheEnds DEF IInv, Told
<1>10. Calm(e)
  BY <1>3 DEF Calm, Unclosed
<1> QED
  BY <1>4, <1>5, <1>6, <1>7, <1>8, <1>9, <1>10 DEF IInv

\* BeginTransit sets a flag.
LEMMA BeginTransitInv ==
  ASSUME IInv, NEW e \in Ends, BeginTransit(e)
  PROVE  IInv' /\ Calm(e)
<1> DEFINE r == [d[e] EXCEPT !.inTransit = TRUE]
<1>1. TypeOK /\ d[e] \in Dispatcher
  BY DEF IInv, TypeOK
<1>2. /\ r \in Dispatcher /\ r.inTransit = TRUE
      /\ r.avail = d[e].avail /\ r.offset = d[e].offset
      /\ r.closed = d[e].closed /\ r.peerClosed = d[e].peerClosed
      /\ r.inTwoPhase = d[e].inTwoPhase /\ r.max = d[e].max /\ r.ring = d[e].ring
  BY <1>1 DEF Dispatcher
<1>3. d' = [d EXCEPT ![e] = r]
  BY <1>1 DEF BeginTransit, TypeOK
<1> HIDE DEF r
<1>4. ~d[e].closed /\ ~d[e].inTwoPhase
  BY DEF BeginTransit
<1>5. /\ event' \subseteq Ends /\ away' \subseteq Ends
      /\ wait' \in [Ends -> Waiting] /\ leaving' \in [Ends -> Leaving]
      /\ moves' \in Nat /\ notes' \in [Ends -> Seq(Note)]
      /\ refused' \in [Ends -> Nat]
  BY <1>1 DEF BeginTransit, TypeOK
<1>6. UNCHANGED <<away, notes, refused, buf, wire, queue, peerShut, written,
                  delivered>>
  BY DEF BeginTransit
<1> QED
  BY <1>2, <1>3, <1>4, <1>5, <1>6, FlagsInv

\* CancelTransit resets it; the consumer catches up.
LEMMA CancelTransitInv ==
  ASSUME IInv, NEW e \in Ends, CancelTransit(e)
  PROVE  IInv' /\ Calm(e)
<1> DEFINE r == [d[e] EXCEPT !.inTransit = FALSE]
<1>1. TypeOK /\ d[e] \in Dispatcher /\ wait[e] \in Waiting
  BY DEF IInv, TypeOK
<1>2. /\ r \in Dispatcher /\ r.inTransit = FALSE
      /\ r.avail = d[e].avail /\ r.offset = d[e].offset
      /\ r.closed = d[e].closed /\ r.peerClosed = d[e].peerClosed
      /\ r.inTwoPhase = d[e].inTwoPhase /\ r.max = d[e].max /\ r.ring = d[e].ring
      /\ r = [d[e] EXCEPT !.inTransit = r.inTransit]
  BY <1>1 DEF Dispatcher
<1>3. d[e].inTransit
  BY DEF CancelTransit
<1>4. UNCHANGED <<away, notes, refused, buf, wire, peerShut, written, delivered,
                  event, leaving, moves>>
  BY DEF CancelTransit
<1>5. CASE e = "consumer"
  <2>1. Update(e, r) /\ wait' = [wait EXCEPT ![e] = Woken(e, r, @)]
    BY <1>5 DEF CancelTransit
  <2> HIDE DEF r
  <2>2. Woken(e, r, wait[e]) \in Waiting
    BY <1>1, AwakeType DEF Woken
  <2>3. wait' \in [Ends -> Waiting] /\ event' \subseteq Ends
    BY <1>1, <1>4, <2>1, <2>2 DEF TypeOK
  <2> QED
    BY <1>2, <1>4, <2>1, <2>3, UpdateInv
<1>6. CASE e = "producer"
  <2>1. /\ d' = [d EXCEPT ![e] = r] /\ queue' = queue
        /\ wait' = [wait EXCEPT ![e] = AwakeForStateChange(e, r, @)]
    BY <1>6 DEF CancelTransit
  <2> HIDE DEF r
  <2>2. AwakeForStateChange(e, r, wait[e]) \in Waiting
    BY <1>1, AwakeType
  <2>3. /\ event' \subseteq Ends /\ away' \subseteq Ends
        /\ wait' \in [Ends -> Waiting] /\ leaving' \in [Ends -> Leaving]
        /\ moves' \in Nat /\ notes' \in [Ends -> Seq(Note)]
        /\ refused' \in [Ends -> Nat]
    BY <1>1, <1>4, <2>1, <2>2 DEF TypeOK
  <2>4. ~d[e].closed /\ ~d[e].inTwoPhase
    BY <1>3 DEF IInv, Lifecycle
  <2> QED
    BY <1>2, <1>4, <2>1, <2>3, <2>4, FlagsInv
<1> QED
  BY <1>5, <1>6, TheEnds

\* EndSerialize: what the calls under way would have told is refused.
LEMMA EndSerializeInv ==
  ASSUME IInv, NEW e \in Ends, EndSerialize(e)
  PROVE  IInv' /\ Calm(e)
<1> DEFINE r == [d[e] EXCEPT !.inTransit = FALSE]
<1>1. /\ TypeOK /\ d[e] \in Dispatcher /\ wait[e] \in Waiting
      /\ Noted(notes[e]) \in Nat /\ refused[e] \in Nat
  BY Numbers DEF IInv, TypeOK
<1>2. /\ r \in Dispatcher /\ r.inTransit = FALSE
      /\ r.avail = d[e].avail /\ r.offset = d[e].offset
      /\ r.closed = d[e].closed /\ r.peerClosed = d[e].peerClosed
      /\ r.inTwoPhase = d[e].inTwoPhase /\ r.max = d[e].max /\ r.ring = d[e].ring
  BY <1>1 DEF Dispatcher
<1>3. d' = [d EXCEPT ![e] = r]
  BY <1>1 DEF EndSerialize, TypeOK
<1> HIDE DEF r
<1>4. ~d[e].closed /\ ~d[e].inTwoPhase
  BY DEF EndSerialize, IInv, Lifecycle
<1>5. /\ event' \subseteq Ends /\ away' \subseteq Ends
      /\ wait' \in [Ends -> Waiting] /\ moves' \in Nat
      /\ notes' \in [Ends -> Seq(Note)] /\ refused' \in [Ends -> Nat]
  BY <1>1 DEF EndSerialize, TypeOK, Waiting
<1>6. leaving' \in [Ends -> Leaving]
  <2>1. [on |-> TRUE, wait |-> wait[e], event |-> e \in event] \in Leaving
    BY <1>1 DEF Leaving
  <2> QED
    BY <1>1, <2>1 DEF EndSerialize, TypeOK
<1>7. notes'[e] = <<>> /\ refused'[e] = refused[e] + Noted(notes[e])
  BY <1>1 DEF EndSerialize, TypeOK
<1>8. Noted(notes'[e]) + refused'[e] = Noted(notes[e]) + refused[e]
  BY <1>1, <1>7, NotedEmpty
<1>9. \A x \in Ends : x # e => /\ x \in away' <=> x \in away
                               /\ notes'[x] = notes[x]
                               /\ refused'[x] = refused[x]
  BY <1>1 DEF EndSerialize, TypeOK
<1>10. UNCHANGED <<buf, wire, queue, peerShut, written, delivered>>
  BY DEF EndSerialize
<1> QED
  BY <1>2, <1>3, <1>4, <1>5, <1>6, <1>7, <1>8, <1>9, <1>10, FlagsInv

\* Deserialize: the new dispatcher has the numbers of the old one.
LEMMA DeserializeInv ==
  ASSUME IInv, NEW e \in Ends, NEW mapped \in BOOLEAN, Deserialize(e, mapped)
  PROVE  IInv' /\ Calm(e)
<1> DEFINE r == New(e, d[e].offset, d[e].avail, d[e].peerClosed, mapped)
<1>1. TypeOK /\ d[e] \in Dispatcher
  BY DEF IInv, TypeOK
<1>2. /\ r \in Dispatcher /\ r.inTransit = FALSE /\ r.inTwoPhase = FALSE
      /\ r.avail = d[e].avail /\ r.offset = d[e].offset
      /\ r.closed = FALSE /\ r.peerClosed = d[e].peerClosed
  BY <1>1 DEF Dispatcher, New
<1>3. d' = [d EXCEPT ![e] = r]
  BY <1>1 DEF Deserialize, TypeOK
<1> HIDE DEF r
<1>4. d[e].closed = FALSE
  BY <1>1 DEF Deserialize, IInv, Lifecycle, Dispatcher
<1>5. /\ event' \subseteq Ends /\ away' \subseteq Ends
      /\ wait' \in [Ends -> Waiting] /\ leaving' \in [Ends -> Leaving]
      /\ moves' \in Nat /\ notes' \in [Ends -> Seq(Note)]
      /\ refused' \in [Ends -> Nat]
  BY <1>1 DEF Deserialize, TypeOK
<1>6. /\ away' = away \ {e}
      /\ UNCHANGED <<notes, refused, buf, wire, queue, peerShut, written,
                     delivered>>
  BY DEF Deserialize
<1> QED
  BY <1>2, <1>3, <1>4, <1>5, <1>6, FlagsInv

-----------------------------------------------------------------------------
(* Closing.                                                                *)

\* CloseNoLock; the books of the other end still balance.
LEMMA CloseInv ==
  ASSUME IInv, NEW e \in Ends, Close(e)
  PROVE  IInv' /\ Shut(e)
<1> DEFINE r == [d[e] EXCEPT !.closed = TRUE, !.ring = FALSE,
                             !.inTwoPhase = @ /\ ~Ending(e)]
<1>1. /\ TypeOK /\ d[e] \in Dispatcher
      /\ Noted(notes[e]) \in Nat /\ refused[e] \in Nat
  BY Numbers DEF IInv, TypeOK
<1>2. Ending(e) \in BOOLEAN
  BY DEF Ending
<1>3. /\ r \in Dispatcher /\ r.closed = TRUE /\ r.ring = FALSE
      /\ r.inTransit = d[e].inTransit /\ r.inTwoPhase = (d[e].inTwoPhase /\ ~Ending(e))
      /\ r.avail = d[e].avail /\ r.offset = d[e].offset
      /\ r.peerClosed = d[e].peerClosed /\ r.max = d[e].max
  BY <1>1, <1>2 DEF Dispatcher
<1>4. d' = [d EXCEPT ![e] = r]
  BY <1>1 DEF Close, TypeOK
<1> HIDE DEF r
<1>5. d'[e] = r /\ \A x \in Ends : x # e => d'[x] = d[x]
  BY <1>1, <1>4 DEF TypeOK
<1>6. \A x \in Ends : /\ d'[x].avail = d[x].avail /\ d'[x].offset = d[x].offset
                      /\ d'[x].peerClosed = d[x].peerClosed
                      /\ d'[x].max = d[x].max
                      /\ d[x].closed => d'[x].closed
  BY <1>3, <1>5
<1>7. /\ notes'[e] = <<>> /\ wire'[e] = <<>> /\ queue'[e] = <<>>
      /\ \A x \in Ends : x # e => /\ notes'[x] = notes[x] /\ wire'[x] = wire[x]
                                  /\ queue'[x] = queue[x]
                                  /\ refused'[x] = refused[x]
      /\ refused'[e] = refused[e] + Noted(notes[e])
  BY <1>1 DEF Close, TypeOK
<1>8. UNCHANGED <<buf, peerShut, away, leaving, moves, written, delivered>>
  BY DEF Close
<1>9. TypeOK'
  <2>1. d' \in [Ends -> Dispatcher]
    BY <1>1, <1>3, <1>4 DEF TypeOK
  <2>2. /\ notes' \in [Ends -> Seq(Note)] /\ wire' \in [Ends -> Seq(Nat)]
        /\ queue' \in [Ends -> Seq(Nat)] /\ refused' \in [Ends -> Nat]
        /\ wait' \in [Ends -> Waiting] /\ event' \subseteq Ends
    BY <1>1 DEF Close, TypeOK, Waiting
  <2> QED
    BY <1>1, <1>6, <1>8, <2>1, <2>2 DEF TypeOK
<1>10. Lifecycle'
  <2>1. e \notin away /\ ~d[e].inTransit
    BY DEF Close
  <2> SUFFICES ASSUME NEW x \in Ends
               PROVE  /\ d'[x].closed => /\ notes'[x] = <<>> /\ wire'[x] = <<>>
                                         /\ queue'[x] = <<>>
                      /\ x \in peerShut' => d'[Other(x)].closed
                      /\ d'[x].ring \/ d'[x].inTransit \/ x \in away'
                           => ~d'[x].closed
                      /\ d'[x].inTransit \/ x \in away' => ~d'[x].inTwoPhase
    BY DEF Lifecycle
  <2>2. x \in peerShut' => d'[Other(x)].closed
    BY <1>6, <1>8, TheEnds DEF IInv, Lifecycle
  <2>3. CASE x = e
    BY <1>3, <1>5, <1>7, <1>8, <2>1, <2>2, <2>3
  <2>4. CASE x # e
    BY <1>5, <1>7, <1>8, <2>2, <2>4 DEF IInv, Lifecycle
  <2> QED
    BY <2>3, <2>4
<1>11. InFlight' /\ Offsets' /\ Contents' /\ Ordered'
  BY <1>6, <1>8, TheEnds DEF IInv, InFlight, Offsets, Contents, Ordered
<1>12. WrittenAccount' /\ FreeAccount'
  <2>1. ASSUME NEW x \in Ends, ~d'[x].closed
        PROVE  ~d[x].closed /\ Due(x)' = Due(x)
    <3>1. x # e /\ Other(x) = e
      BY <2>1, <1>3, <1>5, TheEnds
    <3>2. /\ d[x].avail \in Nat /\ Total(queue[x]) \in Nat /\ Total(wire[x]) \in Nat
      BY <1>1, Numbers
    <3>3. Noted(notes'[e]) = 0
      BY <1>7, NotedEmpty
    <3>4. ~d[x].closed
      BY <2>1, <1>6
    <3> QED
      BY <1>1, <1>6, <1>7, <3>1, <3>2, <3>3, <3>4 DEF Due
  <2> QED
    BY <2>1, <1>8, AccountsKept
<1>13. TwoPhase' /\ Granted'
  <2>1. \A x \in Ends : d'[x].inTwoPhase /\ ~Ending(x)' =>
                          d[x].inTwoPhase /\ ~Ending(x)
    BY <1>3, <1>5, <1>7 DEF Ending
  <2>2. TwoPhase'
    BY <1>6, <2>1 DEF IInv, TwoPhase
  <2>3. Granted'
    BY <1>6, <1>8, <2>1, TheEnds DEF IInv, Granted
  <2> QED
    BY <2>2, <2>3
<1>14. Told'
  <2>1. \A x \in Ends : d'[x].peerClosed => d'[Other(x)].closed
    BY <1>6, TheEnds DEF IInv, Told
  <2>2. \A x \in Ends : ~d'[x].closed => /\ ~d[x].closed
                                         /\ wire'[x] = wire[x]
                                         /\ queue'[x] = queue[x]
    BY <1>3, <1>5, <1>6, <1>7
  <2> QED
    BY <1>6, <1>8, <2>1, <2>2, TheEnds DEF IInv, Told
<1>15. Shut(e)
  <2>1. ~d[e].closed
    BY DEF Close
  <2> QED
    BY <1>3, <1>5, <1>6, <1>8, <2>1 DEF Shut, Untold
<1> QED
  BY <1>15, <1>9, <1>10, <1>11, <1>12, <1>13, <1>14 DEF IInv

\* The port learns of the closure; the dispatcher does not yet.
LEMMA ObserveClosureInv ==
  ASSUME IInv, NEW e \in Ends, ObserveClosure(e)
  PROVE  IInv' /\ Calm(e)
<1>1. TypeOK'
  BY DEF IInv, TypeOK, ObserveClosure, Raised
<1>2. /\ d[Other(e)].closed /\ peerShut' = peerShut \cup {e}
      /\ UNCHANGED <<d, buf, notes, wire, queue, away, written, delivered, refused>>
  BY DEF ObserveClosure
<1>3. Lifecycle'
  BY <1>2 DEF IInv, Lifecycle
<1>4. InFlight' /\ Offsets' /\ Contents' /\ Ordered'
  BY <1>2 DEF IInv, InFlight, Offsets, Contents, Ordered
<1>5. WrittenAccount' /\ FreeAccount'
  BY <1>2 DEF IInv, WrittenAccount, FreeAccount, Due
<1>6. TwoPhase' /\ Granted'
  BY <1>2 DEF IInv, TwoPhase, Granted, Ending
<1>7. Told'
  BY <1>2 DEF IInv, Told
<1>8. Calm(e)
  BY <1>2 DEF Calm, Unclosed
<1> QED
  BY <1>1, <1>3, <1>4, <1>5, <1>6, <1>7, <1>8 DEF IInv

-----------------------------------------------------------------------------
(* The control messages.                                                   *)

\* A message goes from the wire to the queue.
LEMMA DeliverInv ==
  ASSUME IInv, NEW e \in Ends, Deliver(e)
  PROVE  IInv' /\ Calm(e)
<1>1. TypeOK /\ wire[e] \in Seq(Nat) /\ queue[e] \in Seq(Nat) /\ wire[e] # <<>>
  BY DEF IInv, TypeOK, Deliver
<1> DEFINE m == Head(wire[e])
<1>2. m \in Nat /\ Tail(wire[e]) \in Seq(Nat) /\ Append(queue[e], m) \in Seq(Nat)
  BY <1>1
<1>3. /\ wire'[e] = Tail(wire[e]) /\ queue'[e] = Append(queue[e], m)
      /\ \A x \in Ends : x # e => wire'[x] = wire[x] /\ queue'[x] = queue[x]
  BY <1>1 DEF Deliver, TypeOK
<1>4. UNCHANGED <<d, buf, notes, peerShut, wait, away, leaving, moves, written,
                  delivered, refused>>
  BY DEF Deliver
<1>5. ~d[e].closed
  BY <1>1 DEF IInv, Lifecycle
<1>6. TypeOK'
  <2>1. /\ wire' \in [Ends -> Seq(Nat)] /\ queue' \in [Ends -> Seq(Nat)]
        /\ event' \subseteq Ends
    BY <1>1, <1>2 DEF Deliver, TypeOK, Raised
  <2> QED
    BY <1>1, <1>4, <2>1 DEF TypeOK
<1>7. Lifecycle'
  BY <1>3, <1>4, <1>5 DEF IInv, Lifecycle
<1>8. InFlight' /\ Offsets' /\ Contents' /\ Ordered'
  BY <1>4 DEF IInv, InFlight, Offsets, Contents, Ordered
<1>9. WrittenAccount' /\ FreeAccount'
  <2>1. ASSUME NEW x \in Ends PROVE Due(x)' = Due(x)
    <3>1. /\ d[x].avail \in Nat /\ Noted(notes[Other(x)]) \in Nat
          /\ refused[Other(x)] \in Nat
          /\ Total(queue[x]) \in Nat /\ Total(wire[x]) \in Nat
      BY <1>1, TheEnds, Numbers
    <3>2. CASE x = e
      <4>1. /\ Total(wire[e]) = m + Total(Tail(wire[e]))
            /\ Total(Append(queue[e], m)) = Total(queue[e]) + m
            /\ Total(Tail(wire[e])) \in Nat
        BY <1>1, <1>2, TotalTail, TotalAppend, TotalType
      <4>2. Due(x)' = d[x].avail + Total(Append(queue[e], m))
                       + Total(Tail(wire[e])) + Noted(notes[Other(x)])
                       + refused[Other(x)]
        BY <1>3, <1>4, <3>2 DEF Due
      <4>3. Due(x) = d[x].avail + Total(queue[e]) + Total(wire[e])
                       + Noted(notes[Other(x)]) + refused[Other(x)]
        BY <3>2 DEF Due
      <4> HIDE DEF m
      <4> QED
        BY <1>2, <3>1, <3>2, <4>1, <4>2, <4>3
    <3>3. CASE x # e
      BY <1>3, <1>4, <3>3 DEF Due
    <3> QED
      BY <3>2, <3>3
  <2> QED
    BY <1>4, <2>1, AccountsKept
<1>10. TwoPhase' /\ Granted'
  BY <1>4 DEF IInv, TwoPhase, Granted, Ending
<1>11. Told'
  <2>1. \A x \in Ends : d'[x].peerClosed => d'[Other(x)].closed
    BY <1>4 DEF IInv, Told
  <2>2. e = "consumer" => ~d[e].peerClosed
    BY <1>1, <1>5 DEF IInv, Told
  <2>3. e # "consumer" =>
          wire'["consumer"] = wire["consumer"] /\ queue'["consumer"] = queue["consumer"]
    BY <1>3, TheEnds
  <2> QED
    BY <1>4, <2>1, <2>2, <2>3 DEF IInv, Told
<1>12. Calm(e)
  BY <1>4 DEF Calm, Unclosed
<1> QED
  BY <1>6, <1>7, <1>8, <1>9, <1>10, <1>11, <1>12 DEF IInv

\* RemoveAt element by element.
LEMMA RemoveAtIs ==
  ASSUME NEW S, NEW s \in Seq(S), NEW i \in DOMAIN s
  PROVE  /\ DOMAIN RemoveAt(s, i) = 1..(Len(s) - 1)
         /\ \A k \in 1..(Len(s) - 1) : k < i => RemoveAt(s, i)[k] = s[k]
         /\ \A k \in 1..(Len(s) - 1) : k >= i => RemoveAt(s, i)[k] = s[k + 1]
<1> DEFINE p == SubSeq(s, 1, i - 1)
           q == SubSeq(s, i + 1, Len(s))
           r == p \o q
<1>0. i \in 1..Len(s) /\ Len(s) \in Nat /\ i \in Nat
  OBVIOUS
<1>1. /\ p \in Seq(S) /\ q \in Seq(S)
      /\ Len(p) = i - 1 /\ Len(q) = Len(s) - i
      /\ \A k \in 1..(i - 1) : p[k] = s[k]
      /\ \A k \in 1..(Len(s) - i) : q[k] = s[i + k]
  BY <1>0
<1>2. RemoveAt(s, i) = r
  BY DEF RemoveAt
<1> HIDE DEF p, q
<1>3. /\ r \in Seq(S) /\ Len(r) = Len(p) + Len(q)
      /\ \A k \in 1..Len(p) : r[k] = p[k]
      /\ \A k \in (Len(p) + 1)..(Len(p) + Len(q)) : r[k] = q[k - Len(p)]
  BY <1>1, ConcatAt
<1> HIDE DEF r
<1>4. DOMAIN r = 1..(Len(s) - 1)
  BY <1>0, <1>1, <1>3
<1>5. ASSUME NEW k \in 1..(Len(s) - 1), k < i PROVE r[k] = s[k]
  <2>1. k \in 1..(i - 1)
    BY <1>0, <1>5
  <2> QED
    BY <1>1, <1>3, <2>1
<1>6. ASSUME NEW k \in 1..(Len(s) - 1), k >= i PROVE r[k] = s[k + 1]
  <2>1. Len(p) = i - 1 /\ Len(q) = Len(s) - i
    BY <1>1
  <2>2. /\ k \in (Len(p) + 1)..(Len(p) + Len(q))
        /\ k - Len(p) \in 1..(Len(s) - i) /\ i + (k - Len(p)) = k + 1
    BY <1>0, <1>6, <2>1
  <2>3. r[k] = q[k - Len(p)]
    BY <1>3, <2>2
  <2>4. q[k - Len(p)] = s[i + (k - Len(p))]
    BY <1>1, <2>2
  <2> QED
    BY <2>2, <2>3, <2>4
<1> QED
  BY <1>2, <1>4, <1>5, <1>6

\* It removes nothing else.
LEMMA RemoveAtKeeps ==
  ASSUME NEW S, NEW s \in Seq(S), NEW i \in DOMAIN s, NEW j \in DOMAIN s, j # i
  PROVE  \E k \in DOMAIN RemoveAt(s, i) : RemoveAt(s, i)[k] = s[j]
<1>1. i \in 1..Len(s) /\ j \in 1..Len(s) /\ Len(s) \in Nat
  OBVIOUS
<1>2. CASE j < i
  <2>1. j \in 1..(Len(s) - 1)
    BY <1>1, <1>2
  <2> QED
    BY <1>2, <2>1, RemoveAtIs
<1>3. CASE j > i
  <2> DEFINE k == j - 1
  <2>1. k \in 1..(Len(s) - 1) /\ k >= i /\ k + 1 = j
    BY <1>1, <1>3
  <2> HIDE DEF k
  <2> QED
    BY <2>1, RemoveAtIs
<1> QED
  BY <1>1, <1>2, <1>3

\* A notification goes from the notes to the wire, or is refused with the peer
\* closed: then nobody counts any more.
LEMMA NotifyInv ==
  ASSUME IInv, NEW e \in Ends, NEW i \in DOMAIN notes[e], Notify(e, i)
  PROVE  IInv' /\ Calm(e)
<1> DEFINE note == notes[e][i]
           o == Other(e)
<1>1. /\ TypeOK /\ d[e] \in Dispatcher /\ notes[e] \in Seq(Note)
      /\ wait[e] \in Waiting /\ wire[o] \in Seq(Nat)
      /\ o \in Ends /\ o # e /\ Other(o) = e
  BY TheEnds DEF IInv, TypeOK
<1>2. /\ RemoveAt(notes[e], i) \in Seq(Note)
      /\ Noted(notes[e]) = Noted(RemoveAt(notes[e], i)) + note.n
      /\ note \in Note /\ note.n \in Nat /\ note.ends \in BOOLEAN
  BY <1>1, NotedRemove DEF Note
<1> HIDE DEF note, o
<1>3. /\ notes'[e] = RemoveAt(notes[e], i)
      /\ \A x \in Ends : x # e => notes'[x] = notes[x]
      /\ notes' \in [Ends -> Seq(Note)]
  BY <1>1, <1>2 DEF Notify, TypeOK
<1>4. UNCHANGED <<buf, queue, peerShut, event, away, leaving, moves, written,
                  delivered, refused>>
  BY DEF Notify
<1>5. ~d[e].closed
  BY DEF IInv, Lifecycle
<1>6. /\ d[o].closed => wire' = wire
      /\ ~d[o].closed => wire' = [wire EXCEPT ![o] = Append(@, note.n)]
  BY <1>1 DEF Notify, Sent, IInv, Lifecycle, note, o
<1>7. /\ \A x \in Ends : x # o => wire'[x] = wire[x]
      /\ d[o].closed => wire'[o] = wire[o]
      /\ ~d[o].closed => wire'[o] = Append(wire[o], note.n)
      /\ wire' \in [Ends -> Seq(Nat)]
  <2>1. wire \in [Ends -> Seq(Nat)] /\ Append(wire[o], note.n) \in Seq(Nat)
    BY <1>1, <1>2 DEF TypeOK
  <2>2. CASE d[o].closed
    BY <1>1, <1>6, <2>1, <2>2
  <2>3. CASE ~d[o].closed
    BY <1>1, <1>6, <2>1, <2>3
  <2> QED
    BY <2>2, <2>3
<1> DEFINE r == [d[e] EXCEPT !.inTwoPhase = FALSE, !.max = 0]
<1>8. /\ r \in Dispatcher
      /\ r.inTransit = d[e].inTransit /\ r.inTwoPhase = FALSE
      /\ r.avail = d[e].avail /\ r.offset = d[e].offset /\ r.ring = d[e].ring
      /\ r.peerClosed = d[e].peerClosed /\ r.closed = d[e].closed
  BY <1>1 DEF Dispatcher
<1>9. note.ends => d' = [d EXCEPT ![e] = r]
  BY DEF Notify, EndsTwoPhaseWrite, EndsTwoPhaseRead, note
<1>10. ~note.ends => d' = d
  BY DEF Notify, note
<1>11. wait' \in [Ends -> Waiting]
  <2>1. CASE note.ends
    <3>1. PICK w : w \in Waiting /\ wait' = [wait EXCEPT ![e] = w]
      BY <1>1, <2>1, AwakeType DEF Notify, WokenWritable, WokenIfChanged, note
    <3> QED
      BY <1>1, <3>1 DEF TypeOK
  <2>2. CASE ~note.ends
    BY <1>1, <2>2 DEF Notify, TypeOK, note
  <2> QED
    BY <2>1, <2>2
<1> HIDE DEF r
<1>12. /\ d' \in [Ends -> Dispatcher]
       /\ note.ends => d'[e] = r /\ \A x \in Ends : x # e => d'[x] = d[x]
  BY <1>1, <1>8, <1>9, <1>10 DEF TypeOK
<1>13. \A x \in Ends : /\ d'[x].avail = d[x].avail /\ d'[x].offset = d[x].offset
                       /\ d'[x].closed = d[x].closed
                       /\ d'[x].peerClosed = d[x].peerClosed
                       /\ d'[x].inTransit = d[x].inTransit
                       /\ d'[x].ring = d[x].ring
                       /\ d'[x].inTwoPhase => /\ d[x].inTwoPhase
                                              /\ d'[x].max = d[x].max
  BY <1>8, <1>10, <1>12
<1>14. TypeOK'
  BY <1>1, <1>3, <1>4, <1>7, <1>11, <1>12, <1>13 DEF TypeOK
<1>15. Lifecycle'
  <2> SUFFICES ASSUME NEW x \in Ends
               PROVE  /\ d'[x].closed => /\ notes'[x] = <<>> /\ wire'[x] = <<>>
                                         /\ queue'[x] = <<>>
                      /\ x \in peerShut' => d'[Other(x)].closed
                      /\ d'[x].ring \/ d'[x].inTransit \/ x \in away'
                           => ~d'[x].closed
                      /\ d'[x].inTransit \/ x \in away' => ~d'[x].inTwoPhase
    BY DEF Lifecycle
  <2>1. x \in peerShut' => d'[Other(x)].closed
    BY <1>4, <1>13, TheEnds DEF IInv, Lifecycle
  <2>2. d[x].closed => x # e /\ wire'[x] = wire[x]
    BY <1>5, <1>7
  <2> QED
    BY <1>3, <1>4, <1>13, <2>1, <2>2 DEF IInv, Lifecycle
<1>16. InFlight' /\ Offsets' /\ Contents' /\ Ordered'
  BY <1>4, <1>13, TheEnds DEF IInv, InFlight, Offsets, Contents, Ordered
<1>17. WrittenAccount' /\ FreeAccount'
  <2>1. ASSUME NEW x \in Ends, ~d[x].closed PROVE Due(x)' = Due(x)
    <3>1. /\ d[x].avail \in Nat /\ Noted(notes[Other(x)]) \in Nat
          /\ refused[Other(x)] \in Nat /\ Other(x) \in Ends
          /\ Total(queue[x]) \in Nat /\ Total(wire[x]) \in Nat
      BY <1>1, TheEnds, Numbers
    <3>4. CASE x = o
      <4>1. Total(wire'[x]) = Total(wire[x]) + note.n
        BY <1>1, <1>2, <1>7, <2>1, <3>4, TotalAppend
      <4>2. /\ Noted(notes[Other(x)]) = Noted(notes'[Other(x)]) + note.n
            /\ Noted(notes'[Other(x)]) \in Nat
        BY <1>1, <1>2, <1>3, <3>4, NotedType
      <4>3. Total(wire'[x]) \in Nat
        BY <1>2, <3>1, <4>1
      <4>4. Total(wire'[x]) + Noted(notes'[Other(x)]) + refused[Other(x)]
              = Total(wire[x]) + Noted(notes[Other(x)]) + refused[Other(x)]
        BY <1>2, <3>1, <4>1, <4>2
      <4> QED
        BY <1>1, <1>4, <1>13, <3>1, <4>2, <4>3, <4>4, DueSame
    <3>5. CASE x # o
      <4>1. wire'[x] = wire[x] /\ notes'[Other(x)] = notes[Other(x)]
        BY <1>1, <1>3, <1>7, <3>5, TheEnds
      <4> QED
        BY <1>1, <1>4, <1>13, <3>1, <4>1 DEF Due
    <3> QED
      BY <3>4, <3>5
  <2> QED
    BY <1>4, <1>13, <2>1, AccountsKept
<1>18. TwoPhase' /\ Granted'
  <2>1. ASSUME NEW x \in Ends, d'[x].inTwoPhase, ~Ending(x)'
        PROVE  d[x].inTwoPhase /\ ~Ending(x) /\ d'[x].max = d[x].max
    <3>1. d[x].inTwoPhase /\ d'[x].max = d[x].max
      BY <1>13, <2>1
    <3>2. CASE x = e
      <4>1. ~note.ends
        BY <1>8, <1>12, <2>1, <3>2
      <4>2. ASSUME NEW j \in DOMAIN notes[e], notes[e][j].ends PROVE FALSE
        <5>1. j # i
          BY <4>1, <4>2 DEF note
        <5>2. PICK k \in DOMAIN notes'[e] : notes'[e][k] = notes[e][j]
          BY <1>1, <1>3, <5>1, RemoveAtKeeps
        <5> QED
          BY <2>1, <3>2, <4>2, <5>2 DEF Ending
      <4> QED
        BY <3>1, <3>2, <4>2 DEF Ending
    <3>3. CASE x # e
      BY <1>3, <2>1, <3>1, <3>3 DEF Ending
    <3> QED
      BY <3>2, <3>3
  <2>2. TwoPhase'
    BY <1>13, <2>1 DEF IInv, TwoPhase
  <2>3. Granted'
    BY <1>4, <2>1, TheEnds DEF IInv, Granted
  <2> QED
    BY <2>2, <2>3
<1>19. Told'
  <2>1. \A x \in Ends : d'[x].peerClosed => d'[Other(x)].closed
    BY <1>13, TheEnds DEF IInv, Told
  <2>2. ASSUME d["consumer"].peerClosed PROVE wire'["consumer"] = wire["consumer"]
    <3>1. d["producer"].closed
      BY <2>2, TheEnds DEF IInv, Told
    <3>2. o # "consumer"
      BY <1>1, <1>5, <3>1, TheEnds
    <3> QED
      BY <1>7, <3>2, TheEnds
  <2> QED
    BY <1>4, <1>13, <2>1, <2>2, TheEnds DEF IInv, Told
<1>20. Calm(e)
  BY <1>4, <1>13 DEF Calm, Unclosed
<1> QED
  BY <1>14, <1>15, <1>16, <1>17, <1>18, <1>19, <1>20 DEF IInv

-----------------------------------------------------------------------------
(* Writing and reading.                                                    *)

\* What an end has is part of its due.
LEMMA AvailDue ==
  ASSUME TypeOK, NEW e \in Ends
  PROVE  d[e].avail <= Due(e)
<1>1. /\ d[e].avail \in Nat /\ Noted(notes[Other(e)]) \in Nat
      /\ refused[Other(e)] \in Nat
      /\ Total(queue[e]) \in Nat /\ Total(wire[e]) \in Nat
  BY TheEnds, Numbers
<1> QED
  BY <1>1 DEF Due

\* The dues after end e took k from what it has, with a note to its peer.
LEMMA DueMoves ==
  ASSUME TypeOK, NEW e \in Ends, NEW k \in Nat, NEW ends \in BOOLEAN,
         k <= d[e].avail,
         d'[e].avail = d[e].avail - k, d'[Other(e)].avail = d[Other(e)].avail,
         notes' = [notes EXCEPT ![e] = Append(@, [n |-> k, ends |-> ends])],
         UNCHANGED <<wire, queue, refused>>
  PROVE  Due(e)' = Due(e) - k /\ Due(Other(e))' = Due(Other(e)) + k
<1> DEFINE o == Other(e)
           note == [n |-> k, ends |-> ends]
<1>1. o \in Ends /\ o # e /\ Other(o) = e
  BY TheEnds
<1>2. /\ d[e].avail \in Nat /\ d[o].avail \in Nat
      /\ Noted(notes[e]) \in Nat /\ Noted(notes[o]) \in Nat
      /\ refused[e] \in Nat /\ refused[o] \in Nat
      /\ Total(queue[e]) \in Nat /\ Total(queue[o]) \in Nat
      /\ Total(wire[e]) \in Nat /\ Total(wire[o]) \in Nat
  BY <1>1, Numbers
<1>3. note \in Note /\ notes[e] \in Seq(Note) /\ note.n = k
  BY Numbers DEF Note
<1>4. notes'[e] = Append(notes[e], note) /\ notes'[o] = notes[o]
  BY <1>1 DEF TypeOK
<1> HIDE DEF o, note
<1>5. Noted(notes'[e]) = Noted(notes[e]) + k
  BY <1>3, <1>4, NotedAppend
<1>6. Due(e)' = Due(e) - k
  <2>1. Due(e)' = d[e].avail - k + Total(queue[e]) + Total(wire[e])
                    + Noted(notes[o]) + refused[o]
    BY <1>4 DEF Due, o
  <2>2. Due(e) = d[e].avail + Total(queue[e]) + Total(wire[e])
                    + Noted(notes[o]) + refused[o]
    BY DEF Due, o
  <2> DEFINE a == d[e].avail
             q == Total(queue[e])
             w == Total(wire[e])
             n == Noted(notes[o])
             f == refused[o]
  <2>3. a \in Nat /\ q \in Nat /\ w \in Nat /\ n \in Nat /\ f \in Nat
    BY <1>2
  <2> HIDE DEF a, q, w, n, f
  <2>4. (a - k) + q + w + n + f = (a + q + w + n + f) - k
    BY <2>3
  <2> QED
    BY <2>1, <2>2, <2>4 DEF a, q, w, n, f
<1>7. Due(o)' = Due(o) + k
  <2>1. Due(o)' = d[o].avail + Total(queue[o]) + Total(wire[o])
                    + (Noted(notes[e]) + k) + refused[e]
    BY <1>1, <1>5 DEF Due, o
  <2>2. Due(o) = d[o].avail + Total(queue[o]) + Total(wire[o])
                    + Noted(notes[e]) + refused[e]
    BY <1>1 DEF Due
  <2> QED
    BY <1>2, <2>1, <2>2
<1> QED
  BY <1>6, <1>7 DEF o

\* A note adds nothing to what ends, unless it says so.
LEMMA NotesAppended ==
  ASSUME TypeOK, NEW e \in Ends, NEW k \in Nat, NEW ends \in BOOLEAN,
         notes' = [notes EXCEPT ![e] = Append(@, [n |-> k, ends |-> ends])]
  PROVE  /\ notes' \in [Ends -> Seq(Note)]
         /\ \A x \in Ends : x # e => notes'[x] = notes[x]
         /\ \A x \in Ends : x # e => (Ending(x)' <=> Ending(x))
         /\ ends => Ending(e)'
<1> DEFINE note == [n |-> k, ends |-> ends]
<1>1. note \in Note /\ notes[e] \in Seq(Note) /\ note.ends = ends
  BY Numbers DEF Note
<1> HIDE DEF note
<1>2. notes' = [notes EXCEPT ![e] = Append(notes[e], note)]
  BY DEF note
<1>3. /\ notes' \in [Ends -> Seq(Note)]
      /\ \A x \in Ends : x # e => notes'[x] = notes[x]
  BY <1>1, <1>2 DEF TypeOK
<1>4. \A x \in Ends : x # e => (Ending(x)' <=> Ending(x))
  BY <1>3 DEF Ending
<1>5. ASSUME ends PROVE Ending(e)'
  <2>1. notes'[e] = Append(notes[e], note)
    BY <1>2 DEF TypeOK
  <2> DEFINE j == Len(notes[e]) + 1
  <2>2. j \in DOMAIN notes'[e] /\ notes'[e][j] = note
    BY <1>1, <2>1
  <2> QED
    BY <1>1, <1>5, <2>2 DEF Ending
<1> QED
  BY <1>3, <1>4, <1>5

\* The producer writes k bytes, which are in the ring.
LEMMA WritesInv ==
  ASSUME IInv, NEW k \in Nat, NEW ends \in BOOLEAN, NEW r \in Dispatcher,
         ~d["producer"].closed, k <= d["producer"].avail,
         d' = [d EXCEPT !["producer"] = r],
         r.avail = d["producer"].avail - k,
         r.offset = (d["producer"].offset + k) % Capacity,
         r.closed = d["producer"].closed, r.ring = d["producer"].ring,
         r.inTransit = d["producer"].inTransit,
         r.peerClosed = d["producer"].peerClosed,
         r.inTwoPhase = d["producer"].inTwoPhase, r.inTwoPhase => ends,
         notes' = [notes EXCEPT !["producer"] =
                     Append(@, [n |-> k, ends |-> ends])],
         written' = written + k,
         buf' \in [0..(Capacity - 1) -> Nat],
         \A j \in 0..(k - 1) : buf'[(written + j) % Capacity] = written + j + 1,
         \A b \in (Len(delivered) + 1)..written : buf'[(b - 1) % Capacity] = b,
         wait' \in [Ends -> Waiting],
         UNCHANGED <<wire, queue, peerShut, event, away, leaving, moves,
                     delivered, refused>>
  PROVE  IInv' /\ Wrote
<1>1. /\ TypeOK /\ "producer" \in Ends /\ "consumer" \in Ends
      /\ Other("producer") = "consumer" /\ Other("consumer") = "producer"
      /\ Capacity \in Nat \ {0}
  BY TheEnds, Capacities DEF IInv
<1>2. /\ written \in Nat /\ Len(delivered) \in Nat
      /\ d["producer"].avail \in Nat /\ d["producer"].offset \in Nat
      /\ Due("producer") \in Nat /\ Due("consumer") \in Nat
  BY <1>1, Numbers
<1>3. d'["producer"] = r /\ d'["consumer"] = d["consumer"]
  BY <1>1 DEF TypeOK
<1>4. /\ \A x \in Ends : /\ d'[x].closed = d[x].closed /\ d'[x].ring = d[x].ring
                         /\ d'[x].inTransit = d[x].inTransit
                         /\ d'[x].peerClosed = d[x].peerClosed
                         /\ d'[x].inTwoPhase = d[x].inTwoPhase
  BY <1>3, TheEnds
<1>5. /\ notes' \in [Ends -> Seq(Note)]
      /\ notes'["consumer"] = notes["consumer"]
      /\ Ending("consumer")' <=> Ending("consumer")
      /\ ends => Ending("producer")'
  BY <1>1, NotesAppended
<1>6. /\ Due("producer")' = Due("producer") - k
      /\ Due("consumer")' = Due("consumer") + k
  <2>1. d'["producer"].avail = d["producer"].avail - k
    BY <1>3
  <2> QED
    BY <1>1, <1>3, <2>1, DueMoves
<1>7. TypeOK'
  <2>1. r.offset \in 0..(Capacity - 1)
    <3> DEFINE z == d["producer"].offset + k
    <3>1. z \in Nat
      BY <1>2
    <3>2. r.offset = z % Capacity
      OBVIOUS
    <3> HIDE DEF z
    <3> QED
      BY <1>1, <3>1, <3>2, DivMod
  <2>2. d' \in [Ends -> Dispatcher]
    BY <1>1 DEF TypeOK
  <2>3. r.offset < Capacity /\ r.avail <= Capacity
    <3>1. d["producer"].avail <= Capacity
      BY <1>1 DEF TypeOK
    <3>2. r.offset < Capacity
      BY <1>1, <2>1
    <3>3. r.avail <= Capacity
      BY <1>1, <1>2, <3>1
    <3> QED
      BY <3>2, <3>3
  <2>4. \A x \in Ends : d'[x].offset < Capacity /\ d'[x].avail <= Capacity
    BY <1>1, <1>3, <2>3, TheEnds DEF TypeOK
  <2>5. written' \in Nat
    BY <1>2
  <2> QED
    BY <1>1, <1>5, <2>2, <2>4, <2>5 DEF TypeOK
<1>8. Lifecycle'
  BY <1>4, <1>5, TheEnds DEF IInv, Lifecycle
<1>9. InFlight'
  <2>1. Due("producer") = Capacity - (written - Len(delivered))
    BY DEF IInv, FreeAccount
  <2>2. d["producer"].avail <= Due("producer")
    BY <1>1, AvailDue
  <2> QED
    BY <1>1, <1>2, <2>1, <2>2 DEF IInv, InFlight
<1>10. WrittenAccount'
  BY <1>2, <1>3, <1>6 DEF IInv, WrittenAccount
<1>11. FreeAccount'
  BY <1>1, <1>2, <1>4, <1>6 DEF IInv, FreeAccount
<1>12. Offsets'
  <2>1. d["producer"].offset = written % Capacity
    BY DEF IInv, Offsets
  <2>2. ((written % Capacity) + k) % Capacity = (written + k) % Capacity
    BY <1>1, <1>2, ModAdd
  <2>3. d'["producer"].offset = written' % Capacity
    BY <1>3, <2>1, <2>2
  <2> QED
    BY <1>3, <2>3 DEF IInv, Offsets
<1>13. Contents'
  <2> SUFFICES ASSUME NEW b \in (Len(delivered) + 1)..(written + k)
               PROVE  buf'[(b - 1) % Capacity] = b
    BY DEF Contents
  <2>1. CASE b <= written
    <3>1. b \in (Len(delivered) + 1)..written
      BY <1>2, <2>1
    <3> QED
      BY <3>1
  <2>2. CASE b > written
    <3> DEFINE j == b - written - 1
    <3>1. j \in 0..(k - 1) /\ written + j = b - 1 /\ written + j + 1 = b
      BY <1>2, <2>2
    <3> HIDE DEF j
    <3>2. buf'[(written + j) % Capacity] = written + j + 1
      BY <3>1
    <3> QED
      BY <3>1, <3>2
  <2> QED
    BY <1>2, <2>1, <2>2
<1>14. Ordered' /\ Told'
  BY <1>4, TheEnds DEF IInv, Ordered, Told
<1>15. TwoPhase' /\ Granted'
  <2>1. ~(d'["producer"].inTwoPhase /\ ~Ending("producer")')
    BY <1>3, <1>5
  <2> QED
    BY <1>3, <1>5, <2>1, TheEnds DEF IInv, TwoPhase, Granted
<1>16. Wrote
  BY <1>2, <1>4 DEF Wrote, Unclosed, Untold
<1> QED
  BY <1>16, <1>7, <1>8, <1>9, <1>10, <1>11, <1>12, <1>13, <1>14, <1>15 DEF IInv

\* The consumer takes k bytes.
LEMMA ReadsInv ==
  ASSUME IInv, NEW k \in Nat, NEW ends \in BOOLEAN, NEW r \in Dispatcher,
         ~d["consumer"].closed, k <= d["consumer"].avail,
         d' = [d EXCEPT !["consumer"] = r],
         r.avail = d["consumer"].avail - k,
         r.offset = (d["consumer"].offset + k) % Capacity,
         r.closed = d["consumer"].closed, r.ring = d["consumer"].ring,
         r.inTransit = d["consumer"].inTransit,
         r.peerClosed = d["consumer"].peerClosed,
         r.inTwoPhase = d["consumer"].inTwoPhase, r.inTwoPhase => ends,
         notes' = [notes EXCEPT !["consumer"] =
                     Append(@, [n |-> k, ends |-> ends])],
         delivered' = delivered \o Bytes(d["consumer"].offset, k),
         wait' \in [Ends -> Waiting],
         UNCHANGED <<buf, wire, queue, peerShut, event, away, leaving, moves,
                     written, refused>>
  PROVE  IInv' /\ Took
<1>1. /\ TypeOK /\ "producer" \in Ends /\ "consumer" \in Ends
      /\ Other("producer") = "consumer" /\ Other("consumer") = "producer"
      /\ Capacity \in Nat \ {0}
  BY TheEnds, Capacities DEF IInv
<1>2. /\ written \in Nat /\ Len(delivered) \in Nat /\ delivered \in Seq(Nat)
      /\ d["consumer"].avail \in Nat /\ d["consumer"].offset \in Nat
      /\ Due("producer") \in Nat /\ Due("consumer") \in Nat
  BY <1>1, Numbers
<1>3. d'["consumer"] = r /\ d'["producer"] = d["producer"]
  BY <1>1 DEF TypeOK
<1>4. /\ \A x \in Ends : /\ d'[x].closed = d[x].closed /\ d'[x].ring = d[x].ring
                         /\ d'[x].inTransit = d[x].inTransit
                         /\ d'[x].peerClosed = d[x].peerClosed
                         /\ d'[x].inTwoPhase = d[x].inTwoPhase
  BY <1>3, TheEnds
<1>5. /\ notes' \in [Ends -> Seq(Note)]
      /\ notes'["producer"] = notes["producer"]
      /\ Ending("producer")' <=> Ending("producer")
      /\ ends => Ending("consumer")'
  BY <1>1, NotesAppended
<1>6. /\ Due("consumer")' = Due("consumer") - k
      /\ Due("producer")' = Due("producer") + k
  <2>1. d'["consumer"].avail = d["consumer"].avail - k
    BY <1>3
  <2> QED
    BY <1>1, <1>3, <2>1, DueMoves
<1>7. Len(delivered) + k <= written
  <2>1. Due("consumer") = written - Len(delivered)
    BY DEF IInv, WrittenAccount
  <2>2. d["consumer"].avail <= Due("consumer")
    BY <1>1, AvailDue
  <2> QED
    BY <1>2, <2>1, <2>2
<1>8. delivered' = delivered \o [i \in 1..k |-> Len(delivered) + i]
  <2>1. d["consumer"].offset = Len(delivered) % Capacity /\ Contents
    BY DEF IInv, Offsets
  <2> QED
    BY <1>2, <1>7, <2>1, BytesAre
<1>9. /\ delivered' \in Seq(Nat) /\ Len(delivered') = Len(delivered) + k
      /\ delivered' = [i \in 1..(Len(delivered) + k) |-> i]
  BY <1>2, <1>8, OrderedConcat DEF IInv
<1>10. TypeOK'
  <2>1. r.offset \in 0..(Capacity - 1)
    <3> DEFINE z == d["consumer"].offset + k
    <3>1. z \in Nat
      BY <1>2
    <3>2. r.offset = z % Capacity
      OBVIOUS
    <3> HIDE DEF z
    <3> QED
      BY <1>1, <3>1, <3>2, DivMod
  <2>2. d' \in [Ends -> Dispatcher]
    BY <1>1 DEF TypeOK
  <2>3. r.offset < Capacity /\ r.avail <= Capacity
    <3>1. d["consumer"].avail <= Capacity
      BY <1>1 DEF TypeOK
    <3>2. r.offset < Capacity
      BY <1>1, <2>1
    <3>3. r.avail <= Capacity
      BY <1>1, <1>2, <3>1
    <3> QED
      BY <3>2, <3>3
  <2>4. \A x \in Ends : d'[x].offset < Capacity /\ d'[x].avail <= Capacity
    BY <1>1, <1>3, <2>3, TheEnds DEF TypeOK
  <2> QED
    BY <1>1, <1>5, <1>9, <2>2, <2>4 DEF TypeOK
<1>11. Lifecycle'
  BY <1>4, <1>5, TheEnds DEF IInv, Lifecycle
<1>12. InFlight'
  BY <1>1, <1>2, <1>7, <1>9 DEF IInv, InFlight
<1>13. WrittenAccount'
  BY <1>2, <1>4, <1>6, <1>9 DEF IInv, WrittenAccount
<1>14. FreeAccount'
  BY <1>1, <1>2, <1>3, <1>6, <1>9 DEF IInv, FreeAccount
<1>15. Offsets'
  <2>1. d["consumer"].offset = Len(delivered) % Capacity
    BY DEF IInv, Offsets
  <2>2. ((Len(delivered) % Capacity) + k) % Capacity = (Len(delivered) + k) % Capacity
    BY <1>1, <1>2, ModAdd
  <2>3. d'["consumer"].offset = Len(delivered') % Capacity
    BY <1>3, <1>9, <2>1, <2>2
  <2> QED
    BY <1>3, <2>3 DEF IInv, Offsets
<1>16. Contents'
  <2> SUFFICES ASSUME NEW b \in (Len(delivered) + k + 1)..written
               PROVE  buf[(b - 1) % Capacity] = b
    BY <1>9 DEF Contents
  <2>1. b \in (Len(delivered) + 1)..written
    BY <1>2
  <2> QED
    BY <2>1 DEF IInv, Contents
<1>17. Ordered'
  BY <1>9 DEF Ordered
<1>18. Told'
  BY <1>4, TheEnds DEF IInv, Told
<1>19. TwoPhase' /\ Granted'
  <2>1. ~(d'["consumer"].inTwoPhase /\ ~Ending("consumer")')
    BY <1>3, <1>5
  <2> QED
    BY <1>3, <1>5, <2>1, TheEnds DEF IInv, TwoPhase, Granted
<1>20. IInv'
  BY <1>10, <1>11, <1>12, <1>13, <1>14, <1>15, <1>16, <1>17, <1>18, <1>19 DEF IInv
<1>21. Took
  <2>1. k \in 0..(written - Len(delivered))
    BY <1>2, <1>7
  <2> QED
    BY <1>4, <1>8, <2>1 DEF Took, Unclosed, Untold
<1> QED
  BY <1>20, <1>21

\* The calls that begin a two-phase operation, or end one without effect, and
\* the ones that write or read.
LEMMA WriteDataInv ==
  ASSUME IInv, NEW n \in Nat, WriteData(n)
  PROVE  IInv' /\ Wrote
<1> DEFINE p == d["producer"]
           k == Least(n, p.avail)
           r == [p EXCEPT !.avail = @ - k, !.offset = (@ + k) % Capacity]
<1>1. /\ TypeOK /\ "producer" \in Ends /\ p \in Dispatcher
      /\ wait["producer"] \in Waiting /\ Capacity \in Nat \ {0}
      /\ p.avail \in Nat /\ p.offset \in Nat
      /\ written \in Nat /\ Len(delivered) \in Nat
  BY TheEnds, Capacities, Numbers DEF IInv, TypeOK
<1>2. /\ p.ring /\ ~p.inTwoPhase /\ k > 0
      /\ buf' = Filled(p.offset, k) /\ d' = [d EXCEPT !["producer"] = r]
      /\ written' = written + k
      /\ notes' = [notes EXCEPT !["producer"] = Append(@, [n |-> k, ends |-> FALSE])]
      /\ UNCHANGED <<wire, queue, peerShut, event, away, leaving, moves,
                     delivered, refused>>
  BY DEF WriteData, Usable, Starts
<1>3. k \in Nat /\ k <= p.avail
  BY <1>1 DEF Least
<1> HIDE DEF k
<1>4. (p.offset + k) % Capacity \in Nat /\ p.avail - k \in Nat
  <2>1. p.avail - k \in Nat
    BY <1>1, <1>3
  <2>2. (p.offset + k) % Capacity \in Nat
    BY <1>1, <1>3, ModNat
  <2> QED
    BY <2>1, <2>2
<1>5. /\ r \in Dispatcher /\ r.avail = p.avail - k
      /\ r.offset = (p.offset + k) % Capacity
      /\ r.closed = p.closed /\ r.ring = p.ring /\ r.inTransit = p.inTransit
      /\ r.peerClosed = p.peerClosed /\ r.inTwoPhase = p.inTwoPhase
  BY <1>1, <1>4 DEF Dispatcher
<1>6. ~p.closed
  BY <1>1, <1>2 DEF IInv, Lifecycle
<1>7. wait' \in [Ends -> Waiting]
  <2>1. PICK s : wait' = [wait EXCEPT !["producer"] =
                   IF Signals("producer", s) # Signals("producer", p)
                   THEN AwakeForStateChange("producer", s, @) ELSE @]
    BY DEF WriteData
  <2>2. AwakeForStateChange("producer", s, wait["producer"]) \in Waiting
    BY <1>1, AwakeType
  <2> QED
    BY <1>1, <2>1, <2>2 DEF TypeOK
<1>8. p.offset = written % Capacity /\ p.avail <= Capacity
  BY <1>1 DEF IInv, Offsets, TypeOK
<1>9. k \in 0..Capacity /\ buf \in [0..(Capacity - 1) -> Nat]
  BY <1>1, <1>3, <1>8 DEF TypeOK
<1>10. /\ buf' \in [0..(Capacity - 1) -> Nat]
       /\ \A j \in 0..(k - 1) : buf'[(written + j) % Capacity] = written + j + 1
       /\ \A b \in Nat : b < written /\ written + k <= b + Capacity =>
            buf'[b % Capacity] = buf[b % Capacity]
  BY <1>1, <1>2, <1>8, <1>9, FilledIs
<1>11. \A b \in (Len(delivered) + 1)..written : buf'[(b - 1) % Capacity] = b
  <2> SUFFICES ASSUME NEW b \in (Len(delivered) + 1)..written
               PROVE  buf'[(b - 1) % Capacity] = b
    OBVIOUS
  <2>1. p.avail <= Due("producer") /\ Due("producer") \in Nat
    BY <1>1, AvailDue, Numbers
  <2>2. Due("producer") = Capacity - (written - Len(delivered))
    BY <1>6 DEF IInv, FreeAccount
  <2>3. b - 1 \in Nat /\ b - 1 < written /\ written + k <= (b - 1) + Capacity
    BY <1>1, <1>3, <2>1, <2>2
  <2>4. buf'[(b - 1) % Capacity] = buf[(b - 1) % Capacity]
    BY <1>10, <2>3
  <2> QED
    BY <2>4 DEF IInv, Contents
<1> HIDE DEF r
<1> QED
  BY <1>2, <1>3, <1>5, <1>6, <1>7, <1>10, <1>11, WritesInv

\* BeginWriteData: the caller fills free cells, none that holds a byte still to be
\* read.
LEMMA BeginWriteDataInv ==
  ASSUME IInv, BeginWriteData
  PROVE  IInv' /\ Calm("producer")
<1> DEFINE p == d["producer"]
           n == Least(Capacity - p.offset, p.avail)
           r == [p EXCEPT !.inTwoPhase = TRUE, !.max = n]
<1>1. /\ TypeOK /\ "producer" \in Ends /\ "consumer" \in Ends
      /\ p \in Dispatcher /\ Capacity \in Nat \ {0}
      /\ p.avail \in Nat /\ p.offset \in Nat /\ p.offset < Capacity
      /\ p.avail <= Capacity
      /\ written \in Nat /\ Len(delivered) \in Nat
  BY TheEnds, Capacities, Numbers DEF IInv, TypeOK
<1>2. /\ p.ring /\ ~p.inTransit /\ "producer" \notin away
      /\ buf' = Filled(p.offset, n)
      /\ UNCHANGED <<notes, wire, queue, peerShut, event, wait, away, leaving,
                     moves, written, delivered, refused>>
  BY DEF BeginWriteData, Usable
<1>3. d' = [d EXCEPT !["producer"] = r]
  BY <1>1 DEF BeginWriteData, TypeOK
<1>4. n \in Nat /\ n <= p.avail
  BY <1>1 DEF Least
<1> HIDE DEF n
<1>5. /\ r \in Dispatcher /\ r.avail = p.avail /\ r.offset = p.offset
      /\ r.closed = p.closed /\ r.ring = p.ring /\ r.inTransit = p.inTransit
      /\ r.peerClosed = p.peerClosed /\ r.max = n
  BY <1>1, <1>4 DEF Dispatcher
<1> HIDE DEF r
<1>6. d'["producer"] = r /\ \A x \in Ends : x # "producer" => d'[x] = d[x]
  BY <1>1, <1>3 DEF TypeOK
<1>7. \A x \in Ends : /\ d'[x].avail = d[x].avail /\ d'[x].offset = d[x].offset
                      /\ d'[x].closed = d[x].closed /\ d'[x].ring = d[x].ring
                      /\ d'[x].inTransit = d[x].inTransit
                      /\ d'[x].peerClosed = d[x].peerClosed
  BY <1>5, <1>6
<1>8. ~p.closed
  BY <1>1, <1>2 DEF IInv, Lifecycle
<1>9. p.offset = written % Capacity /\ n \in 0..Capacity
        /\ buf \in [0..(Capacity - 1) -> Nat]
  BY <1>1, <1>4 DEF IInv, Offsets, TypeOK
<1>10. /\ buf' \in [0..(Capacity - 1) -> Nat]
       /\ \A j \in 0..(n - 1) : buf'[(written + j) % Capacity] = written + j + 1
       /\ \A b \in Nat : b < written /\ written + n <= b + Capacity =>
            buf'[b % Capacity] = buf[b % Capacity]
  BY <1>1, <1>2, <1>9, FilledIs
<1>11. Contents'
  <2> SUFFICES ASSUME NEW b \in (Len(delivered) + 1)..written
               PROVE  buf'[(b - 1) % Capacity] = b
    BY <1>2 DEF Contents
  <2>1. p.avail <= Due("producer") /\ Due("producer") \in Nat
    BY <1>1, AvailDue, Numbers
  <2>2. Due("producer") = Capacity - (written - Len(delivered))
    BY <1>8 DEF IInv, FreeAccount
  <2>3. b - 1 \in Nat /\ b - 1 < written /\ written + n <= (b - 1) + Capacity
    BY <1>1, <1>4, <2>1, <2>2
  <2>4. buf'[(b - 1) % Capacity] = buf[(b - 1) % Capacity]
    BY <1>10, <2>3
  <2> QED
    BY <2>4 DEF IInv, Contents
<1>12. TypeOK'
  <2>1. d' \in [Ends -> Dispatcher]
    BY <1>1, <1>3, <1>5 DEF TypeOK
  <2> QED
    BY <1>1, <1>2, <1>7, <1>10, <2>1 DEF TypeOK
<1>13. Lifecycle'
  <2>1. \A x \in Ends : x # "producer" => d'[x].inTwoPhase = d[x].inTwoPhase
    BY <1>6
  <2>2. ~d'["producer"].inTransit /\ "producer" \notin away'
    BY <1>1, <1>2, <1>7
  <2> QED
    BY <1>2, <1>7, <2>1, <2>2, TheEnds DEF IInv, Lifecycle
<1>14. InFlight' /\ Offsets' /\ Ordered'
  BY <1>2, <1>7, TheEnds DEF IInv, InFlight, Offsets, Ordered
<1>15. WrittenAccount' /\ FreeAccount'
  <2>1. \A x \in Ends : Due(x)' = Due(x)
    BY <1>2, <1>7 DEF Due
  <2> QED
    BY <1>2, <1>7, <2>1, AccountsKept
<1>16. TwoPhase'
  <2>1. d'["producer"].max <= d'["producer"].avail
    BY <1>4, <1>5, <1>6
  <2>2. \A x \in Ends : Ending(x)' <=> Ending(x)
    BY <1>2 DEF Ending
  <2> QED
    BY <1>6, <2>1, <2>2 DEF IInv, TwoPhase
<1>17. Granted'
  BY <1>2, <1>5, <1>6, <1>10 DEF Granted
<1>18. Told'
  BY <1>2, <1>7, TheEnds DEF IInv, Told
<1>19. IInv'
  BY <1>11, <1>12, <1>13, <1>14, <1>15, <1>16, <1>17, <1>18 DEF IInv
<1>20. Calm("producer")
  BY <1>1, <1>2, <1>7 DEF Calm, Unclosed
<1> QED
  BY <1>19, <1>20

\* EndWriteData: the cells that the caller filled become the next bytes.
LEMMA EndWriteDataInv ==
  ASSUME IInv, NEW n \in Nat, n \in Claims("producer"), EndWriteData(n)
  PROVE  IInv' /\ (Wrote \/ Calm("producer"))
<1> DEFINE p == d["producer"]
<1>1. /\ TypeOK /\ "producer" \in Ends /\ p \in Dispatcher
      /\ wait["producer"] \in Waiting /\ Capacity \in Nat \ {0}
      /\ p.avail \in Nat /\ p.offset \in Nat /\ p.max \in Nat
      /\ written \in Nat /\ Len(delivered) \in Nat
  BY TheEnds, Capacities, Numbers DEF IInv, TypeOK
<1>2. /\ ~p.closed /\ ~p.inTransit /\ "producer" \notin away /\ p.inTwoPhase
      /\ ~Ending("producer")
      /\ UNCHANGED <<buf, wire, queue, peerShut, event, away, leaving, moves,
                     delivered, refused>>
  BY DEF EndWriteData, Claims
<1>3. CASE EndWriteDataRefuses(p, n)
  <2> DEFINE r == EndsTwoPhaseWrite(p)
  <2>1. /\ d' = [d EXCEPT !["producer"] = r]
        /\ wait' = [wait EXCEPT !["producer"] = WokenWritable(r, @)]
        /\ UNCHANGED <<notes, written>>
    BY <1>3 DEF EndWriteData
  <2>2. /\ r \in Dispatcher /\ r.avail = p.avail /\ r.offset = p.offset
        /\ r.closed = p.closed /\ r.ring = p.ring /\ r.inTransit = p.inTransit
        /\ r.peerClosed = p.peerClosed /\ r.inTwoPhase = FALSE
    BY <1>1 DEF Dispatcher, EndsTwoPhaseWrite
  <2> HIDE DEF r
  <2>3. WokenWritable(r, wait["producer"]) \in Waiting
    BY <1>1, AwakeType DEF WokenWritable
  <2>4. /\ wait' \in [Ends -> Waiting] /\ event' \subseteq Ends
        /\ away' \subseteq Ends /\ leaving' \in [Ends -> Leaving]
        /\ moves' \in Nat /\ notes' \in [Ends -> Seq(Note)]
        /\ refused' \in [Ends -> Nat]
    BY <1>1, <1>2, <2>1, <2>3 DEF TypeOK
  <2> QED
    BY <1>1, <1>2, <2>1, <2>2, <2>4, FlagsInv
<1>4. CASE ~EndWriteDataRefuses(p, n)
  <2> DEFINE r == [p EXCEPT !.avail = @ - n, !.offset = (@ + n) % Capacity]
  <2>1. d' = [d EXCEPT !["producer"] = r]
    BY <1>1, <1>4 DEF EndWriteData, TypeOK
  <2>2. /\ notes' = [notes EXCEPT !["producer"] = Append(@, [n |-> n, ends |-> TRUE])]
        /\ written' = written + n /\ wait' = wait
    BY <1>4 DEF EndWriteData, Starts
  <2>3. n <= p.avail
    BY <1>1, <1>4 DEF EndWriteDataRefuses
  <2>4. (p.offset + n) % Capacity \in Nat /\ p.avail - n \in Nat
    <3>1. p.avail - n \in Nat
      BY <1>1, <2>3
    <3>2. (p.offset + n) % Capacity \in Nat
      BY <1>1, ModNat
    <3> QED
      BY <3>1, <3>2
  <2>5. /\ r \in Dispatcher /\ r.avail = p.avail - n
        /\ r.offset = (p.offset + n) % Capacity
        /\ r.closed = p.closed /\ r.ring = p.ring /\ r.inTransit = p.inTransit
        /\ r.peerClosed = p.peerClosed /\ r.inTwoPhase = p.inTwoPhase
    BY <1>1, <2>4 DEF Dispatcher
  <2> HIDE DEF r
  <2>6. n <= p.max
    <3>1. n # Capacity + ElementBytes
      <4>1. p.avail <= Capacity /\ ElementBytes \in Nat \ {0}
        BY <1>1, DataPipeAssumption DEF TypeOK
      <4> QED
        BY <1>1, <2>3, <4>1
    <3>2. n \in 0..p.max \/ n \in 1..p.max
      BY <3>1 DEF Claims
    <3> QED
      BY <1>1, <3>2
  <2>7. \A j \in 0..(n - 1) : buf'[(written + j) % Capacity] = written + j + 1
    <3>1. \A j \in 0..(n - 1) : j \in 0..(p.max - 1)
      BY <1>1, <2>6
    <3> QED
      BY <1>2, <3>1 DEF IInv, Granted
  <2>8. \A b \in (Len(delivered) + 1)..written : buf'[(b - 1) % Capacity] = b
    BY <1>2 DEF IInv, Contents
  <2>9. buf' \in [0..(Capacity - 1) -> Nat] /\ wait' \in [Ends -> Waiting]
    BY <1>1, <1>2, <2>2 DEF TypeOK
  <2> QED
    BY <1>2, <2>1, <2>2, <2>3, <2>5, <2>7, <2>8, <2>9, WritesInv
<1> QED
  BY <1>3, <1>4

\* ReadData takes the bytes that come next.
LEMMA ReadDataInv ==
  ASSUME IInv, NEW n \in Nat, ReadData(n)
  PROVE  IInv' /\ Took
<1> DEFINE c == d["consumer"]
           k == Least(n, c.avail)
           r == [c EXCEPT !.offset = (@ + k) % Capacity, !.avail = @ - k]
<1>1. /\ TypeOK /\ "consumer" \in Ends /\ c \in Dispatcher
      /\ Capacity \in Nat \ {0} /\ c.avail \in Nat /\ c.offset \in Nat
  BY TheEnds, Capacities, Numbers DEF IInv, TypeOK
<1>2. /\ c.ring /\ ~c.inTwoPhase
      /\ delivered' = delivered \o Bytes(c.offset, k)
      /\ notes' = [notes EXCEPT !["consumer"] = Append(@, [n |-> k, ends |-> FALSE])]
      /\ UNCHANGED <<buf, wire, queue, peerShut, event, wait, away, leaving,
                     moves, written, refused>>
  BY DEF ReadData, Usable, Starts
<1>3. d' = [d EXCEPT !["consumer"] = r]
  BY <1>1 DEF ReadData, TypeOK
<1>4. k \in Nat /\ k <= c.avail
  BY <1>1 DEF Least
<1> HIDE DEF k
<1>5. (c.offset + k) % Capacity \in Nat /\ c.avail - k \in Nat
  <2>1. c.avail - k \in Nat
    BY <1>1, <1>4
  <2>2. (c.offset + k) % Capacity \in Nat
    BY <1>1, <1>4, ModNat
  <2> QED
    BY <2>1, <2>2
<1>6. /\ r \in Dispatcher /\ r.avail = c.avail - k
      /\ r.offset = (c.offset + k) % Capacity
      /\ r.closed = c.closed /\ r.ring = c.ring /\ r.inTransit = c.inTransit
      /\ r.peerClosed = c.peerClosed /\ r.inTwoPhase = c.inTwoPhase
  BY <1>1, <1>5 DEF Dispatcher
<1>7. ~c.closed
  BY <1>1, <1>2 DEF IInv, Lifecycle
<1>8. wait' \in [Ends -> Waiting]
  BY <1>1, <1>2 DEF TypeOK
<1> HIDE DEF r
<1> QED
  BY <1>2, <1>3, <1>4, <1>6, <1>7, <1>8, ReadsInv

\* BeginReadData grants no more than there is.
LEMMA BeginReadDataInv ==
  ASSUME IInv, BeginReadData
  PROVE  IInv' /\ Calm("consumer")
<1> DEFINE c == d["consumer"]
           n == Least(c.avail, Capacity - c.offset)
           r == [c EXCEPT !.inTwoPhase = TRUE, !.max = n]
<1>1. /\ TypeOK /\ "producer" \in Ends /\ "consumer" \in Ends
      /\ c \in Dispatcher /\ Capacity \in Nat \ {0}
      /\ c.avail \in Nat /\ c.offset \in Nat /\ c.offset < Capacity
  BY TheEnds, Capacities, Numbers DEF IInv, TypeOK
<1>2. /\ c.ring /\ ~c.inTransit /\ "consumer" \notin away
      /\ UNCHANGED <<buf, notes, wire, queue, peerShut, event, wait, away,
                     leaving, moves, written, delivered, refused>>
  BY DEF BeginReadData, Usable
<1>3. d' = [d EXCEPT !["consumer"] = r]
  BY <1>1 DEF BeginReadData, TypeOK
<1>4. n \in Nat /\ n <= c.avail
  BY <1>1 DEF Least
<1> HIDE DEF n
<1>5. /\ r \in Dispatcher /\ r.avail = c.avail /\ r.offset = c.offset
      /\ r.closed = c.closed /\ r.ring = c.ring /\ r.inTransit = c.inTransit
      /\ r.peerClosed = c.peerClosed /\ r.max = n
  BY <1>1, <1>4 DEF Dispatcher
<1> HIDE DEF r
<1>6. d'["consumer"] = r /\ \A x \in Ends : x # "consumer" => d'[x] = d[x]
  BY <1>1, <1>3 DEF TypeOK
<1>7. \A x \in Ends : /\ d'[x].avail = d[x].avail /\ d'[x].offset = d[x].offset
                      /\ d'[x].closed = d[x].closed /\ d'[x].ring = d[x].ring
                      /\ d'[x].inTransit = d[x].inTransit
                      /\ d'[x].peerClosed = d[x].peerClosed
  BY <1>5, <1>6
<1>8. TypeOK'
  <2>1. d' \in [Ends -> Dispatcher]
    BY <1>1, <1>3, <1>5 DEF TypeOK
  <2> QED
    BY <1>1, <1>2, <1>7, <2>1 DEF TypeOK
<1>9. Lifecycle'
  <2>1. \A x \in Ends : x # "consumer" => d'[x].inTwoPhase = d[x].inTwoPhase
    BY <1>6
  <2>2. ~d'["consumer"].inTransit /\ "consumer" \notin away'
    BY <1>1, <1>2, <1>7
  <2> QED
    BY <1>2, <1>7, <2>1, <2>2, TheEnds DEF IInv, Lifecycle
<1>10. InFlight' /\ Offsets' /\ Contents' /\ Ordered'
  BY <1>2, <1>7, TheEnds DEF IInv, InFlight, Offsets, Contents, Ordered
<1>11. WrittenAccount' /\ FreeAccount'
  <2>1. \A x \in Ends : Due(x)' = Due(x)
    BY <1>2, <1>7 DEF Due
  <2> QED
    BY <1>2, <1>7, <2>1, AccountsKept
<1>12. TwoPhase' /\ Granted'
  <2>1. d'["consumer"].max <= d'["consumer"].avail
    BY <1>4, <1>5, <1>6
  <2>2. \A x \in Ends : Ending(x)' <=> Ending(x)
    BY <1>2 DEF Ending
  <2>3. d'["producer"] = d["producer"]
    BY <1>1, <1>6
  <2> QED
    BY <1>1, <1>2, <1>6, <2>1, <2>2, <2>3 DEF IInv, TwoPhase, Granted
<1>13. Told'
  BY <1>2, <1>7, TheEnds DEF IInv, Told
<1>14. IInv'
  BY <1>8, <1>9, <1>10, <1>11, <1>12, <1>13 DEF IInv
<1>15. Calm("consumer")
  BY <1>1, <1>2, <1>7 DEF Calm, Unclosed
<1> QED
  BY <1>14, <1>15

\* EndReadData takes the bytes that come next, or none.
LEMMA EndReadDataInv ==
  ASSUME IInv, NEW n \in Nat, n \in Claims("consumer"), EndReadData(n)
  PROVE  IInv' /\ (Took \/ Calm("consumer"))
<1> DEFINE c == d["consumer"]
<1>1. /\ TypeOK /\ "consumer" \in Ends /\ c \in Dispatcher
      /\ wait["consumer"] \in Waiting /\ Capacity \in Nat \ {0}
      /\ c.avail \in Nat /\ c.offset \in Nat /\ c.max \in Nat
  BY TheEnds, Capacities, Numbers DEF IInv, TypeOK
<1>2. /\ c.inTwoPhase /\ ~c.inTransit /\ "consumer" \notin away /\ c.ring
      /\ ~Ending("consumer")
      /\ UNCHANGED <<buf, wire, queue, peerShut, event, away, leaving, moves,
                     written, refused>>
  BY DEF EndReadData, Claims
<1>3. ~c.closed
  BY <1>1, <1>2 DEF IInv, Lifecycle
<1>4. CASE n > c.max \/ n % ElementBytes # 0
  <2> DEFINE r == EndsTwoPhaseRead(c)
  <2>1. /\ d' = [d EXCEPT !["consumer"] = r]
        /\ wait' = [wait EXCEPT !["consumer"] =
                      WokenIfChanged("consumer", Signals("consumer", c), r, @)]
        /\ UNCHANGED <<notes, delivered>>
    BY <1>4 DEF EndReadData
  <2>2. /\ r \in Dispatcher /\ r.avail = c.avail /\ r.offset = c.offset
        /\ r.closed = c.closed /\ r.ring = c.ring /\ r.inTransit = c.inTransit
        /\ r.peerClosed = c.peerClosed /\ r.inTwoPhase = FALSE
    BY <1>1 DEF Dispatcher, EndsTwoPhaseRead
  <2> HIDE DEF r
  <2>3. WokenIfChanged("consumer", Signals("consumer", c), r, wait["consumer"])
          \in Waiting
    BY <1>1, AwakeType DEF WokenIfChanged
  <2>4. /\ wait' \in [Ends -> Waiting] /\ event' \subseteq Ends
        /\ away' \subseteq Ends /\ leaving' \in [Ends -> Leaving]
        /\ moves' \in Nat /\ notes' \in [Ends -> Seq(Note)]
        /\ refused' \in [Ends -> Nat]
    BY <1>1, <1>2, <2>1, <2>3 DEF TypeOK
  <2> QED
    BY <1>1, <1>2, <1>3, <2>1, <2>2, <2>4, FlagsInv
<1>5. CASE ~(n > c.max \/ n % ElementBytes # 0)
  <2> DEFINE r == [c EXCEPT !.offset = (@ + n) % Capacity, !.avail = @ - n]
  <2>1. d' = [d EXCEPT !["consumer"] = r]
    BY <1>1, <1>5 DEF EndReadData, TypeOK
  <2>2. /\ notes' = [notes EXCEPT !["consumer"] = Append(@, [n |-> n, ends |-> TRUE])]
        /\ delivered' = delivered \o Bytes(c.offset, n) /\ wait' = wait
    BY <1>5 DEF EndReadData, Starts
  <2>3. n <= c.avail
    <3>1. c.max <= c.avail
      BY <1>1, <1>2 DEF IInv, TwoPhase
    <3> QED
      BY <1>1, <1>5, <3>1
  <2>4. (c.offset + n) % Capacity \in Nat /\ c.avail - n \in Nat
    <3>1. c.avail - n \in Nat
      BY <1>1, <2>3
    <3>2. (c.offset + n) % Capacity \in Nat
      BY <1>1, ModNat
    <3> QED
      BY <3>1, <3>2
  <2>5. /\ r \in Dispatcher /\ r.avail = c.avail - n
        /\ r.offset = (c.offset + n) % Capacity
        /\ r.closed = c.closed /\ r.ring = c.ring /\ r.inTransit = c.inTransit
        /\ r.peerClosed = c.peerClosed /\ r.inTwoPhase = c.inTwoPhase
    BY <1>1, <2>4 DEF Dispatcher
  <2> HIDE DEF r
  <2>6. wait' \in [Ends -> Waiting]
    BY <1>1, <2>2 DEF TypeOK
  <2> QED
    BY <1>2, <1>3, <2>1, <2>2, <2>3, <2>5, <2>6, ReadsInv
<1> QED
  BY <1>4, <1>5

-----------------------------------------------------------------------------
(* Every step keeps the invariant and is a step of the byte stream.        *)

Effect == Wrote \/ Took \/ \E e \in Ends : Calm(e) \/ Shut(e)

\* Every step keeps the invariant and has one of the effects of the stream.
LEMMA NextInv ==
  ASSUME IInv, [Next]_vars
  PROVE  IInv' /\ Effect
<1>0. /\ "producer" \in Ends /\ "consumer" \in Ends /\ TypeOK
      /\ MaxBytes \in Nat /\ Capacity \in Nat \ {0} /\ ElementBytes \in Nat \ {0}
      /\ written \in Nat
      /\ Waits \in [{"producer", "consumer"} -> SUBSET {"data", "peerClosed"}]
      /\ Mappings \subseteq BOOLEAN
  BY TheEnds, DataPipeAssumption DEF IInv, TypeOK
<1>1. CASE UNCHANGED vars
  <2>1. TypeOK'
    BY <1>0, <1>1 DEF TypeOK, vars
  <2>2. UNCHANGED core
    BY <1>1 DEF vars, core
  <2> QED
    BY <1>0, <2>1, <2>2, SameCore DEF Effect
<1>2. CASE ProducerCall
  <2>1. ASSUME NEW n \in Writes, WriteData(n) PROVE IInv' /\ Effect
    <3>1. n \in Nat
      BY <1>0 DEF Writes
    <3> QED
      BY <2>1, <3>1, WriteDataInv DEF Effect
  <2>2. ASSUME BeginWriteData PROVE IInv' /\ Effect
    BY <1>0, <2>2, BeginWriteDataInv DEF Effect
  <2>3. ASSUME NEW n \in Claims("producer"), EndWriteData(n) PROVE IInv' /\ Effect
    <3>1. n \in Nat
      BY <1>0, Numbers DEF Claims
    <3> QED
      BY <1>0, <2>3, <3>1, EndWriteDataInv DEF Effect
  <2> QED
    BY <1>2, <2>1, <2>2, <2>3 DEF ProducerCall
<1>3. CASE ConsumerCall
  <2>1. ASSUME NEW n \in Reads, ReadData(n) PROVE IInv' /\ Effect
    <3>1. n \in Nat
      BY <1>0 DEF Reads
    <3> QED
      BY <2>1, <3>1, ReadDataInv DEF Effect
  <2>2. ASSUME BeginReadData PROVE IInv' /\ Effect
    BY <1>0, <2>2, BeginReadDataInv DEF Effect
  <2>3. ASSUME NEW n \in Claims("consumer"), EndReadData(n) PROVE IInv' /\ Effect
    <3>1. n \in Nat
      BY <1>0, Numbers DEF Claims
    <3> QED
      BY <1>0, <2>3, <3>1, EndReadDataInv DEF Effect
  <2> QED
    BY <1>3, <2>1, <2>2, <2>3 DEF ConsumerCall
<1>4. ASSUME NEW e \in Ends, Await(e) PROVE IInv' /\ Effect
  <2>1. \A s \in Waits[e] : s \in Waiting
    BY <1>0 DEF Waiting, Ends
  <2> QED
    BY <1>4, <2>1, AddAwakableInv, RemoveAwakableInv DEF Await, Effect
<1>5. ASSUME NEW e \in Ends, Transit(e) PROVE IInv' /\ Effect
  <2>1. \A m \in Mappings : m \in BOOLEAN
    BY <1>0
  <2> QED
    BY <1>5, <2>1, BeginTransitInv, CancelTransitInv, EndSerializeInv,
       CompleteTransitAndCloseInv, DeserializeInv DEF Transit, Effect
<1>6. ASSUME NEW e \in Ends, ControlPort(e) PROVE IInv' /\ Effect
  BY <1>6, NotifyInv, DeliverInv, ObserveClosureInv, OnPortStatusChangedInv,
     LateStatusChangedInv DEF ControlPort, Effect
<1>7. ASSUME NEW e \in Ends, Close(e) PROVE IInv' /\ Effect
  BY <1>7, CloseInv DEF Effect
<1> QED
  BY <1>0, <1>1, <1>2, <1>3, <1>4, <1>5, <1>6, <1>7
  DEF Next, ProducerAwait, ConsumerAwait, ProducerTransit, ConsumerTransit,
      ProducerPort, ConsumerPort, ProducerClose, ConsumerClose

\* Each of these effects is a step of the byte stream, or none.
LEMMA EffectIsStreamStep ==
  ASSUME IInv, IInv', Effect
  PROVE  [Stream!Next]_(Stream!vars)
<1> DEFINE closed == {e \in Ends : d[e].closed}
           told == {e \in Ends : d[e].peerClosed}
<1>1. /\ written \in Nat /\ Len(delivered) \in Nat /\ Capacity \in Nat
      /\ "producer" \in Ends /\ "consumer" \in Ends
      /\ Stream!Ends = Ends /\ \A e \in Ends : Stream!Other(e) = Other(e)
  BY Capacities, Numbers, TheEnds DEF IInv, Stream!Ends, Ends, Stream!Other, Other
<1>2. CASE Wrote
  <2>1. closed' = closed /\ told' = told /\ delivered' = delivered
    BY <1>2 DEF Wrote, Unclosed, Untold
  <2>2. CASE written' = written
    BY <2>1, <2>2 DEF Stream!vars
  <2>3. CASE written' > written
    <3>1. written' \in (written + 1)..(Len(delivered) + Capacity)
      BY <1>1, <1>2, <2>1, <2>3 DEF IInv, InFlight, Wrote
    <3>2. "producer" \notin closed
      BY <1>2 DEF Wrote
    <3> QED
      BY <2>1, <3>1, <3>2 DEF Stream!Next, Stream!Write
  <2> QED
    BY <1>1, <1>2, <2>2, <2>3 DEF Wrote
<1>3. CASE Took
  <2>1. closed' = closed /\ told' = told /\ written' = written
          /\ "consumer" \notin closed
    BY <1>3 DEF Took, Unclosed, Untold
  <2>2. PICK n \in 0..(written - Len(delivered)) :
               delivered' = delivered \o [i \in 1..n |-> Len(delivered) + i]
    BY <1>3 DEF Took
  <2>3. CASE n = 0
    <3>1. [i \in 1..0 |-> Len(delivered) + i] = <<>>
      OBVIOUS
    <3>2. delivered \o <<>> = delivered
      BY Numbers, ConcatEmptySeq DEF IInv
    <3>3. delivered' = delivered
      BY <2>2, <2>3, <3>1, <3>2
    <3> QED
      BY <2>1, <3>3 DEF Stream!vars
  <2>4. CASE n # 0
    <3>1. n \in 1..(written - Len(delivered))
      BY <1>1, <2>4
    <3> QED
      BY <2>1, <2>2, <3>1 DEF Stream!Next, Stream!Read
  <2> QED
    BY <2>3, <2>4
<1>4. ASSUME NEW e \in Ends, Calm(e) PROVE [Stream!Next]_(Stream!vars)
  <2>1. closed' = closed /\ written' = written /\ delivered' = delivered
    BY <1>4 DEF Calm, Unclosed
  <2>2. CASE d'[e].peerClosed
    <3>1. told' = told \cup {e}
      BY <1>4, <2>2 DEF Calm
    <3>2. Other(e) \in closed
      BY <1>4, <2>2, TheEnds DEF IInv, Told, Calm, Unclosed
    <3> QED
      BY <1>1, <2>1, <3>1, <3>2 DEF Stream!Next, Stream!Tell
  <2>3. CASE ~d'[e].peerClosed
    <3>1. told' = told
      BY <1>4, <2>3 DEF Calm
    <3> QED
      BY <2>1, <3>1 DEF Stream!vars
  <2> QED
    BY <2>2, <2>3
<1>5. ASSUME NEW e \in Ends, Shut(e) PROVE [Stream!Next]_(Stream!vars)
  <2>1. told' = told /\ written' = written /\ delivered' = delivered
    BY <1>5 DEF Shut, Untold
  <2>2. e \notin closed /\ closed' = closed \cup {e}
    BY <1>5 DEF Shut
  <2> QED
    BY <1>1, <2>1, <2>2 DEF Stream!Next, Stream!Close
<1> QED
  BY <1>2, <1>3, <1>4, <1>5 DEF Effect

-----------------------------------------------------------------------------
(* The theorems.                                                           *)

\* The inductive invariant: the books of both ends balance, the cells between the
\* two offsets hold the bytes that are still to be read, and a closure is told
\* after the last byte.
THEOREM Invariance == Spec => []IInv
<1>1. IInv /\ [Next]_vars => IInv'
  BY NextInv
<1> QED
  BY InitInv, <1>1, PTL DEF Spec

\* Type correctness; avail and offset stay within the ring buffer, which the
\* CHECK-free arithmetic of the two dispatchers relies on.
THEOREM TypeCorrect == Spec => []TypeOK
<1>1. IInv => TypeOK
  BY DEF IInv
<1> QED
  BY Invariance, <1>1, PTL

\* The two accounts together say how the cells of the ring are shared.
LEMMA InvAccounting ==
  ASSUME IInv
  PROVE  Accounting
<1> SUFFICES ASSUME \A e \in Ends : ~d[e].closed
             PROVE  d["producer"].avail + Reported("producer")
                      + d["consumer"].avail + Reported("consumer")
                      + refused["producer"] + refused["consumer"] = Capacity
  BY DEF Accounting
<1>1. /\ TypeOK /\ "producer" \in Ends /\ "consumer" \in Ends
      /\ Other("producer") = "consumer" /\ Other("consumer") = "producer"
      /\ Capacity \in Nat
  BY TheEnds, Capacities DEF IInv
<1>2. Due("consumer") + Due("producer") = Capacity
  <2>1. /\ Due("consumer") = written - Len(delivered)
        /\ Due("producer") = Capacity - (written - Len(delivered))
    BY <1>1 DEF IInv, WrittenAccount, FreeAccount
  <2>2. written \in Nat /\ Len(delivered) \in Nat
    BY <1>1, Numbers
  <2> QED
    BY <1>1, <2>1, <2>2
<1> DEFINE ap == d["producer"].avail
           ac == d["consumer"].avail
           qp == Total(queue["producer"])
           qc == Total(queue["consumer"])
           wp == Total(wire["producer"])
           wc == Total(wire["consumer"])
           np == Noted(notes["producer"])
           nc == Noted(notes["consumer"])
           fp == refused["producer"]
           fc == refused["consumer"]
<1>3. /\ ap \in Nat /\ ac \in Nat /\ qp \in Nat /\ qc \in Nat /\ wp \in Nat
      /\ wc \in Nat /\ np \in Nat /\ nc \in Nat /\ fp \in Nat /\ fc \in Nat
  BY <1>1, Numbers
<1>4. /\ Due("consumer") = ac + qc + wc + np + fp
      /\ Due("producer") = ap + qp + wp + nc + fc
      /\ Reported("producer") = np + wc + qc
      /\ Reported("consumer") = nc + wp + qp
  BY <1>1 DEF Due, Reported
<1> HIDE DEF ap, ac, qp, qc, wp, wc, np, nc, fp, fc
<1>5. ap + Reported("producer") + ac + Reported("consumer") + fp + fc = Capacity
  BY <1>2, <1>3, <1>4
<1> QED
  BY <1>5 DEF ap, ac, fp, fc

\* Every cell of the ring belongs to one side or is on its way to the other, as
\* long as both ends are open: no byte is lost or counted twice by WriteData,
\* ReadData, the two-phase calls, UpdateSignalsState or a transit.
THEOREM AccountingHolds == Spec => []Accounting
<1>1. IInv => Accounting
  BY InvAccounting
<1> QED
  BY Invariance, <1>1, PTL

\* With the closure told nothing is left between the ends.
LEMMA InvClosureTrue ==
  ASSUME IInv
  PROVE  ClosureTrue
<1> SUFFICES ASSUME NEW e \in Ends, d[e].peerClosed
             PROVE  /\ d[Other(e)].closed
                    /\ e = "consumer" /\ ~d[e].closed =>
                         Len(delivered) + d[e].avail + refused["producer"] = written
  BY DEF ClosureTrue
<1>1. d[Other(e)].closed
  BY DEF IInv, Told
<1>2. ASSUME e = "consumer", ~d[e].closed
      PROVE  Len(delivered) + d[e].avail + refused["producer"] = written
  <2>1. /\ TypeOK /\ "producer" \in Ends /\ "consumer" \in Ends
        /\ Other("consumer") = "producer"
    BY TheEnds DEF IInv
  <2>2. /\ wire["consumer"] = <<>> /\ queue["consumer"] = <<>>
        /\ notes["producer"] = <<>>
    BY <1>1, <1>2, <2>1 DEF IInv, Told, Lifecycle
  <2>3. Due("consumer") = d["consumer"].avail + 0 + 0 + 0 + refused["producer"]
    BY <2>1, <2>2, TotalEmpty, NotedEmpty DEF Due
  <2>4. Due("consumer") = written - Len(delivered)
    BY <1>2 DEF IInv, WrittenAccount
  <2>5. /\ written \in Nat /\ Len(delivered) \in Nat
        /\ d["consumer"].avail \in Nat /\ refused["producer"] \in Nat
    BY <2>1, Numbers
  <2> QED
    BY <1>2, <2>3, <2>4, <2>5
<1> QED
  BY <1>1, <1>2

\* peer_closed_ is true: the peer is closed, and the consumer knows of every byte
\* whose notification was sent.
THEOREM ClosureTrueHolds == Spec => []ClosureTrue
<1>1. IInv => ClosureTrue
  BY InvClosureTrue
<1> QED
  BY Invariance, <1>1, PTL

\* The two dispatchers, their control ports and the ring implement the byte
\* stream of ByteStream: bytes come out in the order they went in, none is
\* overwritten before it was read, and a closure is told after it happened.
THEOREM Refinement == Spec => ImplementsStream
<1>1. Init => Stream!Init
  BY DEF Init, Stream!Init, New, Ends
<1>2. IInv /\ [Next]_vars /\ IInv' => [Stream!Next]_(Stream!vars)
  BY NextInv, EffectIsStreamStep
<1> QED
  BY Invariance, <1>1, <1>2, PTL DEF Spec, ImplementsStream, Stream!Spec

-----------------------------------------------------------------------------
(* Nobody waits for what is there.                                         *)

\* At most one call under way ends a two-phase operation, and until it has
\* notified the peer the operation is not over.
OneEnding(e) ==
  /\ Ending(e) => d[e].inTwoPhase
  /\ \A i, j \in DOMAIN notes[e] : notes[e][i].ends /\ notes[e][j].ends => i = j

\* The signal that the holder of an end waits for is not there and can come;
\* while a two-phase operation ends this holds of the closure only.
Pending(e) ==
  /\ wait[e] = "peerClosed" \/ e = "producer" => ~d[e].peerClosed
  /\ ~Ending(e) => ~Satisfied(e, d[e], wait[e]) /\ CanSatisfy(e, d[e], wait[e])

\* The dispatcher has looked at its port, or will.
Looked(e) ==
  \/ e \in event
  \/ d[e].inTransit
  \/ e = "producer" /\ moves > 0
  \/ queue[e] = <<>> /\ (Receiving(e) \/ d[e].peerClosed)

WaiterOK(e) ==
  /\ OneEnding(e)
  /\ d[e].inTransit => moves > 0
  /\ wait[e] # "none" => d[e].ring /\ e \notin away /\ Pending(e) /\ Looked(e)

WInv == IInv /\ \A e \in Ends : WaiterOK(e)

\* What an awakable that is not woken knows.
LEMMA AwakeIs ==
  ASSUME NEW e, NEW r, NEW w
  PROVE  \/ AwakeForStateChange(e, r, w) = "none"
         \/ /\ AwakeForStateChange(e, r, w) = w
            /\ ~Satisfied(e, r, w) /\ CanSatisfy(e, r, w)
BY DEF AwakeForStateChange

\* The signals depend on four fields.
LEMMA SameSignals ==
  ASSUME NEW e, NEW r, NEW s, NEW w,
         r.ring = s.ring, r.inTwoPhase = s.inTwoPhase, r.avail = s.avail,
         r.peerClosed = s.peerClosed
  PROVE  /\ Satisfied(e, r, w) <=> Satisfied(e, s, w)
         /\ CanSatisfy(e, r, w) <=> CanSatisfy(e, s, w)
BY DEF Satisfied, CanSatisfy

\* A signal that is pending of a closure is pending of an open end.
LEMMA PendingOpen ==
  ASSUME NEW e, NEW r, NEW w \in Waiting, w # "none",
         ~Satisfied(e, r, w), CanSatisfy(e, r, w)
  PROVE  w = "peerClosed" \/ e = "producer" => ~r.peerClosed
BY DEF Satisfied, CanSatisfy, Waiting

\* Signals that compare equal are equal one by one.
LEMMA SignalsEqual ==
  ASSUME NEW e, NEW r, NEW s, Signals(e, r) = Signals(e, s), NEW w \in Waiting,
         w # "none"
  PROVE  /\ Satisfied(e, r, w) = Satisfied(e, s, w)
         /\ CanSatisfy(e, r, w) = CanSatisfy(e, s, w)
<1>1. w \in {"data", "peerClosed"}
  BY DEF Waiting
<1>2. Signals(e, r)[w] = Signals(e, s)[w]
  OBVIOUS
<1>3. <<Satisfied(e, r, w), CanSatisfy(e, r, w)>>
        = <<Satisfied(e, s, w), CanSatisfy(e, s, w)>>
  BY <1>1, <1>2 DEF Signals
<1> QED
  BY <1>3

\* A step that does not touch end x, except that its peer may send to it.
LEMMA WaiterFrame ==
  ASSUME NEW x \in Ends, WaiterOK(x), d'[x] = d[x], wait'[x] = wait[x],
         notes'[x] = notes[x], queue'[x] = queue[x],
         x \in away' <=> x \in away, x \in event => x \in event',
         moves \in Nat, moves' \in Nat, moves' >= moves,
         x \in peerShut' <=> x \in peerShut,
         wire'[x] = wire[x] \/ wire'[x] # <<>>
  PROVE  WaiterOK(x)'
<1>1. Ending(x)' <=> Ending(x)
  BY DEF Ending
<1>2. OneEnding(x)'
  BY <1>1 DEF WaiterOK, OneEnding
<1>3. moves > 0 => moves' > 0
  OBVIOUS
<1>4. Pending(x) => Pending(x)'
  BY <1>1 DEF Pending
<1>5. Looked(x) => Looked(x)'
  BY <1>3 DEF Looked, Receiving
<1> QED
  BY <1>2, <1>3, <1>4, <1>5 DEF WaiterOK

\* The steps by which an end looks at its port.
LEMMA UpdateWaiter ==
  ASSUME WInv, NEW e \in Ends, NEW r \in Dispatcher,
         r = [d[e] EXCEPT !.inTransit = r.inTransit],
         r.inTransit => d[e].inTransit,
         Update(e, r), NEW w \in Waiting, wait' = [wait EXCEPT ![e] = w],
         w # "none" => r.ring /\ e \notin away,
         \/ w = Woken(e, r, wait[e])
         \/ /\ ~Satisfied(e, Updated(e, r), w)
            /\ CanSatisfy(e, Updated(e, r), w)
         \/ w = "none",
         \A x \in Ends : x # e /\ x \in event => x \in event',
         UNCHANGED <<notes, wire, peerShut, away, moves>>
  PROVE  \A x \in Ends : WaiterOK(x)'
<1> DEFINE s == Updated(e, r)
           u == Unread(e, r)
<1>1. TypeOK /\ IInv /\ WaiterOK(e) /\ moves \in Nat
  BY DEF WInv, IInv, TypeOK
<1>2. /\ r.avail = d[e].avail /\ r.ring = d[e].ring
      /\ r.peerClosed = d[e].peerClosed /\ r.inTwoPhase = d[e].inTwoPhase
  BY <1>1 DEF TypeOK, Dispatcher
<1>3. r.avail + Total(queue[e]) <= Capacity /\ queue[e] \in Seq(Nat)
  BY <1>1, <1>2, RoomForReports DEF TypeOK
<1>4. /\ s \in Dispatcher
      /\ s = [r EXCEPT !.avail = s.avail, !.peerClosed = s.peerClosed]
      /\ ~r.inTransit =>
           /\ u = <<>>
           /\ s.peerClosed \/ e \notin peerShut \/ wire[e] # <<>>
  BY <1>3, UpdatedIs
<1>5. d' = [d EXCEPT ![e] = s] /\ queue' = [queue EXCEPT ![e] = u]
  BY DEF Update
<1>6. w = Woken(e, r, wait[e]) =>
        w = IF Changed(r, s) THEN AwakeForStateChange(e, s, wait[e]) ELSE wait[e]
  BY DEF Woken
<1> HIDE DEF s, u
<1>7. /\ d'[e] = s /\ queue'[e] = u /\ wait'[e] = w
      /\ \A x \in Ends : x # e => /\ d'[x] = d[x] /\ queue'[x] = queue[x]
                                  /\ wait'[x] = wait[x]
  BY <1>1, <1>5 DEF TypeOK
<1>8. /\ s.inTwoPhase = d[e].inTwoPhase /\ s.ring = r.ring
      /\ s.inTransit = r.inTransit
  BY <1>2, <1>4 DEF Dispatcher
<1>9. Ending(e)' <=> Ending(e)
  BY DEF Ending
<1>10. OneEnding(e)'
  BY <1>1, <1>7, <1>8, <1>9 DEF WaiterOK, OneEnding
<1>11. d'[e].inTransit => moves' > 0
  BY <1>1, <1>7, <1>8 DEF WaiterOK
<1>12. ASSUME w # "none" PROVE Pending(e)'
  <2>1. CASE ~Satisfied(e, s, w) /\ CanSatisfy(e, s, w)
    BY <1>7, <1>12, <2>1, PendingOpen DEF Pending
  <2>2. CASE w = Woken(e, r, wait[e])
    <3>1. CASE Changed(r, s)
      <4>1. w = wait[e] /\ ~Satisfied(e, s, w) /\ CanSatisfy(e, s, w)
        BY <1>6, <1>12, <2>2, <3>1, AwakeIs
      <4> QED
        BY <2>1, <4>1
    <3>2. CASE ~Changed(r, s)
      <4>1. w = wait[e]
        BY <1>6, <2>2, <3>2
      <4>2. s.peerClosed = d[e].peerClosed /\ s.avail = d[e].avail
        BY <1>2, <3>2 DEF Changed
      <4>3. Pending(e)
        BY <1>1, <1>12, <4>1 DEF WaiterOK
      <4>4. /\ Satisfied(e, s, w) <=> Satisfied(e, d[e], w)
            /\ CanSatisfy(e, s, w) <=> CanSatisfy(e, d[e], w)
        BY <1>2, <1>8, <4>2, SameSignals
      <4> QED
        BY <1>7, <1>9, <4>1, <4>2, <4>3, <4>4 DEF Pending
    <3> QED
      BY <3>1, <3>2
  <2> QED
    BY <1>12, <2>1, <2>2 DEF s
<1>13. Looked(e)'
  <2>1. CASE r.inTransit
    BY <1>7, <1>8, <2>1 DEF Looked
  <2>2. CASE ~r.inTransit
    BY <1>4, <1>7, <2>2 DEF Looked, Receiving
  <2> QED
    BY <2>1, <2>2
<1>14. WaiterOK(e)'
  BY <1>7, <1>8, <1>10, <1>11, <1>12, <1>13 DEF WaiterOK
<1>15. ASSUME NEW x \in Ends, x # e PROVE WaiterOK(x)'
  <2>1. WaiterOK(x) /\ moves' \in Nat /\ moves' >= moves
    BY <1>1 DEF WInv
  <2> QED
    BY <1>1, <1>7, <1>15, <2>1, WaiterFrame
<1> QED
  BY <1>14, <1>15

\* OnPortStatusChanged looks at the port and wakes if something changed.
LEMMA OnPortStatusChangedWaiter ==
  ASSUME WInv, NEW e \in Ends, OnPortStatusChanged(e)
  PROVE  \A x \in Ends : WaiterOK(x)'
<1> DEFINE w == Woken(e, d[e], wait[e])
<1>1. TypeOK /\ d[e] \in Dispatcher /\ wait[e] \in Waiting /\ WaiterOK(e)
  BY DEF WInv, IInv, TypeOK
<1>2. w \in Waiting /\ w \in {wait[e], "none"}
  BY <1>1, AwakeType, AwakeIs DEF Woken
<1>3. w # "none" => d[e].ring /\ e \notin away
  BY <1>1, <1>2 DEF WaiterOK
<1>4. d[e] = [d[e] EXCEPT !.inTransit = d[e].inTransit]
  BY <1>1 DEF Dispatcher
<1>5. /\ Update(e, d[e]) /\ wait' = [wait EXCEPT ![e] = w]
      /\ event' = event \ {e} /\ UNCHANGED <<notes, wire, peerShut, away, moves>>
  BY DEF OnPortStatusChanged
<1>6. w = Woken(e, d[e], wait[e])
  OBVIOUS
<1> HIDE DEF w
<1> QED
  BY <1>1, <1>2, <1>3, <1>4, <1>5, <1>6, UpdateWaiter

\* AddAwakable looks at the port before it adds the awakable.
LEMMA AddAwakableWaiter ==
  ASSUME WInv, NEW e \in Ends, NEW s \in Waiting, AddAwakable(e, s)
  PROVE  \A x \in Ends : WaiterOK(x)'
<1> DEFINE r == Updated(e, d[e])
           w == IF Satisfied(e, r, s) \/ ~CanSatisfy(e, r, s) THEN "none" ELSE s
<1>1. TypeOK /\ d[e] \in Dispatcher
  BY DEF WInv, IInv, TypeOK
<1>2. w \in Waiting
  BY DEF Waiting
<1>3. d[e].ring /\ e \notin away
  BY DEF AddAwakable, Usable
<1>4. d[e] = [d[e] EXCEPT !.inTransit = d[e].inTransit]
  BY <1>1 DEF Dispatcher
<1>5. /\ Update(e, d[e]) /\ wait' = [wait EXCEPT ![e] = w]
      /\ UNCHANGED <<event, notes, wire, peerShut, away, moves>>
  BY DEF AddAwakable
<1>6. \/ w = "none"
      \/ /\ ~Satisfied(e, Updated(e, d[e]), w)
         /\ CanSatisfy(e, Updated(e, d[e]), w)
  OBVIOUS
<1> HIDE DEF w, r
<1> QED
  BY <1>1, <1>2, <1>3, <1>4, <1>5, <1>6, UpdateWaiter

\* Steps that leave the signals of end e as they are, or wake it.
LEMMA QuietWaiter ==
  ASSUME WInv, NEW e \in Ends, NEW r \in Dispatcher, NEW w \in Waiting,
         d' = [d EXCEPT ![e] = r], wait' = [wait EXCEPT ![e] = w],
         w \in {wait[e], "none"},
         OneEnding(e)', r.inTransit => moves' > 0,
         w # "none" => /\ r.ring = d[e].ring /\ (e \in away' <=> e \in away)
                       /\ Looked(e)' /\ Pending(e)',
         \A x \in Ends : x # e => /\ notes'[x] = notes[x] /\ queue'[x] = queue[x]
                                  /\ x \in away' <=> x \in away
                                  /\ x \in event => x \in event'
                                  /\ x \in peerShut' <=> x \in peerShut
                                  /\ wire'[x] = wire[x] \/ wire'[x] # <<>>,
         moves' \in Nat, moves' >= moves
  PROVE  \A x \in Ends : WaiterOK(x)'
<1>1. TypeOK /\ WaiterOK(e) /\ moves \in Nat
  BY DEF WInv, IInv, TypeOK
<1>2. /\ d'[e] = r /\ wait'[e] = w
      /\ \A x \in Ends : x # e => d'[x] = d[x] /\ wait'[x] = wait[x]
  BY <1>1 DEF TypeOK
<1>3. WaiterOK(e)'
  BY <1>1, <1>2 DEF WaiterOK
<1>4. ASSUME NEW x \in Ends, x # e PROVE WaiterOK(x)'
  <2>1. WaiterOK(x)
    BY DEF WInv
  <2> QED
    BY <1>1, <1>2, <1>4, <2>1, WaiterFrame
<1> QED
  BY <1>3, <1>4

\* CancelTransit wakes what became ready during the transit.
LEMMA CancelTransitWaiter ==
  ASSUME WInv, NEW e \in Ends, CancelTransit(e)
  PROVE  \A x \in Ends : WaiterOK(x)'
<1> DEFINE r == [d[e] EXCEPT !.inTransit = FALSE]
<1>1. /\ TypeOK /\ d[e] \in Dispatcher /\ wait[e] \in Waiting /\ WaiterOK(e)
      /\ moves \in Nat /\ d[e].inTransit
  BY DEF WInv, IInv, TypeOK, CancelTransit
<1>2. /\ r \in Dispatcher /\ r.inTransit = FALSE /\ r.avail = d[e].avail
      /\ r.peerClosed = d[e].peerClosed /\ r.inTwoPhase = d[e].inTwoPhase
      /\ r.ring = d[e].ring /\ r = [d[e] EXCEPT !.inTransit = r.inTransit]
  BY <1>1 DEF Dispatcher
<1>3. UNCHANGED <<notes, wire, peerShut, event, away, moves>>
  BY DEF CancelTransit
<1>4. CASE e = "consumer"
  <2> DEFINE w == Woken(e, r, wait[e])
  <2>1. Update(e, r) /\ wait' = [wait EXCEPT ![e] = w]
    BY <1>4 DEF CancelTransit
  <2> HIDE DEF r
  <2>2. w \in Waiting /\ w \in {wait[e], "none"}
    BY <1>1, AwakeType, AwakeIs DEF Woken
  <2>3. w # "none" => r.ring /\ e \notin away
    BY <1>1, <1>2, <2>2 DEF WaiterOK
  <2>4. w = Woken(e, r, wait[e])
    OBVIOUS
  <2> HIDE DEF w
  <2> QED
    BY <1>2, <1>3, <2>1, <2>2, <2>3, <2>4, UpdateWaiter
<1>5. CASE e = "producer"
  <2> DEFINE w == AwakeForStateChange(e, r, wait[e])
  <2>1. d' = [d EXCEPT ![e] = r] /\ wait' = [wait EXCEPT ![e] = w] /\ queue' = queue
    BY <1>5 DEF CancelTransit
  <2>2. w \in Waiting
    BY <1>1, AwakeType
  <2>3. \/ w = "none"
        \/ w = wait[e] /\ ~Satisfied(e, r, w) /\ CanSatisfy(e, r, w)
    BY AwakeIs
  <2> HIDE DEF w, r
  <2>4. d'[e] = r /\ wait'[e] = w
    BY <1>1, <2>1 DEF TypeOK
  <2>5. OneEnding(e)'
    BY <1>1, <1>2, <1>3, <2>4 DEF WaiterOK, OneEnding, Ending
  <2>6. moves > 0 /\ moves' = moves
    BY <1>1, <1>3 DEF WaiterOK
  <2>7. Looked(e)'
    BY <1>5, <2>6 DEF Looked
  <2>8. w # "none" => Pending(e)'
    BY <2>2, <2>3, <2>4, PendingOpen DEF Pending
  <2>9. moves' \in Nat /\ moves' >= moves
    BY <1>1, <2>6
  <2> QED
    BY <1>2, <1>3, <2>1, <2>2, <2>3, <2>5, <2>6, <2>7, <2>8, <2>9, QuietWaiter
<1> QED
  BY <1>4, <1>5, TheEnds

\* What end e waits for stays pending while its signals stay as they are.
LEMMA PendingKept ==
  ASSUME NEW e \in Ends, Pending(e), wait'[e] = wait[e],
         Ending(e)' <=> Ending(e), d'[e].ring = d[e].ring,
         d'[e].inTwoPhase = d[e].inTwoPhase, d'[e].avail = d[e].avail,
         d'[e].peerClosed = d[e].peerClosed
  PROVE  Pending(e)'
<1> DEFINE w == wait[e]
<1>1. /\ Satisfied(e, d'[e], w) <=> Satisfied(e, d[e], w)
      /\ CanSatisfy(e, d'[e], w) <=> CanSatisfy(e, d[e], w)
  BY SameSignals
<1> QED
  BY <1>1 DEF Pending

\* A dispatcher that has looked at its port has done so as long as nothing
\* arrives there without a status change.
LEMMA LookedKept ==
  ASSUME NEW e \in Ends, Looked(e), moves \in Nat, moves' = moves,
         d'[e].inTransit = d[e].inTransit, d'[e].peerClosed = d[e].peerClosed,
         queue'[e] = queue[e], wire'[e] = wire[e],
         e \in peerShut' <=> e \in peerShut, e \in event => e \in event'
  PROVE  Looked(e)'
BY DEF Looked, Receiving

\* An end that is not in a two-phase operation has none that ends.
LEMMA NoEnding ==
  ASSUME WInv, NEW e \in Ends, ~d[e].inTwoPhase
  PROVE  ~Ending(e)
BY DEF WInv, WaiterOK, OneEnding

\* A call that drops the lock.
LEMMA StartedEnding ==
  ASSUME TypeOK, NEW e \in Ends, NEW k \in Nat, NEW ends \in BOOLEAN,
         Starts(e, k, ends), ~Ending(e), ends => d'[e].inTwoPhase
  PROVE  OneEnding(e)' /\ (Ending(e)' <=> ends)
<1> DEFINE s == notes[e]
           n == [n |-> k, ends |-> ends]
<1>1. s \in Seq(Note) /\ n \in Note
  BY DEF TypeOK, Note
<1>2. notes'[e] = Append(s, n)
  BY DEF TypeOK, Starts
<1>3. n.ends = ends
  OBVIOUS
<1> HIDE DEF n
<1>4. \A i \in DOMAIN s : ~s[i].ends
  BY DEF Ending
<1> HIDE DEF s
<1>5. /\ DOMAIN Append(s, n) = 1..(Len(s) + 1) /\ Append(s, n)[Len(s) + 1] = n
      /\ Len(s) \in Nat /\ \A i \in 1..Len(s) : Append(s, n)[i] = s[i]
      /\ DOMAIN s = 1..Len(s)
  BY <1>1
<1>6. \A i \in 1..(Len(s) + 1) : i \in 1..Len(s) \/ i = Len(s) + 1
  BY <1>5
<1>7. \A i \in DOMAIN notes'[e] : notes'[e][i].ends => i = Len(s) + 1 /\ ends
  BY <1>2, <1>3, <1>4, <1>5, <1>6
<1>8. ends => Ending(e)'
  <2>1. Len(s) + 1 \in DOMAIN notes'[e] /\ notes'[e][Len(s) + 1].ends = ends
    BY <1>2, <1>3, <1>5
  <2> QED
    BY <2>1 DEF Ending
<1> QED
  BY <1>7, <1>8 DEF Ending, OneEnding

\* The steps that leave the waiting alone.
LEMMA StillWaiter ==
  ASSUME WInv, UNCHANGED <<d, notes, wire, queue, peerShut, event, wait, away, moves>>
  PROVE  \A x \in Ends : WaiterOK(x)'
<1> SUFFICES ASSUME NEW x \in Ends PROVE WaiterOK(x)'
  OBVIOUS
<1>1. WaiterOK(x) /\ moves \in Nat
  BY DEF WInv, IInv, TypeOK
<1> QED
  BY <1>1, WaiterFrame

\* A status change that the sender's dispatcher still gets.
LEMMA LateStatusChangedWaiter ==
  ASSUME WInv, NEW e \in Ends, LateStatusChanged(e)
  PROVE  \A x \in Ends : WaiterOK(x)'
BY StillWaiter DEF LateStatusChanged

\* The sender's dispatcher goes.
LEMMA CompleteTransitAndCloseWaiter ==
  ASSUME WInv, NEW e \in Ends, CompleteTransitAndClose(e)
  PROVE  \A x \in Ends : WaiterOK(x)'
BY StillWaiter DEF CompleteTransitAndClose

\* Nobody waits any more.
LEMMA RemoveAwakableWaiter ==
  ASSUME WInv, NEW e \in Ends, RemoveAwakable(e)
  PROVE  \A x \in Ends : WaiterOK(x)'
<1>1. TypeOK /\ d[e] \in Dispatcher /\ WaiterOK(e) /\ moves \in Nat
  BY DEF WInv, IInv, TypeOK
<1>2. /\ UNCHANGED <<d, notes, wire, queue, peerShut, event, away, moves>>
      /\ wait' = [wait EXCEPT ![e] = "none"]
  BY DEF RemoveAwakable
<1>3. d' = [d EXCEPT ![e] = d[e]] /\ "none" \in Waiting
  BY <1>1, <1>2 DEF TypeOK, Waiting
<1>4. OneEnding(e)' /\ (d[e].inTransit => moves' > 0)
  BY <1>1, <1>2 DEF WaiterOK, OneEnding, Ending
<1>5. moves' \in Nat /\ moves' >= moves
  BY <1>1, <1>2
<1> QED
  BY <1>1, <1>2, <1>3, <1>4, <1>5, QuietWaiter

\* BeginTransit leaves the awakable waiting.
LEMMA BeginTransitWaiter ==
  ASSUME WInv, NEW e \in Ends, BeginTransit(e)
  PROVE  \A x \in Ends : WaiterOK(x)'
<1> DEFINE r == [d[e] EXCEPT !.inTransit = TRUE]
<1>1. /\ TypeOK /\ d[e] \in Dispatcher /\ WaiterOK(e) /\ moves \in Nat
      /\ wait[e] \in Waiting
  BY DEF WInv, IInv, TypeOK
<1>2. /\ UNCHANGED <<notes, wire, queue, peerShut, event, wait, away>>
      /\ d' = [d EXCEPT ![e] = r] /\ moves' = moves + 1
  BY DEF BeginTransit
<1>3. /\ r \in Dispatcher /\ r.inTransit /\ r.avail = d[e].avail
      /\ r.peerClosed = d[e].peerClosed /\ r.inTwoPhase = d[e].inTwoPhase
      /\ r.ring = d[e].ring
  BY <1>1 DEF Dispatcher
<1> HIDE DEF r
<1>4. wait' = [wait EXCEPT ![e] = wait[e]] /\ d'[e] = r
  BY <1>1, <1>2 DEF TypeOK
<1>5. moves' \in Nat /\ moves' >= moves /\ moves' > 0
  BY <1>1, <1>2
<1>6. Ending(e)' <=> Ending(e)
  BY <1>2 DEF Ending
<1>7. OneEnding(e)'
  BY <1>1, <1>2, <1>3, <1>4, <1>6 DEF WaiterOK, OneEnding
<1>8. Looked(e)'
  BY <1>3, <1>4 DEF Looked
<1>9. wait[e] # "none" => Pending(e)'
  BY <1>1, <1>2, <1>3, <1>4, <1>6, PendingKept DEF WaiterOK
<1> QED
  BY <1>1, <1>2, <1>3, <1>4, <1>5, <1>7, <1>8, <1>9, QuietWaiter

\* The awakable stays with the sender's dispatcher.
LEMMA EndSerializeWaiter ==
  ASSUME WInv, NEW e \in Ends, EndSerialize(e)
  PROVE  \A x \in Ends : WaiterOK(x)'
<1> DEFINE r == [d[e] EXCEPT !.inTransit = FALSE]
<1>1. /\ TypeOK /\ d[e] \in Dispatcher /\ moves \in Nat /\ "none" \in Waiting
  BY DEF WInv, IInv, TypeOK, Waiting
<1>2. /\ UNCHANGED <<wire, queue, peerShut, moves>>
      /\ d' = [d EXCEPT ![e] = r] /\ wait' = [wait EXCEPT ![e] = "none"]
      /\ notes' = [notes EXCEPT ![e] = <<>>] /\ event' = event \ {e}
      /\ away' = away \cup {e}
  BY DEF EndSerialize
<1>3. r \in Dispatcher /\ ~r.inTransit
  BY <1>1 DEF Dispatcher
<1>4. notes'[e] = <<>> /\ \A x \in Ends : x # e => notes'[x] = notes[x]
  BY <1>1, <1>2 DEF TypeOK
<1>5. OneEnding(e)'
  BY <1>4 DEF OneEnding, Ending
<1>6. moves' \in Nat /\ moves' >= moves
  BY <1>1, <1>2
<1> HIDE DEF r
<1> QED
  BY <1>1, <1>2, <1>3, <1>4, <1>5, <1>6, QuietWaiter

\* The new dispatcher has no awakable.
LEMMA DeserializeWaiter ==
  ASSUME WInv, NEW e \in Ends, NEW mapped \in BOOLEAN, Deserialize(e, mapped)
  PROVE  \A x \in Ends : WaiterOK(x)'
<1> DEFINE r == New(e, d[e].offset, d[e].avail, d[e].peerClosed, mapped)
<1>1. /\ TypeOK /\ d[e] \in Dispatcher /\ moves \in Nat /\ "none" \in Waiting
      /\ WaiterOK(e) /\ Lifecycle
  BY DEF WInv, IInv, TypeOK, Waiting
<1>2. /\ UNCHANGED <<notes, wire, queue, peerShut, event, wait, moves>>
      /\ d' = [d EXCEPT ![e] = r] /\ e \in away /\ away' = away \ {e}
  BY DEF Deserialize
<1>3. r \in Dispatcher /\ ~r.inTransit
  BY <1>1 DEF Dispatcher, New
<1>4. wait[e] = "none" /\ wait' = [wait EXCEPT ![e] = "none"]
  BY <1>1, <1>2 DEF WaiterOK, TypeOK
<1>5. ~Ending(e)
  BY <1>1, <1>2 DEF Lifecycle, WaiterOK, OneEnding
<1>6. OneEnding(e)'
  BY <1>2, <1>5 DEF OneEnding, Ending
<1>7. moves' \in Nat /\ moves' >= moves
  BY <1>1, <1>2
<1> HIDE DEF r
<1> QED
  BY <1>1, <1>2, <1>3, <1>4, <1>6, <1>7, QuietWaiter

\* Close cancels it.
LEMMA CloseWaiter ==
  ASSUME WInv, NEW e \in Ends, Close(e)
  PROVE  \A x \in Ends : WaiterOK(x)'
<1> DEFINE r == [d[e] EXCEPT !.closed = TRUE, !.ring = FALSE,
                             !.inTwoPhase = @ /\ ~Ending(e)]
<1>1. /\ TypeOK /\ d[e] \in Dispatcher /\ moves \in Nat /\ "none" \in Waiting
  BY DEF WInv, IInv, TypeOK, Waiting
<1>2. /\ UNCHANGED <<peerShut, away, moves>>
      /\ d' = [d EXCEPT ![e] = r] /\ wait' = [wait EXCEPT ![e] = "none"]
      /\ notes' = [notes EXCEPT ![e] = <<>>] /\ event' = event \ {e}
      /\ wire' = [wire EXCEPT ![e] = <<>>] /\ queue' = [queue EXCEPT ![e] = <<>>]
      /\ ~d[e].inTransit
  BY DEF Close
<1>3. r \in Dispatcher /\ ~r.inTransit
  <2>1. (d[e].inTwoPhase /\ ~Ending(e)) \in BOOLEAN
    OBVIOUS
  <2> QED
    BY <1>1, <1>2, <2>1 DEF Dispatcher
<1>4. /\ notes'[e] = <<>>
      /\ \A x \in Ends : x # e => /\ notes'[x] = notes[x] /\ wire'[x] = wire[x]
                                  /\ queue'[x] = queue[x]
  BY <1>1, <1>2 DEF TypeOK
<1>5. OneEnding(e)'
  BY <1>4 DEF OneEnding, Ending
<1>6. moves' \in Nat /\ moves' >= moves
  BY <1>1, <1>2
<1> HIDE DEF r
<1> QED
  BY <1>1, <1>2, <1>3, <1>4, <1>5, <1>6, QuietWaiter

\* Something has come to the port.
LEMMA RaisedWaiter ==
  ASSUME WInv, NEW e \in Ends, event' = Raised(e),
         UNCHANGED <<d, notes, wait, away, moves>>,
         \A x \in Ends : x # e => /\ queue'[x] = queue[x] /\ wire'[x] = wire[x]
                                  /\ x \in peerShut' <=> x \in peerShut
  PROVE  \A x \in Ends : WaiterOK(x)'
<1>1. TypeOK /\ d[e] \in Dispatcher /\ WaiterOK(e) /\ moves \in Nat
      /\ wait[e] \in Waiting
  BY DEF WInv, IInv, TypeOK
<1>3. d' = [d EXCEPT ![e] = d[e]] /\ wait' = [wait EXCEPT ![e] = wait[e]]
  BY <1>1 DEF TypeOK
<1>4. OneEnding(e)' /\ (d[e].inTransit => moves' > 0)
  BY <1>1 DEF WaiterOK, OneEnding, Ending
<1>5. moves' \in Nat /\ moves' >= moves
  BY <1>1
<1>6. ASSUME wait[e] # "none" PROVE Looked(e)' /\ Pending(e)'
  <2>1. e \notin away /\ Pending(e)
    BY <1>1, <1>6 DEF WaiterOK
  <2>2. e \in event'
    BY <2>1 DEF Raised
  <2>3. Ending(e)' <=> Ending(e)
    BY DEF Ending
  <2> QED
    BY <2>1, <2>2, <2>3, PendingKept DEF Looked
<1>7. \A x \in Ends : x \in event => x \in event'
  BY DEF Raised
<1> QED
  BY <1>1, <1>3, <1>4, <1>5, <1>6, <1>7, QuietWaiter

\* The closure of the peer raises a status change.
LEMMA ObserveClosureWaiter ==
  ASSUME WInv, NEW e \in Ends, ObserveClosure(e)
  PROVE  \A x \in Ends : WaiterOK(x)'
BY RaisedWaiter DEF ObserveClosure

\* So does a message.
LEMMA DeliverWaiter ==
  ASSUME WInv, NEW e \in Ends, Deliver(e)
  PROVE  \A x \in Ends : WaiterOK(x)'
<1>1. TypeOK
  BY DEF WInv, IInv
<1>2. \A x \in Ends : x # e => /\ queue'[x] = queue[x] /\ wire'[x] = wire[x]
                               /\ x \in peerShut' <=> x \in peerShut
  BY <1>1 DEF TypeOK, Deliver
<1> QED
  BY <1>2, RaisedWaiter DEF Deliver

\* A call on end e: it keeps its hands off everything that comes to the port.
LEMMA CallWaiter ==
  ASSUME WInv, NEW e \in Ends, NEW r \in Dispatcher, NEW w \in Waiting,
         d' = [d EXCEPT ![e] = r], wait' = [wait EXCEPT ![e] = w],
         w \in {wait[e], "none"}, r.ring = d[e].ring,
         r.inTransit = d[e].inTransit, r.peerClosed = d[e].peerClosed,
         OneEnding(e)', w # "none" => Pending(e)',
         \A x \in Ends : x # e => notes'[x] = notes[x],
         wire'[e] = wire[e],
         \A x \in Ends : wire'[x] = wire[x] \/ wire'[x] # <<>>,
         UNCHANGED <<queue, peerShut, event, away, moves>>
  PROVE  \A x \in Ends : WaiterOK(x)'
<1>1. TypeOK /\ WaiterOK(e) /\ moves \in Nat
  BY DEF WInv, IInv, TypeOK
<1>2. d'[e] = r
  BY <1>1 DEF TypeOK
<1>3. w # "none" => Looked(e)'
  BY <1>1, <1>2, LookedKept DEF WaiterOK
<1>4. r.inTransit => moves' > 0
  BY <1>1 DEF WaiterOK
<1>5. moves' \in Nat /\ moves' >= moves
  BY <1>1
<1> QED
  BY <1>3, <1>4, <1>5, QuietWaiter

\* WriteData wakes if the signals changed.
LEMMA WriteDataWaiter ==
  ASSUME WInv, NEW n \in Nat, WriteData(n)
  PROVE  \A x \in Ends : WaiterOK(x)'
<1> DEFINE e == "producer"
           r == d[e]
           k == Least(n, r.avail)
           s == [r EXCEPT !.avail = @ - k, !.offset = (@ + k) % Capacity]
           w == IF Signals(e, s) # Signals(e, r)
                THEN AwakeForStateChange(e, s, wait[e]) ELSE wait[e]
<1>1. /\ TypeOK /\ e \in Ends /\ r \in Dispatcher /\ WaiterOK(e)
      /\ wait[e] \in Waiting /\ r.avail \in Nat /\ r.offset \in Nat
  BY TheEnds DEF WInv, IInv, TypeOK, Dispatcher
<1>2. /\ d' = [d EXCEPT ![e] = s] /\ wait' = [wait EXCEPT ![e] = w]
      /\ Starts(e, k, FALSE) /\ ~r.inTwoPhase
      /\ UNCHANGED <<wire, queue, peerShut, event, away, moves>>
  BY DEF WriteData
<1>3. k \in Nat /\ r.avail - k \in Nat
  BY <1>1 DEF Least
<1>4. (r.offset + k) % Capacity \in Nat
  BY <1>1, <1>3, Capacities, ModNat
<1>5. /\ s \in Dispatcher /\ s.ring = r.ring /\ s.inTransit = r.inTransit
      /\ s.peerClosed = r.peerClosed /\ s.inTwoPhase = r.inTwoPhase
  <2> HIDE DEF k
  <2> QED
    BY <1>1, <1>3, <1>4 DEF Dispatcher
<1>6. w \in Waiting /\ w \in {wait[e], "none"}
  BY <1>1, AwakeType, AwakeIs
<1>7. \/ w = "none"
      \/ w = wait[e] /\ Signals(e, s) = Signals(e, r)
      \/ ~Satisfied(e, s, w) /\ CanSatisfy(e, s, w)
  BY AwakeIs
<1> HIDE DEF e, s, w, k
<1>8. ~Ending(e)
  BY <1>1, <1>2, NoEnding
<1>9. OneEnding(e)' /\ ~Ending(e)'
  BY <1>1, <1>2, <1>3, <1>8, StartedEnding
<1>10. d'[e] = s /\ wait'[e] = w /\ \A x \in Ends : x # e => notes'[x] = notes[x]
  BY <1>1, <1>2 DEF TypeOK, Starts
<1>11. ASSUME w # "none" PROVE Pending(e)'
  <2>1. ~Satisfied(e, s, w) /\ CanSatisfy(e, s, w)
    <3>1. CASE w = wait[e] /\ Signals(e, s) = Signals(e, r)
      <4>1. ~Satisfied(e, r, w) /\ CanSatisfy(e, r, w)
        BY <1>1, <1>8, <1>11, <3>1 DEF WaiterOK, Pending
      <4> QED
        BY <1>6, <1>11, <3>1, <4>1, SignalsEqual
    <3> QED
      BY <1>7, <1>11, <3>1
  <2> QED
    BY <1>6, <1>10, <1>11, <2>1, PendingOpen DEF Pending
<1> QED
  BY <1>1, <1>2, <1>5, <1>6, <1>9, <1>10, <1>11, CallWaiter

\* BeginWriteData does not; whoever waits for room is not waiting now.
LEMMA BeginWriteDataWaiter ==
  ASSUME WInv, BeginWriteData
  PROVE  \A x \in Ends : WaiterOK(x)'
<1> DEFINE e == "producer"
           r == d[e]
           n == Least(Capacity - r.offset, r.avail)
           s == [r EXCEPT !.inTwoPhase = TRUE, !.max = n]
<1>1. /\ TypeOK /\ e \in Ends /\ r \in Dispatcher /\ WaiterOK(e)
      /\ wait[e] \in Waiting /\ r.avail \in Nat /\ r.offset \in Nat
      /\ r.offset < Capacity
  BY TheEnds DEF WInv, IInv, TypeOK, Dispatcher
<1>2. /\ d' = [d EXCEPT ![e] = s] /\ r.ring /\ ~r.inTwoPhase /\ ~r.peerClosed
      /\ r.avail > 0 /\ UNCHANGED <<notes, wire, queue, peerShut, event, wait, away, moves>>
  BY DEF BeginWriteData, Usable
<1>3. n \in Nat
  BY <1>1, Capacities DEF Least
<1>5. /\ s \in Dispatcher /\ s.ring = r.ring /\ s.inTransit = r.inTransit
      /\ s.peerClosed = r.peerClosed /\ s.inTwoPhase
  <2> HIDE DEF n
  <2> QED
    BY <1>1, <1>3 DEF Dispatcher
<1> HIDE DEF s, n
<1>8. ~Ending(e)
  BY <1>1, <1>2, NoEnding
<1>9. OneEnding(e)' /\ ~Ending(e)'
  BY <1>2, <1>8 DEF Ending, OneEnding
<1>10. d'[e] = s /\ wait' = [wait EXCEPT ![e] = wait[e]]
  BY <1>1, <1>2 DEF TypeOK
<1>11. ASSUME wait[e] # "none" PROVE Pending(e)'
  <2>1. ~Satisfied(e, r, wait[e])
    BY <1>1, <1>8, <1>11 DEF WaiterOK, Pending
  <2>2. wait[e] = "peerClosed"
    BY <1>1, <1>2, <1>11, <2>1 DEF Satisfied, Waiting
  <2> QED
    BY <1>2, <1>5, <1>10, <2>2 DEF Pending, Satisfied, CanSatisfy
<1> QED
  BY <1>1, <1>2, <1>5, <1>9, <1>10, <1>11, CallWaiter

\* A two-phase write that is over.
LEMMA WokenWritablePending ==
  ASSUME NEW r, NEW w \in Waiting, w # "none", ~r.peerClosed,
         WokenWritable(r, w) # "none"
  PROVE  ~Satisfied("producer", r, w) /\ CanSatisfy("producer", r, w)
<1>1. CASE Satisfied("producer", r, "data")
  BY <1>1, AwakeIs DEF WokenWritable
<1>2. CASE ~Satisfied("producer", r, "data")
  BY <1>2 DEF Satisfied, CanSatisfy, Waiting
<1> QED
  BY <1>1, <1>2

\* Calls that end a two-phase operation and are still to notify the peer.
LEMMA EndingWaiter ==
  ASSUME WInv, NEW e \in Ends, NEW r \in Dispatcher, NEW n \in Nat,
         d' = [d EXCEPT ![e] = r], wait' = wait, Starts(e, n, TRUE),
         r.ring = d[e].ring, r.inTransit = d[e].inTransit,
         r.peerClosed = d[e].peerClosed, r.inTwoPhase, ~Ending(e),
         UNCHANGED <<wire, queue, peerShut, event, away, moves>>
  PROVE  \A x \in Ends : WaiterOK(x)'
<1>1. TypeOK /\ WaiterOK(e) /\ wait[e] \in Waiting
  BY DEF WInv, IInv, TypeOK
<1>2. /\ d'[e] = r /\ wait' = [wait EXCEPT ![e] = wait[e]]
      /\ \A x \in Ends : x # e => notes'[x] = notes[x]
  BY <1>1 DEF TypeOK, Starts
<1>3. OneEnding(e)' /\ Ending(e)'
  BY <1>1, <1>2, StartedEnding
<1>4. wait[e] # "none" => Pending(e)'
  BY <1>1, <1>2, <1>3 DEF WaiterOK, Pending
<1> QED
  BY <1>1, <1>2, <1>3, <1>4, CallWaiter

\* EndWriteData wakes if the end is writable again, at once when it refuses and
\* else after it has notified.
LEMMA EndWriteDataWaiter ==
  ASSUME WInv, NEW n \in Nat, n \in Claims("producer"), EndWriteData(n)
  PROVE  \A x \in Ends : WaiterOK(x)'
<1> DEFINE e == "producer"
           r == d[e]
<1>1. /\ TypeOK /\ e \in Ends /\ r \in Dispatcher /\ WaiterOK(e)
      /\ wait[e] \in Waiting /\ r.avail \in Nat /\ r.offset \in Nat
  BY TheEnds DEF WInv, IInv, TypeOK, Dispatcher
<1>2. /\ r.inTwoPhase /\ ~Ending(e)
      /\ UNCHANGED <<wire, queue, peerShut, event, away, moves>>
  BY DEF EndWriteData, Claims
<1>3. CASE EndWriteDataRefuses(r, n)
  <2> DEFINE s == EndsTwoPhaseWrite(r)
             w == WokenWritable(s, wait[e])
  <2>1. /\ d' = [d EXCEPT ![e] = s] /\ wait' = [wait EXCEPT ![e] = w]
        /\ notes' = notes
    BY <1>3 DEF EndWriteData
  <2>2. /\ s \in Dispatcher /\ s.ring = r.ring /\ s.inTransit = r.inTransit
        /\ s.peerClosed = r.peerClosed
    BY <1>1 DEF Dispatcher, EndsTwoPhaseWrite
  <2> HIDE DEF s
  <2>3. w \in Waiting /\ w \in {wait[e], "none"}
    BY <1>1, AwakeType, AwakeIs DEF WokenWritable
  <2>4. ASSUME w # "none", ~r.peerClosed
        PROVE  ~Satisfied(e, s, w) /\ CanSatisfy(e, s, w)
    <3>1. wait[e] # "none" /\ w = wait[e]
      BY <2>3, <2>4
    <3> QED
      BY <1>1, <2>2, <2>4, <3>1, WokenWritablePending
  <2> HIDE DEF w
  <2>5. d'[e] = s /\ wait'[e] = w
    BY <1>1, <2>1 DEF TypeOK
  <2>6. OneEnding(e)' /\ ~Ending(e)'
    BY <1>2, <2>1 DEF Ending, OneEnding
  <2>7. ASSUME w # "none" PROVE Pending(e)'
    <3>1. ~r.peerClosed
      BY <1>1, <2>3, <2>7 DEF WaiterOK, Pending
    <3> QED
      BY <2>2, <2>4, <2>5, <2>7, <3>1 DEF Pending
  <2> HIDE DEF e
  <2> QED
    BY <1>1, <1>2, <2>1, <2>2, <2>3, <2>6, <2>7, CallWaiter
<1>4. CASE ~EndWriteDataRefuses(r, n)
  <2> DEFINE s == [r EXCEPT !.avail = @ - n, !.offset = (@ + n) % Capacity]
  <2>1. d' = [d EXCEPT ![e] = s] /\ wait' = wait /\ Starts(e, n, TRUE)
    BY <1>4 DEF EndWriteData
  <2>2. (r.offset + n) % Capacity \in Nat
    BY <1>1, Capacities, ModNat
  <2>3. r.avail - n \in Nat
    BY <1>1, <1>4 DEF EndWriteDataRefuses
  <2>4. /\ s \in Dispatcher /\ s.ring = r.ring /\ s.inTransit = r.inTransit
        /\ s.peerClosed = r.peerClosed /\ s.inTwoPhase
    BY <1>1, <1>2, <2>2, <2>3 DEF Dispatcher
  <2> HIDE DEF s, e
  <2> QED
    BY <1>1, <1>2, <2>1, <2>4, EndingWaiter
<1> QED
  BY <1>3, <1>4

\* ReadData does not wake: whoever waits for data does not while there is some.
LEMMA ReadDataWaiter ==
  ASSUME WInv, NEW n \in Nat, ReadData(n)
  PROVE  \A x \in Ends : WaiterOK(x)'
<1> DEFINE e == "consumer"
           r == d[e]
           k == Least(n, r.avail)
           s == [r EXCEPT !.offset = (@ + k) % Capacity, !.avail = @ - k]
<1>1. /\ TypeOK /\ e \in Ends /\ r \in Dispatcher /\ WaiterOK(e)
      /\ wait[e] \in Waiting /\ r.avail \in Nat /\ r.offset \in Nat
  BY TheEnds DEF WInv, IInv, TypeOK, Dispatcher
<1>2. /\ d' = [d EXCEPT ![e] = s] /\ wait' = wait
      /\ Starts(e, k, FALSE) /\ ~r.inTwoPhase /\ r.ring /\ k > 0
      /\ UNCHANGED <<wire, queue, peerShut, event, away, moves>>
  BY DEF ReadData, Usable
<1>3. k \in Nat /\ r.avail - k \in Nat /\ r.avail > 0
  BY <1>1, <1>2 DEF Least
<1>4. (r.offset + k) % Capacity \in Nat
  BY <1>1, <1>3, Capacities, ModNat
<1>5. /\ s \in Dispatcher /\ s.ring = r.ring /\ s.inTransit = r.inTransit
      /\ s.peerClosed = r.peerClosed
  <2> HIDE DEF k
  <2> QED
    BY <1>1, <1>3, <1>4 DEF Dispatcher
<1> HIDE DEF s, k
<1>8. ~Ending(e)
  BY <1>1, <1>2, NoEnding
<1>9. OneEnding(e)' /\ ~Ending(e)'
  BY <1>1, <1>2, <1>3, <1>8, StartedEnding
<1>10. /\ d'[e] = s /\ wait' = [wait EXCEPT ![e] = wait[e]]
       /\ \A x \in Ends : x # e => notes'[x] = notes[x]
  BY <1>1, <1>2 DEF TypeOK, Starts
<1>11. ASSUME wait[e] # "none" PROVE Pending(e)'
  <2>1. ~Satisfied(e, r, wait[e])
    BY <1>1, <1>8, <1>11 DEF WaiterOK, Pending
  <2>2. wait[e] = "peerClosed" /\ ~r.peerClosed
    BY <1>1, <1>2, <1>3, <1>11, <2>1 DEF Satisfied, Waiting
  <2> QED
    BY <1>2, <1>5, <1>10, <2>2 DEF Pending, Satisfied, CanSatisfy
<1> HIDE DEF e
<1> QED
  BY <1>1, <1>2, <1>5, <1>9, <1>10, <1>11, CallWaiter

\* Nor does BeginReadData.
LEMMA BeginReadDataWaiter ==
  ASSUME WInv, BeginReadData
  PROVE  \A x \in Ends : WaiterOK(x)'
<1> DEFINE e == "consumer"
           r == d[e]
           n == Least(r.avail, Capacity - r.offset)
           s == [r EXCEPT !.inTwoPhase = TRUE, !.max = n]
<1>1. /\ TypeOK /\ e \in Ends /\ r \in Dispatcher /\ WaiterOK(e)
      /\ wait[e] \in Waiting /\ r.avail \in Nat /\ r.offset \in Nat
      /\ r.offset < Capacity
  BY TheEnds DEF WInv, IInv, TypeOK, Dispatcher
<1>2. /\ d' = [d EXCEPT ![e] = s] /\ r.ring /\ ~r.inTwoPhase /\ r.avail > 0
      /\ UNCHANGED <<notes, wire, queue, peerShut, event, wait, away, moves>>
  BY DEF BeginReadData, Usable
<1>3. n \in Nat
  BY <1>1, Capacities DEF Least
<1>5. /\ s \in Dispatcher /\ s.ring = r.ring /\ s.inTransit = r.inTransit
      /\ s.peerClosed = r.peerClosed /\ s.inTwoPhase
  <2> HIDE DEF n
  <2> QED
    BY <1>1, <1>3 DEF Dispatcher
<1> HIDE DEF s, n
<1>8. ~Ending(e)
  BY <1>1, <1>2, NoEnding
<1>9. OneEnding(e)' /\ ~Ending(e)'
  BY <1>2, <1>8 DEF Ending, OneEnding
<1>10. d'[e] = s /\ wait' = [wait EXCEPT ![e] = wait[e]]
  BY <1>1, <1>2 DEF TypeOK
<1>11. ASSUME wait[e] # "none" PROVE Pending(e)'
  <2>1. ~Satisfied(e, r, wait[e])
    BY <1>1, <1>8, <1>11 DEF WaiterOK, Pending
  <2>2. wait[e] = "peerClosed" /\ ~r.peerClosed
    BY <1>1, <1>2, <1>11, <2>1 DEF Satisfied, Waiting
  <2> QED
    BY <1>2, <1>5, <1>10, <2>2 DEF Pending, Satisfied, CanSatisfy
<1> QED
  BY <1>1, <1>2, <1>5, <1>9, <1>10, <1>11, CallWaiter

\* EndReadData wakes if the signals changed.
LEMMA EndReadDataWaiter ==
  ASSUME WInv, NEW n \in Nat, n \in Claims("consumer"), EndReadData(n)
  PROVE  \A x \in Ends : WaiterOK(x)'
<1> DEFINE e == "consumer"
           r == d[e]
<1>1. /\ TypeOK /\ e \in Ends /\ r \in Dispatcher /\ WaiterOK(e)
      /\ wait[e] \in Waiting /\ r.avail \in Nat /\ r.offset \in Nat /\ r.max \in Nat
  BY TheEnds DEF WInv, IInv, TypeOK, Dispatcher
<1>2. /\ r.inTwoPhase /\ ~Ending(e)
      /\ UNCHANGED <<wire, queue, peerShut, event, away, moves>>
  BY DEF EndReadData, Claims
<1>3. CASE n > r.max \/ n % ElementBytes # 0
  <2> DEFINE s == EndsTwoPhaseRead(r)
             w == WokenIfChanged(e, Signals(e, r), s, wait[e])
  <2>1. /\ d' = [d EXCEPT ![e] = s] /\ wait' = [wait EXCEPT ![e] = w]
        /\ notes' = notes
    BY <1>3 DEF EndReadData
  <2>2. /\ s \in Dispatcher /\ s.ring = r.ring /\ s.inTransit = r.inTransit
        /\ s.peerClosed = r.peerClosed
    BY <1>1 DEF Dispatcher, EndsTwoPhaseRead
  <2> HIDE DEF s
  <2>3. w \in Waiting /\ w \in {wait[e], "none"}
    BY <1>1, AwakeType, AwakeIs DEF WokenIfChanged
  <2>4. \/ w = "none"
        \/ w = wait[e] /\ Signals(e, s) = Signals(e, r)
        \/ ~Satisfied(e, s, w) /\ CanSatisfy(e, s, w)
    BY AwakeIs DEF WokenIfChanged
  <2> HIDE DEF w
  <2>5. d'[e] = s /\ wait'[e] = w
    BY <1>1, <2>1 DEF TypeOK
  <2>6. OneEnding(e)' /\ ~Ending(e)'
    BY <1>2, <2>1 DEF Ending, OneEnding
  <2>7. ASSUME w # "none" PROVE Pending(e)'
    <3>1. ~Satisfied(e, s, w) /\ CanSatisfy(e, s, w)
      <4>1. CASE w = wait[e] /\ Signals(e, s) = Signals(e, r)
        <5>1. ~Satisfied(e, r, w) /\ CanSatisfy(e, r, w)
          BY <1>1, <1>2, <2>7, <4>1 DEF WaiterOK, Pending
        <5> QED
          BY <2>3, <2>7, <4>1, <5>1, SignalsEqual
      <4> QED
        BY <2>4, <2>7, <4>1
    <3> QED
      BY <2>3, <2>5, <2>7, <3>1, PendingOpen DEF Pending
  <2> HIDE DEF e
  <2> QED
    BY <1>1, <1>2, <2>1, <2>2, <2>3, <2>6, <2>7, CallWaiter
<1>4. CASE ~(n > r.max \/ n % ElementBytes # 0)
  <2> DEFINE s == [r EXCEPT !.offset = (@ + n) % Capacity, !.avail = @ - n]
  <2>1. d' = [d EXCEPT ![e] = s] /\ wait' = wait /\ Starts(e, n, TRUE)
    BY <1>4 DEF EndReadData
  <2>2. (r.offset + n) % Capacity \in Nat
    BY <1>1, Capacities, ModNat
  <2>3. r.avail - n \in Nat
    <3>1. r.max <= r.avail
      BY <1>1, <1>2 DEF WInv, IInv, TwoPhase
    <3>2. ~(n > r.max)
      BY <1>4
    <3> QED
      BY <1>1, <3>1, <3>2
  <2>4. /\ s \in Dispatcher /\ s.ring = r.ring /\ s.inTransit = r.inTransit
        /\ s.peerClosed = r.peerClosed /\ s.inTwoPhase
    BY <1>1, <1>2, <2>2, <2>3 DEF Dispatcher
  <2> HIDE DEF s, e
  <2> QED
    BY <1>1, <1>2, <2>1, <2>4, EndingWaiter
<1> QED
  BY <1>3, <1>4

\* A note that is taken off the list.
LEMMA RemovedEnding ==
  ASSUME TypeOK, NEW e \in Ends, NEW i \in DOMAIN notes[e],
         notes' = [notes EXCEPT ![e] = RemoveAt(@, i)], OneEnding(e)
  PROVE  /\ notes[e][i].ends => ~Ending(e)'
         /\ ~notes[e][i].ends => (Ending(e)' <=> Ending(e))
         /\ \A j, k \in DOMAIN notes'[e] :
              notes'[e][j].ends /\ notes'[e][k].ends => j = k
<1> DEFINE s == notes[e]
           t == RemoveAt(s, i)
           From(k) == IF k < i THEN k ELSE k + 1
<1>1. s \in Seq(Note) /\ notes'[e] = t /\ DOMAIN s = 1..Len(s) /\ Len(s) \in Nat
      /\ i \in 1..Len(s)
  BY DEF TypeOK
<1>2. \A j, k \in DOMAIN s : s[j].ends /\ s[k].ends => j = k
  BY DEF OneEnding
<1>3. /\ DOMAIN t = 1..(Len(s) - 1)
      /\ \A k \in 1..(Len(s) - 1) : k < i => t[k] = s[k]
      /\ \A k \in 1..(Len(s) - 1) : k >= i => t[k] = s[k + 1]
  BY <1>1, RemoveAtIs
<1>4. ~s[i].ends => \A j \in DOMAIN s : s[j].ends => \E k \in DOMAIN t : t[k].ends
  <2> SUFFICES ASSUME ~s[i].ends, NEW j \in DOMAIN s, s[j].ends
               PROVE  \E k \in DOMAIN t : t[k].ends
    OBVIOUS
  <2>1. j # i
    OBVIOUS
  <2>2. PICK k \in DOMAIN t : t[k] = s[j]
    BY <1>1, <2>1, RemoveAtKeeps
  <2> QED
    BY <2>2
<1>5. Ending(e) <=> \E j \in DOMAIN s : s[j].ends
  BY DEF Ending
<1>6. Ending(e)' <=> \E j \in DOMAIN t : t[j].ends
  BY <1>1 DEF Ending
<1> HIDE DEF s, t
<1>7. \A k \in DOMAIN t : /\ From(k) \in DOMAIN s /\ From(k) # i
                          /\ t[k] = s[From(k)]
  BY <1>1, <1>3
<1>8. \A j, k \in DOMAIN t : From(j) = From(k) => j = k
  BY <1>1, <1>3
<1> HIDE DEF From
<1>9. \A j, k \in DOMAIN t : t[j].ends /\ t[k].ends => j = k
  BY <1>2, <1>7, <1>8
<1>10. s[i].ends => ~\E k \in DOMAIN t : t[k].ends
  BY <1>1, <1>2, <1>7
<1>11. ~s[i].ends => (Ending(e)' <=> Ending(e))
  BY <1>4, <1>5, <1>6, <1>7
<1> QED
  BY <1>1, <1>6, <1>9, <1>10, <1>11 DEF s

\* The rest of a call, after the lock was dropped: the call that ends a two-phase
\* operation wakes whoever waits, also for what came while it notified.
LEMMA NotifyWaiter ==
  ASSUME WInv, NEW e \in Ends, NEW i \in DOMAIN notes[e], Notify(e, i)
  PROVE  \A x \in Ends : WaiterOK(x)'
<1> DEFINE note == notes[e][i]
           r == IF e = "producer" THEN EndsTwoPhaseWrite(d[e])
                ELSE EndsTwoPhaseRead(d[e])
           before == [d[e] EXCEPT !.avail = 1, !.inTwoPhase = TRUE]
           w == IF e = "producer" THEN WokenWritable(r, wait[e])
                ELSE WokenIfChanged(e, Signals(e, before), r, wait[e])
<1>1. /\ TypeOK /\ d[e] \in Dispatcher /\ wait[e] \in Waiting /\ WaiterOK(e)
      /\ OneEnding(e)
  BY DEF WInv, IInv, TypeOK, WaiterOK
<1>2. /\ UNCHANGED <<queue, peerShut, event, away, moves>>
      /\ notes' = [notes EXCEPT ![e] = RemoveAt(@, i)] /\ wire' = Sent(e, note.n)
      /\ note.ends => d' = [d EXCEPT ![e] = r] /\ wait' = [wait EXCEPT ![e] = w]
      /\ ~note.ends => d' = d /\ wait' = wait
  BY DEF Notify
<1>3. /\ note.ends => ~Ending(e)'
      /\ ~note.ends => (Ending(e)' <=> Ending(e))
      /\ \A j, k \in DOMAIN notes'[e] :
           notes'[e][j].ends /\ notes'[e][k].ends => j = k
  BY <1>1, <1>2, RemovedEnding
<1>4. \A x \in Ends : x # e => notes'[x] = notes[x]
  BY <1>1, <1>2 DEF TypeOK
<1>5. /\ wire'[e] = wire[e]
      /\ \A x \in Ends : wire'[x] = wire[x] \/ wire'[x] # <<>>
  <2>1. CASE e \in peerShut \/ d[Other(e)].closed
    BY <1>2, <2>1 DEF Sent
  <2>2. CASE ~(e \in peerShut \/ d[Other(e)].closed)
    <3>1. wire' = [wire EXCEPT ![Other(e)] = Append(@, note.n)]
      BY <1>2, <2>2 DEF Sent
    <3>2. Append(wire[Other(e)], note.n) # <<>>
      <4>1. wire[Other(e)] \in Seq(Nat)
        BY <1>1, TheEnds DEF TypeOK
      <4> QED
        BY <4>1
    <3>3. wire'[Other(e)] # <<>> /\ \A x \in Ends : x # Other(e) => wire'[x] = wire[x]
      BY <1>1, <3>1, <3>2, TheEnds DEF TypeOK
    <3> QED
      BY <3>3, TheEnds
  <2> QED
    BY <2>1, <2>2
<1>6. CASE ~note.ends
  <2>1. d' = [d EXCEPT ![e] = d[e]] /\ wait' = [wait EXCEPT ![e] = wait[e]]
    BY <1>1, <1>2, <1>6 DEF TypeOK
  <2>2. OneEnding(e)'
    BY <1>1, <1>2, <1>3, <1>6 DEF OneEnding
  <2>3. wait[e] # "none" => Pending(e)'
    BY <1>1, <1>2, <1>3, <1>6, PendingKept DEF WaiterOK
  <2> QED
    BY <1>1, <1>2, <1>4, <1>5, <2>1, <2>2, <2>3, CallWaiter
<1>7. CASE note.ends
  <2>1. /\ r \in Dispatcher /\ r.ring = d[e].ring /\ r.inTransit = d[e].inTransit
        /\ r.peerClosed = d[e].peerClosed
    BY <1>1 DEF Dispatcher, EndsTwoPhaseWrite, EndsTwoPhaseRead
  <2>2. OneEnding(e)'
    BY <1>3, <1>7 DEF OneEnding
  <2>3. /\ before.ring = d[e].ring /\ before.inTwoPhase /\ before.avail = 1
        /\ before.peerClosed = d[e].peerClosed
    BY <1>1 DEF Dispatcher
  <2> HIDE DEF r, before
  <2>4. w \in Waiting /\ w \in {wait[e], "none"}
    BY <1>1, AwakeType, AwakeIs DEF WokenWritable, WokenIfChanged
  <2>5. ASSUME w # "none" PROVE ~Satisfied(e, r, w) /\ CanSatisfy(e, r, w)
    <3>1. /\ w = wait[e] /\ wait[e] # "none" /\ d[e].ring
          /\ w = "peerClosed" \/ e = "producer" => ~d[e].peerClosed
      BY <1>1, <2>4, <2>5 DEF WaiterOK, Pending
    <3>2. CASE e = "producer"
      <4>1. WokenWritable(r, wait[e]) # "none"
        BY <2>5, <3>2
      <4> HIDE DEF w
      <4> QED
        BY <1>1, <2>1, <3>1, <3>2, <4>1, WokenWritablePending
    <3>3. CASE e # "producer" /\ Signals(e, r) # Signals(e, before)
      <4>1. w = AwakeForStateChange(e, r, wait[e])
        BY <3>3 DEF WokenIfChanged
      <4> HIDE DEF w
      <4> QED
        BY <2>5, <3>1, <4>1, AwakeIs
    <3>4. CASE e # "producer" /\ Signals(e, r) = Signals(e, before)
      <4> HIDE DEF w
      <4>1. ~Satisfied(e, before, w) /\ CanSatisfy(e, before, w)
        BY <1>1, <2>3, <3>1, <3>4 DEF Satisfied, CanSatisfy, Waiting
      <4> QED
        BY <2>4, <2>5, <3>4, <4>1, SignalsEqual
    <3> QED
      BY <3>2, <3>3, <3>4
  <2> HIDE DEF w
  <2>6. d' = [d EXCEPT ![e] = r] /\ wait' = [wait EXCEPT ![e] = w]
    BY <1>2, <1>7
  <2>7. d'[e] = r /\ wait'[e] = w
    BY <1>1, <2>6 DEF TypeOK
  <2>8. w # "none" => Pending(e)'
    BY <2>4, <2>5, <2>7, PendingOpen DEF Pending
  <2> QED
    BY <1>2, <1>4, <1>5, <2>1, <2>2, <2>4, <2>6, <2>8, CallWaiter
<1> QED
  BY <1>6, <1>7

\* Nobody waits at first.
LEMMA InitWaiter == Init => WInv
<1> SUFFICES ASSUME Init PROVE WInv
  OBVIOUS
<1>1. IInv
  BY InitInv
<1>2. \A e \in Ends : WaiterOK(e)
  BY DEF Init, WaiterOK, OneEnding, Ending, New, Ends
<1> QED
  BY <1>1, <1>2 DEF WInv

\* Every step keeps the waiters right.
LEMMA NextWaiter ==
  ASSUME WInv, [Next]_vars
  PROVE  \A x \in Ends : WaiterOK(x)'
<1> DEFINE Goal == \A x \in Ends : WaiterOK(x)'
<1>0. /\ "producer" \in Ends /\ "consumer" \in Ends /\ TypeOK
      /\ MaxBytes \in Nat /\ Capacity \in Nat \ {0} /\ ElementBytes \in Nat \ {0}
      /\ written \in Nat
      /\ Waits \in [{"producer", "consumer"} -> SUBSET {"data", "peerClosed"}]
      /\ Mappings \subseteq BOOLEAN
  BY TheEnds, DataPipeAssumption DEF WInv, IInv, TypeOK
<1>1. CASE UNCHANGED vars
  BY <1>1, StillWaiter DEF vars
<1>2. CASE ProducerCall
  <2>1. ASSUME NEW n \in Writes, WriteData(n) PROVE Goal
    <3>1. n \in Nat
      BY <1>0 DEF Writes
    <3> QED
      BY <2>1, <3>1, WriteDataWaiter
  <2>2. ASSUME BeginWriteData PROVE Goal
    BY <2>2, BeginWriteDataWaiter
  <2>3. ASSUME NEW n \in Claims("producer"), EndWriteData(n) PROVE Goal
    <3>1. n \in Nat
      BY <1>0, Numbers DEF Claims
    <3> QED
      BY <2>3, <3>1, EndWriteDataWaiter
  <2> QED
    BY <1>2, <2>1, <2>2, <2>3 DEF ProducerCall
<1>3. CASE ConsumerCall
  <2>1. ASSUME NEW n \in Reads, ReadData(n) PROVE Goal
    <3>1. n \in Nat
      BY <1>0 DEF Reads
    <3> QED
      BY <2>1, <3>1, ReadDataWaiter
  <2>2. ASSUME BeginReadData PROVE Goal
    BY <2>2, BeginReadDataWaiter
  <2>3. ASSUME NEW n \in Claims("consumer"), EndReadData(n) PROVE Goal
    <3>1. n \in Nat
      BY <1>0, Numbers DEF Claims
    <3> QED
      BY <2>3, <3>1, EndReadDataWaiter
  <2> QED
    BY <1>3, <2>1, <2>2, <2>3 DEF ConsumerCall
<1>4. ASSUME NEW e \in Ends, Await(e) PROVE Goal
  <2>1. \A s \in Waits[e] : s \in Waiting
    BY <1>0 DEF Waiting, Ends
  <2> QED
    BY <1>4, <2>1, AddAwakableWaiter, RemoveAwakableWaiter DEF Await
<1>5. ASSUME NEW e \in Ends, Transit(e) PROVE Goal
  <2>1. \A m \in Mappings : m \in BOOLEAN
    BY <1>0
  <2> QED
    BY <1>5, <2>1, BeginTransitWaiter, CancelTransitWaiter, EndSerializeWaiter,
       CompleteTransitAndCloseWaiter, DeserializeWaiter DEF Transit
<1>6. ASSUME NEW e \in Ends, ControlPort(e) PROVE Goal
  BY <1>6, NotifyWaiter, DeliverWaiter, ObserveClosureWaiter,
     OnPortStatusChangedWaiter, LateStatusChangedWaiter DEF ControlPort
<1>7. ASSUME NEW e \in Ends, Close(e) PROVE Goal
  BY <1>7, CloseWaiter
<1> QED
  BY <1>0, <1>1, <1>2, <1>3, <1>4, <1>5, <1>6, <1>7
  DEF Next, ProducerAwait, ConsumerAwait, ProducerTransit, ConsumerTransit,
      ProducerPort, ConsumerPort, ProducerClose, ConsumerClose

\* A waiter is woken (NoLostWakeup): whatever wakes end e, UpdateSignalsState,
\* the end of a two-phase call or CancelTransit, it leaves no awakable behind
\* that waits for a signal that is there, or that can no longer come.
THEOREM NoLostWakeupHolds == Spec => []NoLostWakeup
<1>1. WInv /\ [Next]_vars => WInv'
  BY NextInv, NextWaiter DEF WInv
<1>2. WInv => NoLostWakeup
  BY DEF WInv, WaiterOK, Pending, Looked, NoLostWakeup
<1> QED
  BY InitWaiter, <1>1, <1>2, PTL DEF Spec

=============================================================================
