------------------------------ MODULE SequenceLemmas ------------------------------
(***************************************************************************)
(* Lemmas about sequences that the proofs of several components cite.      *)
(*                                                                         *)
(* A ring buffer read as a queue.  Both thread pools keep their tasks in   *)
(* an array of n slots that wraps around: `front` (head) names the oldest, *)
(* `rear` (tail) the slot behind the youngest.  Storing at the rear        *)
(* appends to the queue, moving the front drops its head.                  *)
(*                                                                         *)
(* Sequences that are cut and joined again: what a read(), a write() or a  *)
(* send() that stops half-way does to what is on its way.                  *)
(*                                                                         *)
(* And induction over the naturals, in a form that every proof can cite.   *)
(***************************************************************************)
EXTENDS Integers, SequenceTheorems, WellFoundedInduction, TLAPS

(* The i-th slot from slot f on, of n. *)
Slot(n, f, i) == (f + i) % n

(* What k slots of the array q hold, from slot f on. *)
Read(n, q, f, k) == [i \in 1 .. k |-> q[(f + i - 1) % n]]

------------------------------------------------------------------------------
LEMMA SlotIs ==
  ASSUME NEW n \in Nat \ {0}, NEW f \in 0 .. n - 1, NEW i \in 0 .. n
  PROVE  Slot(n, f, i) = IF f + i < n THEN f + i ELSE f + i - n
  BY DEF Slot

LEMMA SlotsDiffer ==
  ASSUME NEW n \in Nat \ {0}, NEW f \in 0 .. n - 1,
         NEW i \in 0 .. n - 1, NEW j \in 0 .. n - 1, i # j
  PROVE  Slot(n, f, i) # Slot(n, f, j)
  BY SlotIs

LEMMA FrontSlots ==
  ASSUME NEW n \in Nat \ {0}, NEW f \in 0 .. n - 1
  PROVE  /\ Slot(n, f, 0) = f
         /\ Slot(n, f, 1) \in 0 .. n - 1 /\ (f + 1) % n = Slot(n, f, 1)
  <1>1. Slot(n, f, 0) = f /\ Slot(n, f, 1) \in 0 .. n - 1
    BY SlotIs
  <1>2. QED
    BY <1>1 DEF Slot

(* With the front one further, every slot is one nearer to it. *)
LEMMA SlotsMove ==
  ASSUME NEW n \in Nat \ {0}, NEW f \in 0 .. n - 1, NEW i \in 0 .. n - 1
  PROVE  /\ Slot(n, f, i) \in 0 .. n - 1
         /\ Slot(n, Slot(n, f, 1), i) = Slot(n, f, i + 1)
         /\ (Slot(n, f, i) + 1) % n = Slot(n, f, i + 1)
  <1>1. Slot(n, f, 1) \in 0 .. n - 1 /\ Slot(n, f, i) \in 0 .. n - 1
    <2>1. 1 \in 0 .. n /\ i \in 0 .. n
      OBVIOUS
    <2>2. ASSUME NEW j \in 0 .. n PROVE Slot(n, f, j) \in 0 .. n - 1
      BY SlotIs
    <2>3. QED
      BY <2>1, <2>2
  <1>2. Slot(n, Slot(n, f, 1), i) = Slot(n, f, i + 1)
    BY <1>1, SlotIs
  <1>3. (Slot(n, f, i) + 1) % n = Slot(n, Slot(n, f, i), 1)
    BY DEF Slot
  <1>4. Slot(n, Slot(n, f, i), 1) = Slot(n, f, i + 1)
    BY <1>1, SlotIs
  <1>5. QED
    BY <1>1, <1>2, <1>3, <1>4

LEMMA ReadAt ==
  ASSUME NEW n \in Nat \ {0}, NEW q, NEW f \in 0 .. n - 1, NEW k \in 0 .. n
  PROVE  \A i \in 1 .. k : Read(n, q, f, k)[i] = q[Slot(n, f, i - 1)]
  <1>1. \A i \in 1 .. k : f + i - 1 = f + (i - 1)
    OBVIOUS
  <1>2. \A i \in 1 .. k : (f + i - 1) % n = Slot(n, f, i - 1)
    BY <1>1 DEF Slot
  <1>3. QED
    BY <1>2 DEF Read

LEMMA ReadSeq ==
  ASSUME NEW n \in Nat \ {0}, NEW S, NEW q, NEW f \in 0 .. n - 1, NEW k \in 0 .. n,
         \A i \in 0 .. k - 1 : q[Slot(n, f, i)] \in S
  PROVE  Read(n, q, f, k) \in Seq(S) /\ Len(Read(n, q, f, k)) = k
  <1>1. \A i \in 1 .. k : f + i - 1 = f + (i - 1) /\ i - 1 \in 0 .. k - 1
    OBVIOUS
  <1>2. Read(n, q, f, k) \in [1 .. k -> S]
    BY <1>1 DEF Read, Slot
  <1>3. k \in Nat
    OBVIOUS
  <1>4. QED
    BY ONLY <1>2, <1>3

------------------------------------------------------------------------------
(* Append under a name that the provers do not rewrite. *)
Longer(c, t) == Append(c, t)

(* Storing t in the slot behind the last one appends it. *)
LEMMA PutAppends ==
  ASSUME NEW n \in Nat \ {0}, NEW q, NEW r, NEW f \in 0 .. n - 1, NEW k \in 0 .. n - 1,
         NEW t, NEW m, m = k + 1,
         \A i \in 0 .. k - 1 : r[Slot(n, f, i)] = q[Slot(n, f, i)], r[Slot(n, f, k)] = t
  PROVE  Read(n, r, f, m) = Longer(Read(n, q, f, k), t)
  <1> DEFINE S == {q[Slot(n, f, i)] : i \in 0 .. k - 1} \cup {t}
  <1>1. \A i \in 0 .. k - 1 : r[Slot(n, f, i)] = q[Slot(n, f, i)] /\ q[Slot(n, f, i)] \in S
    OBVIOUS
  <1>2. t \in S /\ \A i \in 0 .. k : r[Slot(n, f, i)] \in S
    OBVIOUS
  <1> HIDE DEF S
  <1> DEFINE c == Read(n, q, f, k)
  <1> DEFINE d == Read(n, r, f, m)
  <1>3. c \in Seq(S) /\ Len(c) = k /\ \A i \in 1 .. k : c[i] = q[Slot(n, f, i - 1)]
    <2>1. c = Read(n, q, f, k) /\ k \in 0 .. n
      OBVIOUS
    <2> HIDE DEF c
    <2>2. k \in 0 .. n
      BY <2>1
    <2>3. \A i \in 1 .. k : Read(n, q, f, k)[i] = q[Slot(n, f, i - 1)]
      BY ONLY <2>2, ReadAt
    <2>4. Read(n, q, f, k) \in Seq(S) /\ Len(Read(n, q, f, k)) = k
      BY <1>1, <2>1, ReadSeq
    <2>5. QED
      BY <2>1, <2>3, <2>4
  <1>4. d \in Seq(S) /\ Len(d) = m /\ \A i \in 1 .. m : d[i] = r[Slot(n, f, i - 1)]
    <2>1. m \in 0 .. n /\ \A i \in 0 .. m - 1 : r[Slot(n, f, i)] \in S
      BY <1>2
    <2>2. d = Read(n, r, f, m) /\ n \in Nat \ {0} /\ f \in 0 .. n - 1
      OBVIOUS
    <2> HIDE DEF d
    <2>3. \A i \in 1 .. m : Read(n, r, f, m)[i] = r[Slot(n, f, i - 1)]
      BY ONLY <2>1, <2>2, ReadAt
    <2>4. Read(n, r, f, m) \in Seq(S) /\ Len(Read(n, r, f, m)) = m
      BY ONLY <2>1, <2>2, ReadSeq
    <2>5. QED
      BY <2>2, <2>3, <2>4
  <1> HIDE DEF c, d
  <1>5. ASSUME NEW i \in 1 .. k PROVE d[i] = c[i]
    <2>1. i - 1 \in 0 .. k - 1 /\ i \in 1 .. m
      OBVIOUS
    <2>2. d[i] = r[Slot(n, f, i - 1)] /\ c[i] = q[Slot(n, f, i - 1)]
      BY <1>3, <1>4, <2>1
    <2>3. QED
      BY <1>1, <2>1, <2>2
  <1>6. d[k + 1] = t
    BY <1>1, <1>4
  <1>7. d = Append(c, t)
    <2> DEFINE e == Append(c, t)
    <2>1. /\ e \in Seq(S) /\ Len(e) = k + 1
          /\ \A i \in 1 .. k : e[i] = c[i]
          /\ e[k + 1] = t
      BY <1>2, <1>3, AppendProperties
    <2> HIDE DEF e
    <2>2. \A i \in 1 .. m : d[i] = e[i]
      BY <1>5, <1>6, <2>1
    <2>3. d = e
      BY <1>4, <2>1, <2>2, SeqEqual
    <2>4. QED
      BY <2>3 DEF e
  <1>8. QED
    BY <1>7 DEF c, d, Longer

(* Moving the front drops the head. *)
LEMMA TakeDrops ==
  ASSUME NEW n \in Nat \ {0}, NEW q, NEW f \in 0 .. n - 1, NEW k \in 1 .. n
  PROVE  /\ Read(n, q, f, k) # <<>> /\ Head(Read(n, q, f, k)) = q[f]
         /\ Read(n, q, Slot(n, f, 1), k - 1) = Tail(Read(n, q, f, k))
  <1> DEFINE S == {q[Slot(n, f, i)] : i \in 0 .. k - 1}
  <1> DEFINE g == Slot(n, f, 1)
  <1> DEFINE m == k - 1
  <1> DEFINE c == Read(n, q, f, k)
  <1> DEFINE d == Read(n, q, g, m)
  <1>1. g \in 0 .. n - 1 /\ Slot(n, f, 0) = f /\ m \in 0 .. n - 1
    BY FrontSlots
  <1>2. \A i \in 0 .. n - 1 : Slot(n, g, i) = Slot(n, f, i + 1)
    BY SlotsMove
  <1>3. \A i \in 0 .. k - 1 : q[Slot(n, f, i)] \in S
    OBVIOUS
  <1> HIDE DEF S
  <1>4. \A i \in 0 .. m - 1 : q[Slot(n, g, i)] \in S
    <2> HIDE DEF g
    <2> QED
      BY <1>2, <1>3
  <1>5. c \in Seq(S) /\ Len(c) = k /\ \A i \in 1 .. k : c[i] = q[Slot(n, f, i - 1)]
    <2>1. c = Read(n, q, f, k) /\ k \in 0 .. n
      OBVIOUS
    <2> HIDE DEF c
    <2>2. \A i \in 1 .. k : Read(n, q, f, k)[i] = q[Slot(n, f, i - 1)]
      BY <2>1, ReadAt
    <2>3. Read(n, q, f, k) \in Seq(S) /\ Len(Read(n, q, f, k)) = k
      BY <1>3, <2>1, ReadSeq
    <2>4. QED
      BY <2>1, <2>2, <2>3
  <1>6. d \in Seq(S) /\ Len(d) = m /\ \A i \in 1 .. m : d[i] = q[Slot(n, g, i - 1)]
    <2>1. m \in 0 .. n
      BY <1>1
    <2>2. d = Read(n, q, g, m)
      OBVIOUS
    <2> HIDE DEF d, g, m
    <2>3. n \in Nat \ {0} /\ g \in 0 .. n - 1
      BY <1>1
    <2>4. \A i \in 1 .. m : Read(n, q, g, m)[i] = q[Slot(n, g, i - 1)]
      BY ONLY <2>1, <2>3, ReadAt
    <2>5. Read(n, q, g, m) \in Seq(S) /\ Len(Read(n, q, g, m)) = m
      BY ONLY <1>4, <2>1, <2>3, ReadSeq
    <2>6. QED
      BY <2>2, <2>4, <2>5
  <1> HIDE DEF c, d, g
  <1>7. c # <<>> /\ Head(c) = c[1] /\ c[1] = q[f]
    BY <1>1, <1>5
  <1>8. \A i \in 1 .. m : d[i] = c[i + 1]
    <2>1. \A i \in 1 .. m :
             i - 1 \in 0 .. n - 1 /\ i + 1 \in 1 .. k /\ (i - 1) + 1 = i /\ (i + 1) - 1 = i
      BY <1>1
    <2> HIDE DEF m
    <2>2. ASSUME NEW i \in 1 .. m PROVE d[i] = q[Slot(n, f, i)] /\ c[i + 1] = q[Slot(n, f, i)]
      <3>1. d[i] = q[Slot(n, g, i - 1)] /\ Slot(n, g, i - 1) = Slot(n, f, i)
        BY <1>2, <1>6, <2>1
      <3>2. c[i + 1] = q[Slot(n, f, (i + 1) - 1)]
        BY <1>5, <2>1
      <3>3. QED
        BY <2>1, <3>1, <3>2
    <2>3. QED
      BY <2>2
  <1>9. d = Tail(c)
    <2>1. /\ Tail(c) \in Seq(S) /\ Len(Tail(c)) = m
          /\ \A i \in 1 .. m : Tail(c)[i] = c[i + 1]
      BY <1>5, <1>7, HeadTailProperties
    <2>2. QED
      BY <1>6, <1>8, <2>1, SeqEqual
  <1>10. QED
    BY <1>7, <1>9 DEF c, d, g

------------------------------------------------------------------------------
(* Concatenation under a name that the provers do not rewrite. *)
Concat(s, t) == s \o t

LEMMA ConcatIs ==
  ASSUME NEW S, NEW s \in Seq(S), NEW t \in Seq(S)
  PROVE  /\ s \o t \in Seq(S) /\ Len(s \o t) = Len(s) + Len(t)
         /\ \A i \in 1 .. Len(s) : (s \o t)[i] = s[i]
         /\ \A i \in 1 .. Len(t) : (s \o t)[Len(s) + i] = t[i]
  <1>1. Len(s) \in Nat /\ Len(t) \in Nat
    BY LenProperties
  <1>2. /\ s \o t \in Seq(S) /\ Len(s \o t) = Len(s) + Len(t)
        /\ \A i \in 1 .. Len(s) + Len(t) : (s \o t)[i] = IF i <= Len(s) THEN s[i] ELSE t[i - Len(s)]
    BY ONLY s \in Seq(S), t \in Seq(S), ConcatProperties
  <1>3. \A i \in 1 .. Len(s) : (s \o t)[i] = s[i]
    BY <1>1, <1>2
  <1>4. ASSUME NEW i \in 1 .. Len(t) PROVE (s \o t)[Len(s) + i] = t[i]
    <2>1. Len(s) + i \in 1 .. Len(s) + Len(t) /\ ~(Len(s) + i <= Len(s)) /\ (Len(s) + i) - Len(s) = i
      BY <1>1
    <2>2. QED
      BY <1>2, <2>1
  <1>5. QED
    BY <1>2, <1>3, <1>4

(* To join three sequences, it does not matter where one begins. *)
LEMMA Associative ==
  ASSUME NEW S, NEW s \in Seq(S), NEW t \in Seq(S), NEW u \in Seq(S)
  PROVE  Concat(Concat(s, t), u) = Concat(s, Concat(t, u))
  <1>1. PICK a \in Seq(S) : a = s \o t
    BY ConcatIs
  <1>2. PICK b \in Seq(S) : b = t \o u
    BY ConcatIs
  <1>3. PICK x \in Seq(S) : x = a \o u
    BY ConcatIs
  <1>4. PICK y \in Seq(S) : y = s \o b
    BY ConcatIs
  <1>5. /\ Len(a) = Len(s) + Len(t)
        /\ \A i \in 1 .. Len(s) : a[i] = s[i]
        /\ \A i \in 1 .. Len(t) : a[Len(s) + i] = t[i]
    BY <1>1, ConcatIs
  <1>6. /\ Len(b) = Len(t) + Len(u)
        /\ \A i \in 1 .. Len(t) : b[i] = t[i]
        /\ \A i \in 1 .. Len(u) : b[Len(t) + i] = u[i]
    BY <1>2, ConcatIs
  <1>7. /\ Len(x) = Len(a) + Len(u)
        /\ \A i \in 1 .. Len(a) : x[i] = a[i]
        /\ \A i \in 1 .. Len(u) : x[Len(a) + i] = u[i]
    BY <1>3, ConcatIs
  <1>8. /\ Len(y) = Len(s) + Len(b)
        /\ \A i \in 1 .. Len(s) : y[i] = s[i]
        /\ \A i \in 1 .. Len(b) : y[Len(s) + i] = b[i]
    BY <1>4, ConcatIs
  <1>9. Len(s) \in Nat /\ Len(t) \in Nat /\ Len(u) \in Nat
    BY LenProperties
  <1>10. Len(x) = Len(y)
    BY ONLY <1>5, <1>6, <1>7, <1>8, <1>9
  <1>11. ASSUME NEW i \in 1 .. Len(x) PROVE x[i] = y[i]
    <2>1. CASE i <= Len(s)
      <3>1. i \in 1 .. Len(s) /\ i \in 1 .. Len(a)
        BY ONLY <1>5, <1>9, <2>1, i \in 1 .. Len(x)
      <3>2. QED
        BY ONLY <1>5, <1>7, <1>8, <3>1
    <2>2. CASE i > Len(s) /\ i <= Len(s) + Len(t)
      <3>9. i - Len(s) \in 1 .. Len(t) /\ i = Len(s) + (i - Len(s))
        BY ONLY <1>5, <1>7, <1>9, <2>2, i \in 1 .. Len(x)
      <3>1. PICK j \in 1 .. Len(t) : i = Len(s) + j
        BY ONLY <3>9
      <3>2. i \in 1 .. Len(a) /\ j \in 1 .. Len(b)
        BY ONLY <1>5, <1>6, <1>9, <3>1, j \in 1 .. Len(t)
      <3>3. x[i] = t[j]
        BY ONLY <1>5, <1>7, <3>1, <3>2, j \in 1 .. Len(t)
      <3>4. y[i] = t[j]
        BY ONLY <1>6, <1>8, <3>1, <3>2, j \in 1 .. Len(t)
      <3>5. QED
        BY ONLY <3>3, <3>4
    <2>3. CASE i > Len(s) + Len(t)
      <3>9. i - Len(a) \in 1 .. Len(u) /\ i = Len(a) + (i - Len(a))
        BY ONLY <1>5, <1>7, <1>9, <2>3, i \in 1 .. Len(x)
      <3>1. PICK j \in 1 .. Len(u) : i = Len(a) + j
        BY ONLY <3>9
      <3>2. Len(t) + j \in 1 .. Len(b) /\ i = Len(s) + (Len(t) + j)
        BY ONLY <1>5, <1>6, <1>9, <3>1, j \in 1 .. Len(u)
      <3>3. x[i] = u[j]
        BY ONLY <1>7, <3>1, j \in 1 .. Len(u)
      <3>4. y[i] = u[j]
        BY ONLY <1>6, <1>8, <3>2, j \in 1 .. Len(u)
      <3>5. QED
        BY ONLY <3>3, <3>4
    <2>4. QED
      BY <1>5, <1>7, <1>9, <2>1, <2>2, <2>3
  <1>12. x = y
    BY ONLY x \in Seq(S), y \in Seq(S), <1>10, <1>11, SeqEqual
  <1>13. QED
    BY <1>1, <1>2, <1>3, <1>4, <1>12 DEF Concat

(* The two parts of a sequence that is cut behind its n-th element. *)
LEMMA CutIs ==
  ASSUME NEW S, NEW t \in Seq(S), NEW n \in 0 .. Len(t)
  PROVE  /\ SubSeq(t, 1, n) \in Seq(S) /\ Len(SubSeq(t, 1, n)) = n
         /\ \A i \in 1 .. n : SubSeq(t, 1, n)[i] = t[i]
         /\ SubSeq(t, n + 1, Len(t)) \in Seq(S) /\ Len(SubSeq(t, n + 1, Len(t))) = Len(t) - n
         /\ \A i \in 1 .. Len(t) - n : SubSeq(t, n + 1, Len(t))[i] = t[n + i]
  <1>1. Len(t) \in Nat /\ \A i \in 1 .. Len(t) : t[i] \in S
    BY ElementOfSeq, LenProperties
  <1>2. \A i \in 1 .. n : t[i] \in S
    BY <1>1
  <1>3. SubSeq(t, 1, n) \in Seq(S) /\ Len(SubSeq(t, 1, n)) = n /\ \A i \in 1 .. n : SubSeq(t, 1, n)[i] = t[i]
    BY <1>2, SubSeqProperties
  <1>4. \A i \in n + 1 .. Len(t) : t[i] \in S
    BY <1>1
  <1>5. SubSeq(t, n + 1, Len(t)) \in Seq(S) /\ Len(SubSeq(t, n + 1, Len(t))) = Len(t) - n
    BY <1>1, <1>4, SubSeqProperties
  <1>6. \A i \in 1 .. Len(t) - n : SubSeq(t, n + 1, Len(t))[i] = t[n + i]
    BY <1>1, <1>4, SubSeqProperties
  <1>7. QED
    BY <1>3, <1>5, <1>6

LEMMA CutConcat ==
  ASSUME NEW S, NEW t \in Seq(S), NEW n \in 0 .. Len(t)
  PROVE  Concat(SubSeq(t, 1, n), SubSeq(t, n + 1, Len(t))) = t
  <1>1. Len(t) \in Nat
    BY LenProperties
  <1> DEFINE u == SubSeq(t, 1, n)
  <1> DEFINE v == SubSeq(t, n + 1, Len(t))
  <1>2. u \in Seq(S) /\ Len(u) = n /\ \A i \in 1 .. n : u[i] = t[i]
    BY CutIs
  <1>3. v \in Seq(S) /\ Len(v) = Len(t) - n /\ \A i \in 1 .. Len(t) - n : v[i] = t[n + i]
    BY CutIs
  <1> HIDE DEF u, v
  <1>4. PICK x \in Seq(S) : x = u \o v
    BY <1>2, <1>3, ConcatIs
  <1>5. /\ Len(x) = Len(u) + Len(v)
        /\ \A i \in 1 .. Len(u) : x[i] = u[i]
        /\ \A i \in 1 .. Len(v) : x[Len(u) + i] = v[i]
    BY <1>2, <1>3, <1>4, ConcatIs
  <1>6. Len(x) = Len(t)
    BY ONLY <1>1, <1>2, <1>3, <1>5, n \in 0 .. Len(t)
  <1>7. ASSUME NEW i \in 1 .. Len(t) PROVE x[i] = t[i]
    <2>1. CASE i <= n
      <3>1. i \in 1 .. Len(u) /\ i \in 1 .. n
        BY ONLY <1>1, <1>2, <2>1, i \in 1 .. Len(t), n \in 0 .. Len(t)
      <3>2. QED
        BY ONLY <1>2, <1>5, <3>1
    <2>2. CASE i > n
      <3>1. i - n \in 1 .. Len(t) - n /\ i = n + (i - n)
        BY ONLY <1>1, <2>2, i \in 1 .. Len(t), n \in 0 .. Len(t)
      <3>2. PICK j \in 1 .. Len(t) - n : i = n + j
        BY ONLY <3>1
      <3>3. QED
        BY ONLY <1>2, <1>3, <1>5, <3>2, j \in 1 .. Len(t) - n
    <2>3. QED
      BY <1>1, <2>1, <2>2
  <1>8. x = t
    BY ONLY <1>6, <1>7, x \in Seq(S), t \in Seq(S), SeqEqual
  <1>9. QED
    BY <1>2, <1>3, <1>4, <1>8 DEF Concat, u, v

(* To join the first n elements of t to s, and to keep the rest, changes   *)
(* nothing to the whole.                                                   *)
LEMMA ConcatCut ==
  ASSUME NEW S, NEW s \in Seq(S), NEW t \in Seq(S), NEW n \in 0 .. Len(t)
  PROVE  Concat(Concat(s, SubSeq(t, 1, n)), SubSeq(t, n + 1, Len(t))) = Concat(s, t)
  <1> DEFINE u == SubSeq(t, 1, n)
  <1> DEFINE v == SubSeq(t, n + 1, Len(t))
  <1>1. u \in Seq(S) /\ v \in Seq(S) 
    BY CutIs
  <1>2. Concat(u, v) = t
    BY CutConcat
  <1> HIDE DEF u, v
  <1>3. Concat(Concat(s, u), v) = Concat(s, Concat(u, v))
    BY ONLY <1>1, s \in Seq(S), Associative
  <1>4. QED
    BY <1>2, <1>3 DEF u, v

------------------------------------------------------------------------------
(* A queue that holds everything once: what Append() and Tail() do to it. *)
Once(q) == \A i, j \in DOMAIN q : q[i] = q[j] => i = j
Within(q, d) == \E i \in DOMAIN q : q[i] = d

LEMMA AppendOnce ==
  ASSUME NEW S, NEW c \in S, NEW q \in Seq(S), Once(q), ~Within(q, c)
  PROVE  /\ Longer(q, c) \in Seq(S) /\ Once(Longer(q, c))
         /\ \A d : Within(Longer(q, c), d) <=> Within(q, d) \/ d = c
  <1> DEFINE r == Append(q, c)
  <1>1. Len(q) \in Nat /\ DOMAIN q = 1 .. Len(q)
    BY LenProperties
  <1>2. r \in Seq(S) /\ Len(r) = Len(q) + 1 /\ r[Len(q) + 1] = c
        /\ \A i \in 1 .. Len(q) : r[i] = q[i]
    BY AppendProperties
  <1>3. DOMAIN r = 1 .. Len(r)
    BY <1>2, LenProperties
  <1> HIDE DEF r
  <1>4. DOMAIN r = 1 .. Len(q) + 1
    BY <1>2, <1>3
  <1>5. ASSUME NEW d PROVE (\E i \in DOMAIN r : r[i] = d) <=> (\E i \in DOMAIN q : q[i] = d) \/ d = c
    BY <1>1, <1>2, <1>4
  <1>6. ASSUME NEW i \in DOMAIN r, NEW j \in DOMAIN r, r[i] = r[j] PROVE i = j
    <2>1. CASE i = Len(q) + 1
      BY <1>1, <1>2, <1>4, <1>6, <2>1 DEF Within
    <2>2. CASE j = Len(q) + 1
      BY <1>1, <1>2, <1>4, <1>6, <2>2 DEF Within
    <2>3. CASE i \in 1 .. Len(q) /\ j \in 1 .. Len(q)
      BY <1>1, <1>2, <1>6, <2>3 DEF Once
    <2>4. QED
      BY <1>1, <1>4, <2>1, <2>2, <2>3
  <1>7. Once(r) /\ \A d : Within(r, d) <=> Within(q, d) \/ d = c
    BY <1>5, <1>6 DEF Once, Within
  <1>8. QED
    BY <1>2, <1>7 DEF r, Longer

LEMMA TailOnce ==
  ASSUME NEW S, NEW q \in Seq(S), q # <<>>, Once(q)
  PROVE  /\ Tail(q) \in Seq(S) /\ Head(q) \in S
         /\ Once(Tail(q)) /\ Within(q, Head(q))
         /\ \A d : Within(Tail(q), d) <=> Within(q, d) /\ d # Head(q)
  <1> DEFINE r == Tail(q)
  <1>1. Len(q) \in Nat \ {0} /\ DOMAIN q = 1 .. Len(q)
    BY LenProperties, EmptySeq
  <1>2. r \in Seq(S) /\ Len(r) = Len(q) - 1 /\ Head(q) \in S
        /\ \A i \in 1 .. Len(r) : r[i] = q[i + 1]
    BY HeadTailProperties
  <1>3. DOMAIN r = 1 .. Len(r)
    BY <1>2, LenProperties
  <1>4. Head(q) = q[1]
    OBVIOUS
  <1> HIDE DEF r
  <1>5. DOMAIN r = 1 .. Len(q) - 1
    BY <1>2, <1>3
  <1>6. ASSUME NEW d PROVE (\E i \in DOMAIN r : r[i] = d) <=> (\E i \in DOMAIN q : q[i] = d) /\ d # Head(q)
    <2>1. ASSUME NEW i \in DOMAIN r, r[i] = d PROVE (\E k \in DOMAIN q : q[k] = d) /\ d # Head(q)
      <3>1. i + 1 \in DOMAIN q /\ 1 \in DOMAIN q /\ i + 1 # 1
        BY <1>1, <1>5
      <3>2. q[i + 1] = d
        BY <1>2, <1>3, <2>1
      <3>3. QED
        BY <1>4, <3>1, <3>2 DEF Once
    <2>2. ASSUME NEW i \in DOMAIN q, q[i] = d, d # Head(q) PROVE \E k \in DOMAIN r : r[k] = d
      <3>1. i - 1 \in DOMAIN r /\ (i - 1) + 1 = i
        BY <1>1, <1>4, <1>5, <2>2
      <3>2. r[i - 1] = d
        BY <1>2, <1>3, <2>2, <3>1
      <3>3. QED
        BY <3>1, <3>2
    <2>3. QED
      BY <2>1, <2>2
  <1>7. ASSUME NEW i \in DOMAIN r, NEW j \in DOMAIN r, r[i] = r[j] PROVE i = j
    <2>1. i + 1 \in DOMAIN q /\ j + 1 \in DOMAIN q
      BY <1>1, <1>5
    <2>2. q[i + 1] = q[j + 1]
      BY <1>2, <1>3, <1>7
    <2>3. i + 1 = j + 1
      BY <2>1, <2>2 DEF Once
    <2>4. QED
      BY <1>5, <2>3
  <1>8. Within(q, Head(q))
    BY <1>1, <1>4 DEF Within
  <1>9. Once(r) /\ \A d : Within(r, d) <=> Within(q, d) /\ d # Head(q)
    BY <1>6, <1>7 DEF Once, Within
  <1>10. QED
    BY <1>2, <1>8, <1>9 DEF r

------------------------------------------------------------------------------
(* Induction.  The theorems of the library that have an operator parameter *)
(* cannot be cited; this one is about a set.                               *)
LEMMA SetInduction ==
  ASSUME NEW T, T \subseteq Nat, 0 \in T, \A n \in T : n + 1 \in T
  PROVE  T = Nat
  <1> DEFINE R == {ss \in Nat \X Nat : ss[1] < ss[2]}
  <1> DEFINE U == Nat \ T
  <1>1. IsWellFoundedOn(R, Nat)
    BY NatLessThanWellFounded DEF OpToRel
  <1>2. SUFFICES ASSUME U # {} PROVE FALSE
    OBVIOUS
  <1>3. PICK x \in U : \A y \in U : ~ (<<y, x>> \in R)
    <2> HIDE DEF R
    <2>1. U \subseteq Nat
      OBVIOUS
    <2>2. QED
      BY <1>1, <1>2, <2>1, WFMin
  <1>4. x \in Nat /\ x # 0 /\ x - 1 \in Nat /\ <<x - 1, x>> \in R
    OBVIOUS
  <1>5. x - 1 \in T
    BY <1>3, <1>4
  <1>6. (x - 1) + 1 \in T /\ (x - 1) + 1 = x
    BY <1>4, <1>5
  <1>7. QED
    BY <1>3, <1>6

------------------------------------------------------------------------------
(* Slices and concatenations *)

LEMMA ThreeAre ==
  ASSUME NEW Els, NEW x \in Els, NEW y \in Els, NEW z \in Els
  PROVE  /\ <<x, y, z>> \in Seq(Els) /\ Len(<<x, y, z>>) = 3
         /\ <<x, y, z>>[1] = x /\ <<x, y, z>>[2] = y /\ <<x, y, z>>[3] = z
  OBVIOUS

LEMMA FourAre ==
  ASSUME NEW Els, NEW v \in Els, NEW x \in Els, NEW y \in Els, NEW z \in Els
  PROVE  /\ <<v, x, y, z>> \in Seq(Els) /\ Len(<<v, x, y, z>>) = 4
         /\ <<v, x, y, z>>[1] = v /\ <<v, x, y, z>>[2] = x /\ <<v, x, y, z>>[3] = y /\ <<v, x, y, z>>[4] = z
  OBVIOUS

LEMMA SixAre ==
  ASSUME NEW Els, NEW t \in Els, NEW u \in Els, NEW v \in Els, NEW x \in Els, NEW y \in Els, NEW z \in Els
  PROVE  /\ <<t, u, v, x, y, z>> \in Seq(Els) /\ Len(<<t, u, v, x, y, z>>) = 6
         /\ <<t, u, v, x, y, z>>[1] = t /\ <<t, u, v, x, y, z>>[2] = u /\ <<t, u, v, x, y, z>>[3] = v
         /\ <<t, u, v, x, y, z>>[4] = x /\ <<t, u, v, x, y, z>>[5] = y /\ <<t, u, v, x, y, z>>[6] = z
  OBVIOUS

(* What stands where in a concatenation. *)
LEMMA JoinIs ==
  ASSUME NEW Els, NEW s \in Seq(Els), NEW t \in Seq(Els)
  PROVE  /\ Concat(s, t) \in Seq(Els) /\ Len(s) \in Nat /\ Len(t) \in Nat /\ Len(Concat(s, t)) = Len(s) + Len(t)
         /\ \A j \in 1 .. Len(s) + Len(t) : Concat(s, t)[j] = IF j <= Len(s) THEN s[j] ELSE t[j - Len(s)]
  <1>1. PICK m \in Nat, n \in Nat : m = Len(s) /\ n = Len(t)
    BY LenProperties
  <1>2. PICK u : u = Concat(s, t)
    OBVIOUS
  <1>3. /\ u \in Seq(Els) /\ Len(u) = m + n
        /\ \A i \in 1 .. m : u[i] = s[i]
        /\ \A i \in 1 .. n : u[m + i] = t[i]
    BY <1>1, <1>2, ConcatIs DEF Concat
  <1>4. ASSUME NEW j \in 1 .. m + n, ~ (j <= m) PROVE u[j] = t[j - m]
    <2>1. j - m \in 1 .. n /\ m + (j - m) = j
      BY <1>4
    <2>2. QED
      BY <1>3, <2>1
  <1>5. \A j \in 1 .. m + n : u[j] = IF j <= m THEN s[j] ELSE t[j - m]
    BY <1>3, <1>4
  <1>6. QED
    BY <1>1, <1>2, <1>3, <1>5

LEMMA Retyped ==
  ASSUME NEW Els, NEW Els2, NEW t \in Seq(Els), \A i \in 1 .. Len(t) : t[i] \in Els2
  PROVE  t \in Seq(Els2)
  <1>1. Len(t) \in Nat /\ t \in [1 .. Len(t) -> Els2]
    BY LenProperties
  <1>2. QED
    BY <1>1, IsASeq

LEMMA RetypedUp == ASSUME NEW Els, NEW Els2, Els \subseteq Els2, NEW t \in Seq(Els) PROVE t \in Seq(Els2)
  <1>1. \A i \in 1 .. Len(t) : t[i] \in Els2
    BY ElementOfSeq
  <1>2. QED
    BY <1>1, Retyped

(* What lies between two places of a sequence. *)
LEMMA SliceIs ==
  ASSUME NEW Els, NEW t \in Seq(Els), NEW b \in Nat, NEW m \in Nat, NEW e, e = b + m, e <= Len(t)
  PROVE  /\ SubSeq(t, b + 1, e) \in Seq(Els) /\ Len(SubSeq(t, b + 1, e)) = m
         /\ \A k \in 1 .. m : SubSeq(t, b + 1, e)[k] = t[b + k]
  <1>1. Len(t) \in Nat /\ \A i \in 1 .. Len(t) : t[i] \in Els
    BY ElementOfSeq, LenProperties
  <1>2. \A i \in b + 1 .. e : t[i] \in Els
    BY <1>1
  <1>3. /\ SubSeq(t, b + 1, e) \in Seq(Els)
        /\ Len(SubSeq(t, b + 1, e)) = IF b + 1 <= e THEN e - (b + 1) + 1 ELSE 0
        /\ \A k \in 1 .. e - (b + 1) + 1 : SubSeq(t, b + 1, e)[k] = t[(b + 1) + k - 1]
    BY <1>2, SubSeqProperties
  <1>4. e - (b + 1) + 1 = m /\ (IF b + 1 <= e THEN m ELSE 0) = m
    OBVIOUS
  <1>5. \A k \in 1 .. m : (b + 1) + k - 1 = b + k
    OBVIOUS
  <1>6. QED
    BY ONLY <1>3, <1>4, <1>5

(* A slice of a slice. *)
LEMMA SliceOfSlice ==
  ASSUME NEW Els, NEW t \in Seq(Els), NEW b \in Nat, NEW m \in Nat, NEW n \in Nat, b + m + n <= Len(t),
         NEW u, u = SubSeq(t, b + 1, b + m + n)
  PROVE  SubSeq(u, m + 1, m + n) = SubSeq(t, (b + m) + 1, b + m + n)
  <1>1. PICK e \in Nat, bm \in Nat, mn \in Nat : e = b + m + n /\ bm = b + m /\ mn = m + n
    OBVIOUS
  <1>2. u \in Seq(Els) /\ Len(u) = mn /\ \A k \in 1 .. mn : u[k] = t[b + k]
    <2>1. e = b + mn /\ e <= Len(t) /\ u = SubSeq(t, b + 1, e)
      BY <1>1
    <2>2. /\ SubSeq(t, b + 1, e) \in Seq(Els) /\ Len(SubSeq(t, b + 1, e)) = mn
          /\ \A k \in 1 .. mn : SubSeq(t, b + 1, e)[k] = t[b + k]
      BY ONLY <2>1, b \in Nat, mn \in Nat, t \in Seq(Els), SliceIs
    <2>3. QED
      BY ONLY <2>1, <2>2, Zenon
  <1>3. PICK v : v = SubSeq(u, m + 1, mn)
    OBVIOUS
  <1>4. v \in Seq(Els) /\ Len(v) = n /\ \A k \in 1 .. n : v[k] = u[m + k]
    <2>1. mn = m + n /\ mn <= Len(u)
      BY <1>1, <1>2
    <2>2. /\ SubSeq(u, m + 1, mn) \in Seq(Els) /\ Len(SubSeq(u, m + 1, mn)) = n
          /\ \A k \in 1 .. n : SubSeq(u, m + 1, mn)[k] = u[m + k]
      BY ONLY <2>1, <1>2, m \in Nat, n \in Nat, SliceIs
    <2>3. QED
      BY ONLY <1>3, <2>2, Zenon
  <1>5. PICK x : x = SubSeq(t, bm + 1, e)
    OBVIOUS
  <1>6. x \in Seq(Els) /\ Len(x) = n /\ \A k \in 1 .. n : x[k] = t[bm + k]
    <2>1. e = bm + n /\ e <= Len(t)
      BY <1>1
    <2>2. /\ SubSeq(t, bm + 1, e) \in Seq(Els) /\ Len(SubSeq(t, bm + 1, e)) = n
          /\ \A k \in 1 .. n : SubSeq(t, bm + 1, e)[k] = t[bm + k]
      BY ONLY <2>1, bm \in Nat, n \in Nat, t \in Seq(Els), SliceIs
    <2>3. QED
      BY ONLY <1>5, <2>2, Zenon
  <1>7. ASSUME NEW k \in 1 .. n PROVE v[k] = x[k]
    <2>1. m + k \in 1 .. mn /\ b + (m + k) = bm + k
      BY <1>1
    <2>2. v[k] = u[m + k] /\ u[m + k] = t[b + (m + k)] /\ x[k] = t[bm + k]
      BY ONLY <1>2, <1>4, <1>6, <2>1, k \in 1 .. n
    <2>3. QED
      BY <2>1, <2>2
  <1>8. v = x
    BY ONLY <1>4, <1>6, <1>7, SeqEqual
  <1>9. QED
    BY <1>1, <1>3, <1>5, <1>8

(* A slice and the one behind it. *)
LEMMA SlicesJoin ==
  ASSUME NEW Els, NEW t \in Seq(Els), NEW b \in Nat, NEW m \in Nat, NEW e \in Nat, b <= m, m <= e, e <= Len(t)
  PROVE  Concat(SubSeq(t, b + 1, m), SubSeq(t, m + 1, e)) = SubSeq(t, b + 1, e)
  <1>1. PICK u, v, w : u = SubSeq(t, b + 1, m) /\ v = SubSeq(t, m + 1, e) /\ w = SubSeq(t, b + 1, e)
    OBVIOUS
  <1>2. PICK k \in Nat, l \in Nat, n \in Nat : m = b + k /\ e = m + l /\ e = b + n /\ n = k + l /\ m <= Len(t)
    <2>1. m - b \in Nat /\ e - m \in Nat /\ e - b \in Nat /\ m = b + (m - b) /\ e = m + (e - m) /\ e = b + (e - b)
          /\ e - b = (m - b) + (e - m) /\ m <= Len(t)
      BY LenProperties
    <2>2. QED
      BY <2>1
  <1>3. u \in Seq(Els) /\ Len(u) = k /\ \A i \in 1 .. k : u[i] = t[b + i]
    <2>1. u = SubSeq(t, b + 1, m) /\ m = b + k /\ m <= Len(t)
      BY <1>1, <1>2
    <2>2. QED
      BY ONLY <2>1, b \in Nat, k \in Nat, t \in Seq(Els), SliceIs
  <1>4. v \in Seq(Els) /\ Len(v) = l /\ \A i \in 1 .. l : v[i] = t[m + i]
    <2>1. v = SubSeq(t, m + 1, e) /\ e = m + l /\ e <= Len(t)
      BY <1>1, <1>2
    <2>2. QED
      BY ONLY <2>1, m \in Nat, l \in Nat, t \in Seq(Els), SliceIs
  <1>5. w \in Seq(Els) /\ Len(w) = n /\ \A i \in 1 .. n : w[i] = t[b + i]
    <2>1. w = SubSeq(t, b + 1, e) /\ e = b + n /\ e <= Len(t)
      BY <1>1, <1>2
    <2>2. QED
      BY ONLY <2>1, b \in Nat, n \in Nat, t \in Seq(Els), SliceIs
  <1>6. PICK c : c = Concat(u, v)
    OBVIOUS
  <1>7. c \in Seq(Els) /\ Len(c) = n /\ \A j \in 1 .. n : c[j] = IF j <= k THEN u[j] ELSE v[j - k]
    <2>1. /\ c \in Seq(Els) /\ Len(c) = Len(u) + Len(v)
          /\ \A j \in 1 .. Len(u) + Len(v) : c[j] = IF j <= Len(u) THEN u[j] ELSE v[j - Len(u)]
      BY ONLY <1>3, <1>4, <1>6, JoinIs
    <2>2. QED
      BY <1>2, <1>3, <1>4, <2>1
  <1>8. ASSUME NEW j \in 1 .. n PROVE c[j] = w[j]
    <2>1. CASE j <= k
      <3>1. j \in 1 .. k
        BY <2>1
      <3>2. QED
        BY ONLY <1>3, <1>5, <1>7, <2>1, <3>1, j \in 1 .. n
    <2>2. CASE ~(j <= k)
      <3>1. j - k \in 1 .. l /\ m + (j - k) = b + j
        BY <1>2, <2>2
      <3>2. c[j] = v[j - k] /\ v[j - k] = t[m + (j - k)] /\ w[j] = t[b + j]
        BY ONLY <1>4, <1>5, <1>7, <2>2, <3>1, j \in 1 .. n
      <3>3. QED
        BY <3>1, <3>2
    <2>3. QED
      BY <2>1, <2>2
  <1>9. c = w
    BY ONLY <1>5, <1>7, <1>8, SeqEqual
  <1>10. QED
    BY <1>1, <1>6, <1>9

LEMMA FrontOfSlice ==
  ASSUME NEW Els, NEW t \in Seq(Els), NEW b \in Nat, NEW m \in Nat, NEW n \in Nat, b + m + n <= Len(t),
         NEW u, u = SubSeq(t, b + 1, b + m + n)
  PROVE  Len(u) = m + n /\ SubSeq(u, 1, m) = SubSeq(t, b + 1, b + m)
  <1>1. PICK l \in Nat : l = m + n /\ b + m + n = b + l
    OBVIOUS
  <1>2. PICK e \in Nat : e = b + l /\ e <= Len(t) /\ u = SubSeq(t, b + 1, e)
    BY <1>1
  <1>3. u \in Seq(Els) /\ Len(u) = l /\ \A i \in 1 .. l : u[i] = t[b + i]
    BY ONLY <1>2, t \in Seq(Els), b \in Nat, l \in Nat, SliceIs
  <1>4. PICK v : v = SubSeq(u, 1, m)
    OBVIOUS
  <1>5. v \in Seq(Els) /\ Len(v) = m /\ \A i \in 1 .. m : v[i] = u[i]
    <2>1. m \in 0 .. Len(u)
      BY <1>1, <1>3
    <2>2. QED
      BY ONLY <1>3, <1>4, <2>1, CutIs
  <1>6. PICK x : x = SubSeq(t, b + 1, b + m)
    OBVIOUS
  <1>7. x \in Seq(Els) /\ Len(x) = m /\ \A i \in 1 .. m : x[i] = t[b + i]
    <2>1. PICK c \in Nat : c = b + m /\ c <= Len(t) /\ x = SubSeq(t, b + 1, c)
      <3>1. Len(t) \in Nat
        BY LenProperties
      <3>2. QED
        BY <1>6, <3>1
    <2>2. QED
      BY ONLY <2>1, t \in Seq(Els), b \in Nat, m \in Nat, SliceIs
  <1>8. ASSUME NEW i \in 1 .. m PROVE v[i] = x[i]
    <2>1. i \in 1 .. l
      BY <1>1
    <2>2. QED
      BY ONLY <1>3, <1>5, <1>7, <2>1, i \in 1 .. m
  <1>9. v = x
    BY ONLY <1>5, <1>7, <1>8, SeqEqual
  <1>10. QED
    BY <1>1, <1>3, <1>4, <1>6, <1>9
==============================================================================
