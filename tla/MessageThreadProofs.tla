------------------------ MODULE MessageThreadProofs ------------------------
(***************************************************************************)
(* NeverOversleeps and CancelIsFinal of MessageThread, for any number of   *)
(* messages and any delays.                                                *)
(*                                                                         *)
(* The first rests on the queue being sorted, the second on its ids being  *)
(* different; so most of this module is about what the two loops of the    *)
(* code, the one that inserts and the one that erases, make of a queue.    *)
(* The erasing loop is a recursive function: what it computes is proved by *)
(* induction on the length of the queue, through the fact that a set of    *)
(* numbers has a least element.                                            *)
(***************************************************************************)
EXTENDS MessageThread, WellFoundedInduction, TLAPS

(* A message whose time is one the thread can know of. *)
Timed == {m \in Message : m.deliverAt \in Immediately .. Never - 1}

Sorted(q) ==
    \A i, j \in 1 .. Len(q) : i <= j => q[i].deliverAt <= q[j].deliverAt

Distinct(q) == \A i, j \in 1 .. Len(q) : q[i].id = q[j].id => i = j

(* What waits and what is delivered are messages; those are due. *)
KindInv ==
    /\ queue \in Seq(Timed) /\ batch \in Seq(Timed)
    /\ \A n \in 1 .. Len(batch) : batch[n].deliverAt <= 0

(* A posted message is in one place at most. *)
IdInv ==
    /\ Distinct(queue) /\ Distinct(batch)
    /\ IdsIn(queue) \cap IdsIn(batch) = {}
    /\ IdsIn(queue) \cup IdsIn(batch) \cup cancelled \subseteq 1 .. lastMessageID
    /\ cancelled \cap (IdsIn(queue) \cup IdsIn(batch)) = {}
    /\ Len(queue) + Len(batch) <= lastMessageID

(* A batch is delivered before the mutex is free again. *)
BatchInv == pc # "deliver" => batch = << >>

(* The timeout is not past any message of the queue. *)
Early == \A n \in 1 .. Len(queue) : timer <= queue[n].deliverAt

(* The thread enters the wait with such a timeout. *)
SleepInv == /\ pc = "enter" => Early
            /\ pc = "wait" => signalled \/ Early

(* The variables that are not sequences. *)
ControlType ==
    /\ lastMessageID \in 0 .. MaxPosts
    /\ running \in BOOLEAN /\ signalled \in BOOLEAN
    /\ pc \in {"test", "enter", "wait", "collect", "deliver", "ended"}
    /\ timer \in -(MaxLate + 1) .. Never
    /\ stopper \in {"none", "signal", "join", "returned"}
    /\ cancelled \subseteq Ids

Inv == ControlType /\ KindInv /\ IdInv /\ BatchInv /\ Sorted(queue) /\ SleepInv

-----------------------------------------------------------------------------
(* Induction over the positions of a queue. *)

(* A set of natural numbers has a least element. *)
LEMMA Least ==
    ASSUME NEW S, S \subseteq Nat, S # {}
    PROVE  \E x \in S : \A y \in S : x <= y
<1>1. IsWellFoundedOn(OpToRel(<, Nat), Nat)
  BY NatLessThanWellFounded, Zenon
<1>2. PICK x \in S : \A y \in S : ~(<<y, x>> \in OpToRel(<, Nat))
  BY <1>1, WFMin, Zenon
<1>3. \A y \in S : ~(y < x)
  BY <1>2 DEF OpToRel
<1> QED
  BY <1>3

(* What holds of 0, and of a position's successor with the position, holds *)
(* of every position up to n.                                              *)
LEMMA UpTo ==
    ASSUME NEW S, NEW n \in Nat, 0 \in S,
           \A i \in 0 .. n - 1 : i \in S => i + 1 \in S
    PROVE  n \in S
<1> DEFINE B == {i \in 0 .. n : i \notin S}
<1> SUFFICES ASSUME B # {} PROVE FALSE
  OBVIOUS
<1>1. B \subseteq Nat
  OBVIOUS
<1>2. PICK x \in B : \A y \in B : x <= y
  <2> HIDE DEF B
  <2> QED
    BY <1>1, Least
<1>3. x # 0 /\ x \in 1 .. n
  BY <1>2
<1>4. x - 1 \in 0 .. n - 1 /\ x - 1 \notin B
  BY <1>2, <1>3
<1> QED
  BY <1>2, <1>3, <1>4

-----------------------------------------------------------------------------
(* The erasing loop. *)

(* The result after n positions, from the results before. *)
Pass(f, q, S, n) ==
    IF n = 0 THEN << >>
    ELSE IF q[n] \in S THEN Append(f[n - 1], q[n]) ELSE f[n - 1]

(* f holds the loop's results up to position k. *)
Loops(f, q, S, k) == f = [n \in 0 .. k |-> Pass(f, q, S, n)]

(* The loop has a result after every position (MessageThread.cpp:96,      *)
(* 167).                                                                   *)
LEMMA LoopExists ==
    ASSUME NEW M, NEW q \in Seq(M), NEW S
    PROVE  \E f : Loops(f, q, S, Len(q))
<1> DEFINE G == {k \in 0 .. Len(q) : \E f : Loops(f, q, S, k)}
<1>0. Len(q) \in Nat
  OBVIOUS
<1>1. 0 \in G
  <2> DEFINE f == [n \in 0 .. 0 |-> << >>]
  <2>1. Loops(f, q, S, 0)
    BY DEF Loops, Pass
  <2> HIDE DEF f
  <2>2. \E g : Loops(g, q, S, 0)
    BY <2>1
  <2> QED
    BY <2>2, <1>0
<1>2. ASSUME NEW k \in 0 .. Len(q) - 1, k \in G
      PROVE  k + 1 \in G
  <2>1. PICK f : Loops(f, q, S, k)
    BY <1>2
  <2> DEFINE g == [n \in 0 .. k + 1 |->
                     IF n <= k THEN f[n] ELSE Pass(f, q, S, k + 1)]
  <2>2. ASSUME NEW n \in 0 .. k
        PROVE  g[n] = f[n] /\ f[n] = Pass(f, q, S, n)
    BY <2>1 DEF Loops
  <2>3. ASSUME NEW n \in 0 .. k + 1
        PROVE  g[n] = Pass(g, q, S, n)
    <3>1. CASE n = 0
      <4>1. 0 \in 0 .. k
        OBVIOUS
      <4>2. g[0] = Pass(f, q, S, 0)
        BY <4>1, <2>2
      <4> HIDE DEF g
      <4> QED
        BY <3>1, <4>2 DEF Pass
    <3>2. CASE n # 0
      <4>1. n - 1 \in 0 .. k
        BY <3>2
      <4>2. g[n - 1] = f[n - 1]
        BY <4>1, <2>2
      <4>3. Pass(g, q, S, n) = Pass(f, q, S, n)
        <5> HIDE DEF g
        <5> QED
          BY <4>2, <3>2 DEF Pass
      <4>4. CASE n <= k
        <5>1. n \in 0 .. k
          BY <4>4
        <5> HIDE DEF g
        <5> QED
          BY <5>1, <4>3, <2>2
      <4>5. CASE n = k + 1
        BY <4>3, <4>5
      <4> QED
        BY <4>4, <4>5
    <3> QED
      BY <3>1, <3>2
  <2>4. Loops(g, q, S, k + 1)
    <3>1. g = [n \in 0 .. k + 1 |-> g[n]]
      OBVIOUS
    <3> HIDE DEF g
    <3>2. [n \in 0 .. k + 1 |-> g[n]] = [n \in 0 .. k + 1 |-> Pass(g, q, S, n)]
      BY <2>3
    <3> QED
      BY <3>1, <3>2 DEF Loops
  <2> HIDE DEF g
  <2>5. \E h : Loops(h, q, S, k + 1)
    BY <2>4
  <2> QED
    BY <2>5, <1>0
<1>3. Len(q) \in G
  <2> HIDE DEF G
  <2>1. \A k \in 0 .. Len(q) - 1 : k \in G => k + 1 \in G
    BY <1>2
  <2> QED
    BY <1>0, <1>1, <2>1, UpTo
<1> QED
  BY <1>3

(* Keep is the loop's last result. *)
LEMMA KeepLoops ==
    ASSUME NEW M, NEW q \in Seq(M), NEW S
    PROVE  \E f : /\ Loops(f, q, S, Len(q))
                  /\ Keep(q, S) = f[Len(q)]
<1> DEFINE f == CHOOSE g : Loops(g, q, S, Len(q))
<1>1. Loops(f, q, S, Len(q))
  BY LoopExists
<1>2. Keep(q, S) = f[Len(q)]
  BY DEF Keep, Loops, Pass
<1> QED
  BY <1>1, <1>2

(* r is made of members of q's first k messages that are in S, in their    *)
(* order.                                                                  *)
Subsequence(r, q, S, k) ==
    \E h \in [1 .. Len(r) -> 1 .. k] :
        /\ \A i, j \in 1 .. Len(r) : i < j => h[i] < h[j]
        /\ \A i \in 1 .. Len(r) : r[i] = q[h[i]] /\ q[h[i]] \in S

(* What one more position does to such an r. *)
LEMMA OneMore ==
    ASSUME NEW M, NEW q \in Seq(M), NEW S, NEW k \in 0 .. Len(q) - 1,
           NEW r \in Seq(M), Subsequence(r, q, S, k)
    PROVE  /\ Subsequence(r, q, S, k + 1)
           /\ q[k + 1] \in S => Subsequence(Append(r, q[k + 1]), q, S, k + 1)
<1>0. Len(q) \in Nat /\ Len(r) \in Nat
  OBVIOUS
<1>1. PICK h \in [1 .. Len(r) -> 1 .. k] :
          /\ \A i, j \in 1 .. Len(r) : i < j => h[i] < h[j]
          /\ \A i \in 1 .. Len(r) : r[i] = q[h[i]] /\ q[h[i]] \in S
  BY DEF Subsequence
<1>2. h \in [1 .. Len(r) -> 1 .. k + 1]
  BY <1>0, <1>1
<1>3. Subsequence(r, q, S, k + 1)
  BY <1>1, <1>2 DEF Subsequence
<1>4. ASSUME q[k + 1] \in S
      PROVE  Subsequence(Append(r, q[k + 1]), q, S, k + 1)
  <2>1. PICK s : s = Append(r, q[k + 1])
    OBVIOUS
  <2>2. q[k + 1] \in M
    BY <1>0
  <2>3. /\ Len(s) = Len(r) + 1
        /\ \A i \in 1 .. Len(r) : s[i] = r[i]
        /\ s[Len(r) + 1] = q[k + 1]
    BY <2>1, <2>2
  <2>4. PICK g : g = [i \in 1 .. Len(s) |-> IF i <= Len(r) THEN h[i] ELSE k + 1]
    OBVIOUS
  <2>5. /\ \A i \in 1 .. Len(r) : g[i] = h[i] /\ g[i] \in 1 .. k
        /\ g[Len(r) + 1] = k + 1
    <3>1. ASSUME NEW i \in 1 .. Len(r) PROVE g[i] = h[i] /\ h[i] \in 1 .. k
      <4>1. i \in 1 .. Len(s) /\ i <= Len(r)
        BY <2>3, <1>0
      <4> QED
        BY <4>1, <2>4, <1>1
    <3>2. Len(r) + 1 \in 1 .. Len(s) /\ ~(Len(r) + 1 <= Len(r))
      BY <2>3, <1>0
    <3> QED
      BY <3>1, <3>2, <2>4
  <2>6. \A i \in 1 .. Len(s) : i \in 1 .. Len(r) \/ i = Len(r) + 1
    BY <2>3, <1>0
  <2>7. g \in [1 .. Len(s) -> 1 .. k + 1]
    <3>1. ASSUME NEW i \in 1 .. Len(s) PROVE g[i] \in 1 .. k + 1
      BY <2>5, <2>6, <1>0
    <3> QED
      BY <2>4, <3>1
  <2>8. ASSUME NEW i \in 1 .. Len(s), NEW j \in 1 .. Len(s), i < j
        PROVE  g[i] < g[j]
    <3>1. i \in 1 .. Len(r)
      BY <2>3, <2>8, <1>0
    <3>2. CASE j \in 1 .. Len(r)
      BY <3>1, <3>2, <2>5, <2>8, <1>1
    <3>3. CASE j = Len(r) + 1
      BY <3>1, <3>3, <2>5, <1>0
    <3> QED
      BY <3>2, <3>3, <2>6
  <2>9. ASSUME NEW i \in 1 .. Len(s)
        PROVE  s[i] = q[g[i]] /\ q[g[i]] \in S
    <3>1. CASE i \in 1 .. Len(r)
      BY <3>1, <2>3, <2>5, <1>1
    <3>2. CASE i = Len(r) + 1
      BY <3>2, <2>3, <2>5, <1>4
    <3> QED
      BY <3>1, <3>2, <2>6
  <2>10. Subsequence(s, q, S, k + 1)
    BY <2>7, <2>8, <2>9 DEF Subsequence
  <2> QED
    BY <2>1, <2>10
<1> QED
  BY <1>3, <1>4

(* The erasing loop keeps members of S only, in their order.               *)
LEMMA KeepSubsequence ==
    ASSUME NEW M, NEW q \in Seq(M), NEW S
    PROVE  Keep(q, S) \in Seq(M) /\ Subsequence(Keep(q, S), q, S, Len(q))
<1>0. Len(q) \in Nat
  OBVIOUS
<1>1. PICK f : Loops(f, q, S, Len(q)) /\ Keep(q, S) = f[Len(q)]
  BY KeepLoops
<1>2. ASSUME NEW n \in 0 .. Len(q) PROVE f[n] = Pass(f, q, S, n)
  BY <1>1 DEF Loops
<1> DEFINE G == {k \in 0 .. Len(q) : /\ f[k] \in Seq(M)
                                     /\ Subsequence(f[k], q, S, k)}
<1>3. 0 \in G
  <2>1. f[0] = << >>
    BY <1>0, <1>2 DEF Pass
  <2>2. f[0] \in Seq(M) /\ Len(f[0]) = 0
    BY <2>1
  <2>3. \A i \in 1 .. Len(f[0]) : FALSE
    BY <2>2
  <2>4. PICK h : h = [i \in 1 .. Len(f[0]) |-> 0]
    OBVIOUS
  <2>5. h \in [1 .. Len(f[0]) -> 1 .. 0]
    BY <2>3, <2>4
  <2>6. Subsequence(f[0], q, S, 0)
    BY <2>3, <2>5 DEF Subsequence
  <2> QED
    BY <2>2, <2>6, <1>0
<1>4. ASSUME NEW k \in 0 .. Len(q) - 1, k \in G
      PROVE  k + 1 \in G
  <2>1. k + 1 \in 0 .. Len(q) /\ k + 1 # 0 /\ (k + 1) - 1 = k
    BY <1>0
  <2>2. f[k] \in Seq(M) /\ Subsequence(f[k], q, S, k)
    BY <1>4
  <2>3. /\ Subsequence(f[k], q, S, k + 1)
        /\ q[k + 1] \in S => Subsequence(Append(f[k], q[k + 1]), q, S, k + 1)
    BY <2>2, OneMore
  <2>4. f[k + 1] = IF q[k + 1] \in S THEN Append(f[k], q[k + 1]) ELSE f[k]
    BY <2>1, <1>2 DEF Pass
  <2>5. q[k + 1] \in M
    BY <2>1, <1>0
  <2>6. f[k + 1] \in Seq(M)
    BY <2>2, <2>4, <2>5
  <2>7. Subsequence(f[k + 1], q, S, k + 1)
    BY <2>3, <2>4
  <2> QED
    BY <2>1, <2>6, <2>7
<1>5. Len(q) \in G
  <2> HIDE DEF G
  <2>1. \A k \in 0 .. Len(q) - 1 : k \in G => k + 1 \in G
    BY <1>4
  <2> QED
    BY <1>0, <1>3, <2>1, UpTo
<1> QED
  BY <1>1, <1>5

(* After k positions f and g hold k messages between them. *)
Halves(f, g, M, k) ==
    f[k] \in Seq(M) /\ g[k] \in Seq(M) /\ Len(f[k]) + Len(g[k]) = k

(* What the loop erases and what it keeps are the whole queue. *)
LEMMA KeepSplits ==
    ASSUME NEW M, NEW q \in Seq(M), NEW S
    PROVE  Len(Keep(q, S)) + Len(Keep(q, M \ S)) = Len(q)
<1>0. Len(q) \in Nat
  OBVIOUS
<1>1. PICK f : Loops(f, q, S, Len(q)) /\ Keep(q, S) = f[Len(q)]
  BY KeepLoops
<1>2. PICK g : Loops(g, q, M \ S, Len(q)) /\ Keep(q, M \ S) = g[Len(q)]
  BY KeepLoops
<1>3. ASSUME NEW n \in 0 .. Len(q)
      PROVE  f[n] = Pass(f, q, S, n) /\ g[n] = Pass(g, q, M \ S, n)
  BY <1>1, <1>2 DEF Loops
<1> DEFINE G == {k \in 0 .. Len(q) : Halves(f, g, M, k)}
<1>4. 0 \in G
  <2>1. f[0] = << >> /\ g[0] = << >>
    BY <1>0, <1>3 DEF Pass
  <2>2. f[0] \in Seq(M) /\ Len(f[0]) = 0 /\ g[0] \in Seq(M) /\ Len(g[0]) = 0
    BY <2>1
  <2>3. Halves(f, g, M, 0)
    BY <2>2 DEF Halves
  <2> QED
    BY <2>3, <1>0
<1>5. ASSUME NEW k \in 0 .. Len(q) - 1, k \in G
      PROVE  k + 1 \in G
  <2>1. k + 1 \in 0 .. Len(q) /\ k + 1 # 0 /\ (k + 1) - 1 = k
    BY <1>0
  <2>2. /\ f[k] \in Seq(M) /\ g[k] \in Seq(M)
        /\ Len(f[k]) + Len(g[k]) = k
    BY <1>5 DEF Halves
  <2>a. PICK a : a = f[k]
    OBVIOUS
  <2>b. PICK b : b = g[k]
    OBVIOUS
  <2>8. /\ a \in Seq(M) /\ b \in Seq(M) /\ Len(a) + Len(b) = k
        /\ Len(a) \in Nat /\ Len(b) \in Nat
    <3>1. a \in Seq(M) /\ b \in Seq(M) /\ Len(a) + Len(b) = k
      BY <2>2, <2>a, <2>b, Zenon
    <3> QED
      BY <3>1
  <2>3. q[k + 1] \in M
    BY <2>1, <1>0
  <2>4. f[k + 1] = IF q[k + 1] \in S THEN Append(f[k], q[k + 1]) ELSE f[k]
    BY <2>1, <1>3 DEF Pass
  <2>5. g[k + 1] = IF q[k + 1] \in S THEN g[k] ELSE Append(g[k], q[k + 1])
    BY <2>1, <2>3, <1>3 DEF Pass
  <2>6. CASE q[k + 1] \in S
    <3>1. Append(a, q[k + 1]) \in Seq(M) /\ Len(Append(a, q[k + 1])) = Len(a) + 1
      BY <2>8, <2>3
    <3>2. f[k + 1] = Append(a, q[k + 1]) /\ g[k + 1] = b
      BY <2>4, <2>5, <2>6, <2>a, <2>b
    <3>3. Halves(f, g, M, k + 1)
      BY <2>8, <3>1, <3>2 DEF Halves
    <3> QED
      BY <2>1, <3>3
  <2>7. CASE q[k + 1] \notin S
    <3>1. Append(b, q[k + 1]) \in Seq(M) /\ Len(Append(b, q[k + 1])) = Len(b) + 1
      BY <2>8, <2>3
    <3>2. g[k + 1] = Append(b, q[k + 1]) /\ f[k + 1] = a
      BY <2>4, <2>5, <2>7, <2>a, <2>b
    <3>3. Halves(f, g, M, k + 1)
      BY <2>8, <3>1, <3>2 DEF Halves
    <3> QED
      BY <2>1, <3>3
  <2> QED
    BY <2>6, <2>7
<1>6. Len(q) \in G
  <2> HIDE DEF G
  <2>1. \A k \in 0 .. Len(q) - 1 : k \in G => k + 1 \in G
    BY <1>5
  <2> QED
    BY <1>0, <1>4, <2>1, UpTo
<1> QED
  BY <1>1, <1>2, <1>6 DEF Halves

(* A message is a message with a time. *)
LEMMA TimedType ==
    /\ Timed \subseteq Message
    /\ \A m \in Timed : /\ m.id \in Ids /\ m.interval \in Intervals
                        /\ m.deliverAt \in Int
                        /\ Immediately <= m.deliverAt /\ m.deliverAt < Never
    /\ \A m \in Message : Immediately <= m.deliverAt /\ m.deliverAt < Never
                            => m \in Timed
<1>1. Immediately \in Int /\ Never \in Int
  BY ThreadAssumption DEF Immediately
<1> QED
  BY <1>1 DEF Timed, Message

(* What is known of r, what an erasing loop leaves of q. *)
Left(r, q, S) ==
    /\ r \in Seq(Timed)
    /\ Distinct(r)
    /\ Sorted(q) => Sorted(r)
    /\ IdsIn(r) \subseteq IdsIn(q)
    /\ \A n \in 1 .. Len(r) : r[n] \in S /\ \E i \in 1 .. Len(q) : r[n] = q[i]

(* Erasing keeps order and ids (MessageThread.cpp:96-103, 167-173). *)
LEMMA KeepFacts ==
    ASSUME NEW q \in Seq(Timed), NEW S, Distinct(q)
    PROVE  Left(Keep(q, S), q, S)
<1>1. PICK r : r = Keep(q, S)
  OBVIOUS
<1>2. r \in Seq(Timed) /\ Subsequence(r, q, S, Len(q))
  BY <1>1, KeepSubsequence
<1>3. PICK h \in [1 .. Len(r) -> 1 .. Len(q)] :
          /\ \A i, j \in 1 .. Len(r) : i < j => h[i] < h[j]
          /\ \A i \in 1 .. Len(r) : r[i] = q[h[i]] /\ q[h[i]] \in S
  BY <1>2 DEF Subsequence
<1>4. \A i \in 1 .. Len(r) : h[i] \in 1 .. Len(q) /\ h[i] \in Int
  BY <1>3
<1>5. Distinct(r)
  <2> SUFFICES ASSUME NEW i \in 1 .. Len(r), NEW j \in 1 .. Len(r),
                      r[i].id = r[j].id
               PROVE  i = j
    BY DEF Distinct
  <2>1. h[i] = h[j]
    BY <1>3, <1>4 DEF Distinct
  <2> QED
    BY <2>1, <1>3, <1>4
<1>6. ASSUME Sorted(q) PROVE Sorted(r)
  <2> SUFFICES ASSUME NEW i \in 1 .. Len(r), NEW j \in 1 .. Len(r), i <= j
               PROVE  r[i].deliverAt <= r[j].deliverAt
    BY DEF Sorted
  <2>1. h[i] <= h[j]
    BY <1>3, <1>4
  <2> QED
    BY <2>1, <1>3, <1>4, <1>6 DEF Sorted
<1>7. IdsIn(r) \subseteq IdsIn(q)
  BY <1>3, <1>4 DEF IdsIn
<1>8. \A n \in 1 .. Len(r) : r[n] \in S /\ \E i \in 1 .. Len(q) : r[n] = q[i]
  BY <1>3, <1>4
<1> QED
  BY <1>1, <1>2, <1>5, <1>6, <1>7, <1>8 DEF Left

(* Collect takes each message once. *)
LEMMA CollectFacts ==
    ASSUME NEW q \in Seq(Timed), NEW S, Distinct(q)
    PROVE  /\ IdsIn(Keep(q, S)) \cap IdsIn(Keep(q, Message \ S)) = {}
           /\ Len(Keep(q, S)) + Len(Keep(q, Message \ S)) = Len(q)
           /\ Len(Keep(q, S)) \in Nat /\ Len(Keep(q, Message \ S)) \in Nat
<1>1. q \in Seq(Message)
  BY TimedType
<1>2. Len(Keep(q, S)) + Len(Keep(q, Message \ S)) = Len(q)
  BY <1>1, KeepSplits
<1>3. PICK r : r = Keep(q, S)
  OBVIOUS
<1>4. PICK t : t = Keep(q, Message \ S)
  OBVIOUS
<1>5. /\ r \in Seq(Timed)
      /\ \A n \in 1 .. Len(r) : r[n] \in S /\ \E i \in 1 .. Len(q) : r[n] = q[i]
  BY <1>3, KeepFacts DEF Left
<1>6. /\ t \in Seq(Timed)
      /\ \A n \in 1 .. Len(t) : /\ t[n] \in Message \ S
                                /\ \E i \in 1 .. Len(q) : t[n] = q[i]
  <2>1. Left(Keep(q, Message \ S), q, Message \ S)
    BY KeepFacts, Zenon
  <2> QED
    BY <2>1, <1>4 DEF Left
<1>7. IdsIn(r) \cap IdsIn(t) = {}
  <2> SUFFICES ASSUME NEW a \in 1 .. Len(r), NEW b \in 1 .. Len(t),
                      r[a].id = t[b].id
               PROVE  FALSE
    BY DEF IdsIn
  <2>1. PICK i \in 1 .. Len(q) : r[a] = q[i]
    BY <1>5
  <2>2. PICK j \in 1 .. Len(q) : t[b] = q[j]
    BY <1>6
  <2>3. i = j
    BY <2>1, <2>2 DEF Distinct
  <2> QED
    BY <2>1, <2>2, <2>3, <1>5, <1>6
<1>8. Len(r) \in Nat /\ Len(t) \in Nat
  BY <1>5, <1>6
<1> QED
  BY <1>2, <1>3, <1>4, <1>7, <1>8

-----------------------------------------------------------------------------
(* The inserting loop. *)

(* r is q with m put in as the message at position k. *)
PutAt(r, q, m, k) ==
    /\ Len(r) = Len(q) + 1
    /\ \A i \in 1 .. Len(r) : r[i] = IF i < k THEN q[i]
                                     ELSE IF i = k THEN m ELSE q[i - 1]

(* Two sequences in a row. *)
LEMMA Joined ==
    ASSUME NEW M, NEW u \in Seq(M), NEW v \in Seq(M)
    PROVE  /\ u \o v \in Seq(M) /\ Len(u \o v) = Len(u) + Len(v)
           /\ \A i \in 1 .. Len(u) : (u \o v)[i] = u[i]
           /\ \A i \in 1 .. Len(v) : (u \o v)[Len(u) + i] = v[i]
<1>1. Len(u) \in Nat /\ Len(v) \in Nat
  OBVIOUS
<1>2. u \o v \in Seq(M) /\ Len(u \o v) = Len(u) + Len(v)
  OBVIOUS
<1>3. ASSUME NEW i \in 1 .. Len(u) PROVE (u \o v)[i] = u[i]
  BY <1>1
<1>4. ASSUME NEW i \in 1 .. Len(v) PROVE (u \o v)[Len(u) + i] = v[i]
  BY <1>1
<1> QED
  BY <1>2, <1>3, <1>4

(* The place the loop finds is after every message that is not later than  *)
(* m and before every later one (MessageThread.cpp:143-160).               *)
LEMMA InsertPlace ==
    ASSUME NEW q \in Seq(Timed), Sorted(q), NEW m \in Timed
    PROVE  \E k \in 1 .. Len(q) + 1 :
               /\ InsertMessageInternal(q, m) \in Seq(Timed)
               /\ PutAt(InsertMessageInternal(q, m), q, m, k)
               /\ \A i \in 1 .. k - 1 : q[i].deliverAt <= m.deliverAt
               /\ \A i \in k .. Len(q) : m.deliverAt <= q[i].deliverAt
<1>0. Len(q) \in Nat /\ \A i \in 1 .. Len(q) : q[i] \in Timed
  OBVIOUS
<1>1. m.deliverAt \in Int /\ \A i \in 1 .. Len(q) : q[i].deliverAt \in Int
  BY <1>0, TimedType
<1>2. CASE q = << >> \/ q[1].deliverAt > m.deliverAt
  <2>1. PICK r : r = <<m>> \o q
    OBVIOUS
  <2>2. r = InsertMessageInternal(q, m)
    BY <1>2, <2>1 DEF InsertMessageInternal
  <2>3. r \in Seq(Timed) /\ Len(r) = Len(q) + 1
    BY <2>1
  <2>4. \A i \in 1 .. Len(r) : r[i] = IF i = 1 THEN m ELSE q[i - 1]
    BY <2>1, <2>3, <1>0
  <2>5. PutAt(r, q, m, 1)
    BY <2>3, <2>4, <1>0 DEF PutAt
  <2>6. \A i \in 1 .. Len(q) : m.deliverAt <= q[i].deliverAt
    <3> SUFFICES ASSUME NEW i \in 1 .. Len(q)
                 PROVE  m.deliverAt <= q[i].deliverAt
      OBVIOUS
    <3>1. 1 \in 1 .. Len(q) /\ q # << >>
      BY <1>0
    <3>2. q[1].deliverAt <= q[i].deliverAt
      BY <3>1 DEF Sorted
    <3> QED
      BY <3>1, <3>2, <1>1, <1>2
  <2> QED
    BY <2>2, <2>3, <2>5, <2>6, <1>0
<1>3. CASE ~(q = << >> \/ q[1].deliverAt > m.deliverAt)
  <2> DEFINE Fits(n) == \/ n = Len(q)
                        \/ /\ q[n + 1].deliverAt > m.deliverAt
                           /\ q[n].deliverAt <= m.deliverAt
             First(i) == Fits(i) /\ \A j \in 1 .. i - 1 : ~Fits(j)
             n == CHOOSE i \in 1 .. Len(q) : First(i)
             r == SubSeq(q, 1, n) \o <<m>> \o SubSeq(q, n + 1, Len(q))
  <2>1. r = InsertMessageInternal(q, m)
    <3>1. InsertMessageInternal(q, m)
              = IF q = << >> \/ q[1].deliverAt > m.deliverAt
                THEN <<m>> \o q ELSE r
      BY Zenon DEF InsertMessageInternal
    <3> HIDE DEF r
    <3> QED
      BY <3>1, <1>3
  <2>2. 1 \in 1 .. Len(q) /\ q[1].deliverAt <= m.deliverAt
    BY <1>0, <1>1, <1>3
  <2>3. \E i \in 1 .. Len(q) : First(i)
    <3> DEFINE F == {i \in 1 .. Len(q) : Fits(i)}
    <3>1. Len(q) \in F /\ F \subseteq Nat
      BY <2>2, <1>0
    <3>2. PICK x \in F : \A y \in F : x <= y
      <4> HIDE DEF F
      <4> QED
        BY <3>1, Least
    <3>3. \A j \in 1 .. x - 1 : j \in 1 .. Len(q) /\ ~(x <= j)
      BY <3>2, <1>0
    <3>4. x \in 1 .. Len(q) /\ First(x)
      BY <3>2, <3>3
    <3> QED
      BY <3>4
  <2>4. n \in 1 .. Len(q) /\ First(n)
    <3> HIDE DEF First
    <3> QED
      BY <2>3
  <2>5. Fits(n) /\ \A j \in 1 .. n - 1 : ~Fits(j)
    BY <2>4
  <2> HIDE DEF n
  <2>6. q[n].deliverAt <= m.deliverAt
    <3> SUFFICES ASSUME q[n].deliverAt > m.deliverAt PROVE FALSE
      BY <2>4, <1>1
    <3> DEFINE L == {i \in 1 .. Len(q) : q[i].deliverAt > m.deliverAt}
    <3>1. n \in L /\ L \subseteq Nat
      BY <2>4, <1>0
    <3>2. PICK k \in L : \A y \in L : k <= y
      <4> HIDE DEF L
      <4> QED
        BY <3>1, Least
    <3>3. k # 1
      BY <2>2, <3>2, <1>1
    <3>4. k - 1 \in 1 .. Len(q) /\ k - 1 \notin L /\ k - 1 < n
      BY <3>1, <3>2, <3>3, <2>4, <1>0
    <3>5. q[k - 1].deliverAt <= m.deliverAt
      BY <3>4, <1>1
    <3>6. Fits(k - 1)
      BY <3>2, <3>5, <1>0
    <3>7. k - 1 \in 1 .. n - 1
      BY <3>4, <2>4, <1>0
    <3> QED
      BY <3>6, <3>7, <2>5
  <2>7. PICK k \in 2 .. Len(q) + 1 : k = n + 1
    BY <2>4, <1>0
  <2>8. \A i \in 1 .. k - 1 : q[i].deliverAt <= m.deliverAt
    <3> SUFFICES ASSUME NEW i \in 1 .. k - 1
                 PROVE  q[i].deliverAt <= m.deliverAt
      OBVIOUS
    <3>1. i \in 1 .. Len(q) /\ i <= n
      BY <2>4, <2>7, <1>0
    <3>2. q[i].deliverAt <= q[n].deliverAt
      BY <3>1, <2>4 DEF Sorted
    <3> QED
      BY <3>1, <3>2, <2>4, <2>6, <1>1
  <2>9. \A i \in k .. Len(q) : m.deliverAt <= q[i].deliverAt
    <3> SUFFICES ASSUME NEW i \in k .. Len(q)
                 PROVE  m.deliverAt <= q[i].deliverAt
      OBVIOUS
    <3>1. n # Len(q) /\ n + 1 \in 1 .. Len(q) /\ i \in 1 .. Len(q) /\ n + 1 <= i
      BY <2>4, <2>7, <1>0
    <3>2. q[n + 1].deliverAt > m.deliverAt
      BY <3>1, <2>5
    <3>3. q[n + 1].deliverAt <= q[i].deliverAt
      BY <3>1 DEF Sorted
    <3> QED
      BY <3>1, <3>2, <3>3, <1>1
  <2>10. r \in Seq(Timed) /\ PutAt(r, q, m, k)
    <3>1. PICK u : u = SubSeq(q, 1, n)
      OBVIOUS
    <3>2. PICK v : v = SubSeq(q, n + 1, Len(q))
      OBVIOUS
    <3>3. /\ u \in Seq(Timed) /\ Len(u) = n
          /\ \A i \in 1 .. n : u[i] = q[i]
      BY <3>1, <2>4, <1>0
    <3>4. /\ v \in Seq(Timed) /\ Len(v) = Len(q) - n
          /\ \A i \in 1 .. Len(q) - n : v[i] = q[n + i]
      BY <3>2, <2>4, <1>0
    <3>5. PICK w : w = u \o <<m>>
      OBVIOUS
    <3>6. /\ w \in Seq(Timed) /\ Len(w) = n + 1
          /\ \A i \in 1 .. n : w[i] = u[i]
          /\ w[n + 1] = m
      <4>1. <<m>> \in Seq(Timed) /\ Len(<<m>>) = 1 /\ <<m>>[1] = m
        OBVIOUS
      <4>2. PICK o : o = <<m>>
        OBVIOUS
      <4>3. /\ w \in Seq(Timed) /\ Len(w) = Len(u) + Len(o)
            /\ \A i \in 1 .. Len(u) : w[i] = u[i]
            /\ \A i \in 1 .. Len(o) : w[Len(u) + i] = o[i]
        BY <4>1, <4>2, <3>3, <3>5, Joined
      <4> QED
        BY <4>1, <4>2, <4>3, <3>3
    <3>7. r = w \o v
      BY <3>1, <3>2, <3>5
    <3> HIDE DEF r
    <3>8. /\ r \in Seq(Timed) /\ Len(r) = Len(w) + Len(v)
          /\ \A i \in 1 .. Len(w) : r[i] = w[i]
          /\ \A i \in 1 .. Len(v) : r[Len(w) + i] = v[i]
      BY <3>4, <3>6, <3>7, Joined
    <3>9. Len(r) = Len(q) + 1
      BY <3>4, <3>6, <3>8, <2>4, <1>0
    <3>10. ASSUME NEW i \in 1 .. Len(r)
           PROVE  r[i] = IF i < k THEN q[i] ELSE IF i = k THEN m ELSE q[i - 1]
      <4>1. CASE i < k
        <5>1. i \in 1 .. n /\ i \in 1 .. Len(w)
          BY <4>1, <3>6, <2>4, <2>7, <1>0
        <5> QED
          BY <4>1, <5>1, <3>3, <3>6, <3>8
      <4>2. CASE i = k
        BY <4>2, <3>6, <3>8, <2>4, <2>7, <1>0
      <4>3. CASE i > k
        <5>1. i - (n + 1) \in 1 .. Len(q) - n /\ i - (n + 1) \in 1 .. Len(v)
          BY <4>3, <3>4, <3>9, <2>4, <2>7, <1>0
        <5>2. r[Len(w) + (i - (n + 1))] = v[i - (n + 1)]
          BY <5>1, <3>8
        <5>3. v[i - (n + 1)] = q[n + (i - (n + 1))]
          BY <5>1, <3>4
        <5>4. Len(w) + (i - (n + 1)) = i /\ n + (i - (n + 1)) = i - 1
          BY <3>6, <3>9, <2>4, <1>0
        <5> QED
          BY <4>3, <5>2, <5>3, <5>4, <2>7
      <4> QED
        BY <4>1, <4>2, <4>3, <3>9, <2>7, <1>0
    <3> QED
      BY <3>8, <3>9, <3>10 DEF PutAt
  <2>11. k \in 1 .. Len(q) + 1
    BY <2>7, <1>0
  <2> HIDE DEF r
  <2> QED
    BY <2>1, <2>8, <2>9, <2>10, <2>11
<1> QED
  BY <1>2, <1>3

(* What is known of r, a queue into which m was inserted. *)
Grown(r, q, m) ==
    /\ r \in Seq(Timed) /\ Len(r) = Len(q) + 1
    /\ Sorted(r) /\ Distinct(r)
    /\ IdsIn(r) = IdsIn(q) \cup {m.id}

(* Inserting keeps the order and the ids apart                             *)
(* (MessageThread.cpp:143-160).                                            *)
LEMMA InsertFacts ==
    ASSUME NEW q \in Seq(Timed), Sorted(q), Distinct(q), NEW m \in Timed,
           m.id \notin IdsIn(q)
    PROVE  Grown(InsertMessageInternal(q, m), q, m)
<1>0. Len(q) \in Nat /\ \A i \in 1 .. Len(q) : q[i] \in Timed
  OBVIOUS
<1>1. m.deliverAt \in Int /\ \A i \in 1 .. Len(q) : q[i].deliverAt \in Int
  BY <1>0, TimedType
<1>2. PICK r : r = InsertMessageInternal(q, m)
  OBVIOUS
<1>3. PICK k \in 1 .. Len(q) + 1 :
          /\ r \in Seq(Timed)
          /\ PutAt(r, q, m, k)
          /\ \A i \in 1 .. k - 1 : q[i].deliverAt <= m.deliverAt
          /\ \A i \in k .. Len(q) : m.deliverAt <= q[i].deliverAt
  BY <1>2, InsertPlace
<1>4. /\ Len(r) = Len(q) + 1
      /\ \A i \in 1 .. k - 1 : r[i] = q[i]
      /\ r[k] = m
      /\ \A i \in k + 1 .. Len(r) : r[i] = q[i - 1]
  BY <1>0, <1>3 DEF PutAt
<1>5. ASSUME NEW i \in 1 .. Len(r)
      PROVE  \/ i \in 1 .. k - 1 /\ i \in 1 .. Len(q)
             \/ i = k
             \/ i \in k + 1 .. Len(r) /\ i - 1 \in k .. Len(q)
                /\ i - 1 \in 1 .. Len(q)
  BY <1>0, <1>3, <1>4
<1>6. Sorted(r)
  <2> SUFFICES ASSUME NEW i \in 1 .. Len(r), NEW j \in 1 .. Len(r), i <= j
               PROVE  r[i].deliverAt <= r[j].deliverAt
    BY DEF Sorted
  <2>1. CASE i \in 1 .. k - 1 /\ i \in 1 .. Len(q)
    <3>1. r[i] = q[i] /\ q[i].deliverAt <= m.deliverAt
      BY <2>1, <1>3, <1>4
    <3>2. CASE j \in 1 .. k - 1 /\ j \in 1 .. Len(q)
      BY <2>1, <3>1, <3>2, <1>4 DEF Sorted
    <3>3. CASE j = k
      BY <3>1, <3>3, <1>4
    <3>4. CASE /\ j \in k + 1 .. Len(r) /\ j - 1 \in k .. Len(q)
               /\ j - 1 \in 1 .. Len(q)
      <4>1. r[j] = q[j - 1] /\ m.deliverAt <= q[j - 1].deliverAt
        BY <3>4, <1>3, <1>4
      <4> QED
        BY <2>1, <3>1, <3>4, <4>1, <1>1
    <3> QED
      BY <3>2, <3>3, <3>4, <1>5
  <2>2. CASE i = k
    <3>1. CASE j = k
      BY <2>2, <3>1, <1>1, <1>4
    <3>2. CASE j # k
      <4>1. j \in k + 1 .. Len(r) /\ j - 1 \in k .. Len(q)
        BY <2>2, <3>2, <1>3, <1>4, <1>0
      <4> QED
        BY <2>2, <4>1, <1>3, <1>4
    <3> QED
      BY <3>1, <3>2
  <2>3. CASE /\ i \in k + 1 .. Len(r) /\ i - 1 \in k .. Len(q)
             /\ i - 1 \in 1 .. Len(q)
    <3>1. /\ j \in k + 1 .. Len(r) /\ j - 1 \in 1 .. Len(q)
          /\ i - 1 <= j - 1
      BY <2>3, <1>0, <1>3, <1>4
    <3>2. r[i] = q[i - 1] /\ r[j] = q[j - 1]
      BY <2>3, <3>1, <1>4
    <3> QED
      BY <2>3, <3>1, <3>2 DEF Sorted
  <2> QED
    BY <2>1, <2>2, <2>3, <1>5
<1>7. \A i \in 1 .. Len(q) : q[i].id # m.id
  BY DEF IdsIn
<1>8. Distinct(r)
  <2> SUFFICES ASSUME NEW i \in 1 .. Len(r), NEW j \in 1 .. Len(r),
                      r[i].id = r[j].id
               PROVE  i = j
    BY DEF Distinct
  <2>1. CASE i = k
    BY <2>1, <1>4, <1>5, <1>7
  <2>2. CASE j = k
    BY <2>2, <1>4, <1>5, <1>7
  <2>3. CASE i # k /\ j # k
    <3>1. PICK a \in 1 .. Len(q) : /\ r[i] = q[a]
                                   /\ a = IF i < k THEN i ELSE i - 1
      BY <2>3, <1>4, <1>5, <1>0
    <3>2. PICK b \in 1 .. Len(q) : /\ r[j] = q[b]
                                   /\ b = IF j < k THEN j ELSE j - 1
      BY <2>3, <1>4, <1>5, <1>0
    <3>3. a = b
      BY <3>1, <3>2 DEF Distinct
    <3> QED
      BY <2>3, <3>1, <3>2, <3>3, <1>4, <1>0
  <2> QED
    BY <2>1, <2>2, <2>3
<1>9. IdsIn(r) = IdsIn(q) \cup {m.id}
  <2>1. ASSUME NEW i \in 1 .. Len(r) PROVE r[i].id \in IdsIn(q) \cup {m.id}
    BY <1>4, <1>5 DEF IdsIn
  <2>2. ASSUME NEW i \in 1 .. Len(q) PROVE \E j \in 1 .. Len(r) : r[j] = q[i]
    <3>1. CASE i < k
      <4>1. i \in 1 .. Len(r) /\ i \in 1 .. k - 1
        BY <3>1, <1>0, <1>3, <1>4
      <4> QED
        BY <4>1, <1>4
    <3>2. CASE i >= k
      <4>1. i + 1 \in k + 1 .. Len(r) /\ i + 1 \in 1 .. Len(r) /\ (i + 1) - 1 = i
        BY <3>2, <1>0, <1>3, <1>4
      <4> QED
        BY <4>1, <1>4
    <3> QED
      BY <3>1, <3>2, <1>3
  <2>3. k \in 1 .. Len(r)
    BY <1>0, <1>3, <1>4
  <2>4. IdsIn(q) \subseteq IdsIn(r)
    BY <2>2 DEF IdsIn
  <2>5. m.id \in IdsIn(r)
    BY <2>3, <1>4 DEF IdsIn
  <2>6. IdsIn(r) \subseteq IdsIn(q) \cup {m.id}
    <3> SUFFICES ASSUME NEW x \in IdsIn(r) PROVE x \in IdsIn(q) \cup {m.id}
      OBVIOUS
    <3>1. PICK i \in 1 .. Len(r) : x = r[i].id
      BY DEF IdsIn
    <3> QED
      BY <3>1, <2>1
  <2> QED
    BY <2>4, <2>5, <2>6
<1> QED
  BY <1>2, <1>3, <1>4, <1>6, <1>8, <1>9 DEF Grown

-----------------------------------------------------------------------------
(* Time, and a batch. *)

(* The bounds. *)
LEMMA Times ==
    /\ MaxPosts \in Nat /\ MaxLate \in Nat /\ Never \in Nat
    /\ Immediately \in Int /\ Immediately = -(MaxLate + 1)
    /\ Immediately < -MaxLate /\ Immediately < 0 /\ -MaxLate \in Int
    /\ \A d \in Delays : d \in Nat /\ d < Never
    /\ \A i \in Intervals : i \in Nat /\ i < Never
  BY ThreadAssumption DEF Immediately

(* Nothing overtakes anything by the passing of time. *)
LEMMA CloserOrder ==
    ASSUME NEW t \in Int, NEW u \in Int, Immediately <= t, t <= u
    PROVE  /\ Closer(t) \in Int /\ Immediately <= Closer(t) /\ Closer(t) <= t
           /\ Closer(t) <= Closer(u)
<1>1. /\ Closer(t) = IF t = Immediately \/ t = -MaxLate THEN t ELSE t - 1
      /\ Closer(u) = IF u = Immediately \/ u = -MaxLate THEN u ELSE u - 1
  BY DEF Closer
<1> QED
  BY <1>1, Times

(* Waiting changes neither the order nor the ids of a queue. *)
LEMMA AgedFacts ==
    ASSUME NEW q \in Seq(Timed)
    PROVE  /\ Aged(q) \in Seq(Timed) /\ Len(Aged(q)) = Len(q)
           /\ IdsIn(Aged(q)) = IdsIn(q)
           /\ Distinct(q) => Distinct(Aged(q))
           /\ Sorted(q) => Sorted(Aged(q))
           /\ \A n \in 1 .. Len(q) :
                 Aged(q)[n].deliverAt = Closer(q[n].deliverAt)
<1>0. Len(q) \in Nat /\ \A n \in 1 .. Len(q) : q[n] \in Timed
  OBVIOUS
<1>1. PICK r : r = Aged(q)
  OBVIOUS
<1>2. r = [n \in 1 .. Len(q) |->
             [q[n] EXCEPT !.deliverAt = Closer(q[n].deliverAt)]]
  BY <1>1 DEF Aged
<1>3. ASSUME NEW n \in 1 .. Len(q)
      PROVE  /\ r[n] \in Timed /\ r[n].id = q[n].id
             /\ r[n].deliverAt = Closer(q[n].deliverAt)
  <2>1. q[n] \in Message /\ q[n] \in Timed
    BY <1>0, TimedType
  <2>2. /\ Closer(q[n].deliverAt) \in Int
        /\ Immediately <= Closer(q[n].deliverAt)
        /\ Closer(q[n].deliverAt) < Never
    BY <2>1, TimedType, CloserOrder, Times
  <2>3. /\ r[n] \in Message /\ r[n].id = q[n].id
        /\ r[n].deliverAt = Closer(q[n].deliverAt)
    BY <2>1, <2>2, <1>2 DEF Message
  <2> QED
    BY <2>2, <2>3, TimedType
<1>4. r \in Seq(Timed) /\ Len(r) = Len(q)
  BY <1>0, <1>2, <1>3
<1>5. IdsIn(r) = IdsIn(q)
  BY <1>3, <1>4 DEF IdsIn
<1>6. Distinct(q) => Distinct(r)
  BY <1>3, <1>4 DEF Distinct
<1>7. ASSUME Sorted(q) PROVE Sorted(r)
  <2> SUFFICES ASSUME NEW i \in 1 .. Len(q), NEW j \in 1 .. Len(q), i <= j
               PROVE  r[i].deliverAt <= r[j].deliverAt
    BY <1>4 DEF Sorted
  <2>1. /\ q[i].deliverAt \in Int /\ q[j].deliverAt \in Int
        /\ Immediately <= q[i].deliverAt
    BY <1>0, TimedType
  <2>2. q[i].deliverAt <= q[j].deliverAt
    BY <1>7 DEF Sorted
  <2> QED
    BY <2>1, <2>2, <1>3, CloserOrder
<1> QED
  BY <1>1, <1>3, <1>4, <1>5, <1>6, <1>7

(* The message delivered next, and the rest of the batch. *)
LEMMA BatchFacts ==
    ASSUME NEW b \in Seq(Timed), b # << >>, Distinct(b)
    PROVE  /\ Head(b) \in Timed /\ Head(b) = b[1] /\ 1 \in 1 .. Len(b)
           /\ Tail(b) \in Seq(Timed) /\ Len(Tail(b)) = Len(b) - 1
           /\ \A n \in 1 .. Len(Tail(b)) :
                  n + 1 \in 1 .. Len(b) /\ Tail(b)[n] = b[n + 1]
           /\ Distinct(Tail(b))
           /\ Head(b).id \in IdsIn(b) /\ Head(b).id \notin IdsIn(Tail(b))
           /\ IdsIn(Tail(b)) \subseteq IdsIn(b)
<1>1. Len(b) \in Nat /\ Len(b) > 0 /\ 1 \in 1 .. Len(b)
  OBVIOUS
<1>2. Head(b) = b[1] /\ Head(b) \in Timed
  BY <1>1
<1>3. PICK t : t = Tail(b)
  OBVIOUS
<1>4. t \in Seq(Timed) /\ Len(t) = Len(b) - 1
  BY <1>1, <1>3
<1>5. ASSUME NEW n \in 1 .. Len(t)
      PROVE  n + 1 \in 1 .. Len(b) /\ n + 1 # 1 /\ t[n] = b[n + 1]
  BY <1>1, <1>3, <1>4
<1>6. Distinct(t)
  <2> SUFFICES ASSUME NEW i \in 1 .. Len(t), NEW j \in 1 .. Len(t),
                      t[i].id = t[j].id
               PROVE  i = j
    BY DEF Distinct
  <2>1. i + 1 = j + 1
    BY <1>5 DEF Distinct
  <2> QED
    BY <2>1, <1>1, <1>4
<1>7. b[1].id \in IdsIn(b) /\ b[1].id \notin IdsIn(t)
  BY <1>1, <1>5 DEF IdsIn, Distinct
<1>8. IdsIn(t) \subseteq IdsIn(b)
  BY <1>5 DEF IdsIn
<1> QED
  BY <1>1, <1>2, <1>3, <1>4, <1>5, <1>6, <1>7, <1>8

(* What is known of r, a queue that may have got the messages with these   *)
(* ids.                                                                    *)
Within(r, q, ids, n) ==
    /\ r \in Seq(Timed) /\ Sorted(r) /\ Distinct(r)
    /\ IdsIn(r) \subseteq IdsIn(q) \cup ids
    /\ Len(r) <= Len(q) + n

(* A periodic message has its next time, and it is one the thread knows    *)
(* (MessageThread.cpp:108-115).                                            *)
LEMMA NextTime ==
    ASSUME NEW m \in Timed, m.deliverAt <= 0,
           NEW at, at = IF m.deliverAt = Immediately THEN 0 ELSE m.deliverAt
    PROVE  LET e == [m EXCEPT !.deliverAt = at + m.interval]
           IN  e \in Timed /\ e.id = m.id
<1>1. /\ m \in Message /\ m.interval \in Nat /\ m.interval < Never
      /\ m.deliverAt \in Int /\ Immediately <= m.deliverAt
  BY TimedType, Times
<1>2. /\ at \in Int /\ at <= 0 /\ Immediately <= at + m.interval
      /\ at + m.interval < Never /\ at + m.interval \in Int
  BY <1>1, Times
<1>3. PICK e : e = [m EXCEPT !.deliverAt = at + m.interval]
  OBVIOUS
<1>4. e \in Message /\ e.id = m.id /\ e.deliverAt = at + m.interval
  BY <1>1, <1>2, <1>3 DEF Message
<1>5. e \in Timed
  BY <1>2, <1>4, TimedType
<1> QED
  BY <1>3, <1>4, <1>5

(* A new message has a new id (MessageThread.cpp:130). *)
LEMMA NewFacts ==
    ASSUME lastMessageID \in 0 .. MaxPosts, lastMessageID < MaxPosts,
           NEW d \in Delays \cup {Immediately}, NEW i \in Intervals
    PROVE  NewMessage(d, i) \in Timed /\ NewMessage(d, i).id = lastMessageID + 1
<1>1. /\ d \in Int /\ Immediately <= d /\ d < Never
      /\ lastMessageID + 1 \in Ids
  BY Times DEF Ids
<1>2. PICK m : m = NewMessage(d, i)
  OBVIOUS
<1>3. m \in Message /\ m.deliverAt = d /\ m.id = lastMessageID + 1
  BY <1>1, <1>2 DEF NewMessage, Message
<1> QED
  BY <1>1, <1>2, <1>3, TimedType

(* Inserting again is inserting or leaving the queue alone. *)
LEMMA AgainFacts ==
    ASSUME NEW q \in Seq(Timed), Sorted(q), Distinct(q), NEW e \in Timed,
           e.id \notin IdsIn(q)
    PROVE  /\ Within(q, q, {e.id}, 1)
           /\ Within(InsertMessageInternal(q, e), q, {e.id}, 1)
<1>1. Len(q) \in Nat
  OBVIOUS
<1>2. Within(q, q, {e.id}, 1)
  BY <1>1 DEF Within
<1>3. Grown(InsertMessageInternal(q, e), q, e)
  BY InsertFacts
<1> QED
  BY <1>1, <1>2, <1>3 DEF Within, Grown

-----------------------------------------------------------------------------
(* Every step keeps the invariant. *)

(* A thread that was just made. *)
LEMMA InitInv == Init => Inv
<1> SUFFICES ASSUME Init PROVE Inv
  OBVIOUS
<1>1. queue = << >> /\ batch = << >> /\ Len(queue) = 0 /\ Len(batch) = 0
  BY DEF Init
<1>2. queue \in Seq(Timed) /\ batch \in Seq(Timed)
  BY <1>1
<1>3. (\A n \in 1 .. Len(queue) : FALSE) /\ (\A n \in 1 .. Len(batch) : FALSE)
  BY <1>1
<1>4. ControlType
  <2>1. Never \in -(MaxLate + 1) .. Never /\ 0 \in 0 .. MaxPosts
    BY Times
  <2> QED
    BY <2>1 DEF Init, ControlType
<1>5. KindInv
  BY <1>2, <1>3 DEF KindInv
<1>6. IdsIn(queue) = {} /\ IdsIn(batch) = {}
  BY <1>3 DEF IdsIn
<1>7. IdInv
  BY <1>1, <1>3, <1>6 DEF IdInv, Distinct, Init
<1>8. BatchInv /\ Sorted(queue) /\ SleepInv
  BY <1>3 DEF BatchInv, Sorted, SleepInv, Early, Init
<1> QED
  BY <1>4, <1>5, <1>7, <1>8 DEF Inv

(* The timeout is that of the first message, hence before all of them      *)
(* (MessageThread.cpp:60-63).                                              *)
LEMMA TestStep == Inv /\ Test => Inv'
<1> SUFFICES ASSUME Inv, Test PROVE Inv'
  OBVIOUS
<1>0. UNCHANGED <<queue, batch, lastMessageID, running, signalled, stopper,
                  cancelled>>
  BY DEF Test
<1>1. /\ Len(queue) \in Nat
      /\ \A n \in 1 .. Len(queue) : queue[n] \in Timed
  BY DEF Inv, KindInv
<1>2. queue # << >> => 1 \in 1 .. Len(queue)
  BY <1>1 DEF Inv, KindInv
<1>3. Timeout \in -(MaxLate + 1) .. Never
  <2>1. CASE queue = << >>
    BY <2>1, Times DEF Timeout
  <2>2. CASE queue # << >>
    <3>1. /\ queue[1].deliverAt \in Int /\ Immediately <= queue[1].deliverAt
          /\ queue[1].deliverAt < Never
      BY <2>2, <1>1, <1>2, TimedType
    <3> QED
      BY <2>2, <3>1, Times DEF Timeout
  <2> QED
    BY <2>1, <2>2
<1>4. \A n \in 1 .. Len(queue) : Timeout <= queue[n].deliverAt
  <2> SUFFICES ASSUME NEW n \in 1 .. Len(queue)
               PROVE  Timeout <= queue[n].deliverAt
    OBVIOUS
  <2>1. queue # << >> /\ 1 <= n /\ 1 \in 1 .. Len(queue)
    BY <1>1
  <2> QED
    BY <2>1 DEF Timeout, Inv, Sorted
<1>5. /\ pc' \in {"ended", "enter", "collect"} /\ pc # "deliver"
      /\ pc' = "enter" => timer' = Timeout
      /\ timer' = Timeout \/ timer' = timer
  BY DEF Test
<1>6. ControlType'
  BY <1>0, <1>3, <1>5 DEF Inv, ControlType
<1>7. SleepInv'
  BY <1>0, <1>4, <1>5 DEF SleepInv, Early
<1>8. KindInv' /\ IdInv' /\ BatchInv' /\ Sorted(queue)'
  BY <1>0, <1>5 DEF Inv, KindInv, IdInv, BatchInv, Sorted, Distinct, IdsIn
<1> QED
  BY <1>6, <1>7, <1>8 DEF Inv

(* The steps that leave queue and batch alone. *)
LEMMA QuietStep ==
    Inv /\ (EnterWait \/ Wake \/ SpuriousWake \/ BatchDone \/ Stop
             \/ StopSignal \/ Join \/ UNCHANGED vars) => Inv'
<1> SUFFICES ASSUME Inv, EnterWait \/ Wake \/ SpuriousWake \/ BatchDone \/ Stop
                           \/ StopSignal \/ Join \/ UNCHANGED vars
             PROVE  Inv'
  OBVIOUS
<1>1. UNCHANGED <<queue, batch, lastMessageID, timer, cancelled>>
  BY DEF EnterWait, Wake, SpuriousWake, BatchDone, Stop, StopSignal, Join, vars
<1>2. ControlType'
  BY DEF Inv, ControlType, EnterWait, Wake, SpuriousWake, Awake, BatchDone,
         Stop, StopSignal, Join, vars
<1>3. KindInv' /\ IdInv' /\ Sorted(queue)'
  <2>1. KindInv'
    BY <1>1 DEF Inv, KindInv
  <2>2. IdInv'
    <3>1. IdsIn(queue)' = IdsIn(queue) /\ IdsIn(batch)' = IdsIn(batch)
      BY <1>1 DEF IdsIn
    <3>2. Distinct(queue)' = Distinct(queue) /\ Distinct(batch)' = Distinct(batch)
      BY <1>1 DEF Distinct
    <3> QED
      BY <3>1, <3>2, <1>1 DEF Inv, IdInv
  <2>3. Sorted(queue)'
    BY <1>1 DEF Inv, Sorted
  <2> QED
    BY <2>1, <2>2, <2>3
<1>4. BatchInv'
  BY DEF Inv, BatchInv, EnterWait, Wake, SpuriousWake, Awake, BatchDone,
         Stop, StopSignal, Join, vars
<1>5. Early' <=> Early
  BY <1>1 DEF Early
<1>6. /\ pc' = "enter" => pc = "enter"
      /\ pc' = "wait" => \/ pc = "enter"
                         \/ pc = "wait" /\ (signalled => signalled')
  BY DEF Inv, ControlType, EnterWait, Wake, SpuriousWake, Awake, BatchDone,
         Stop, StopSignal, Join, vars
<1>7. SleepInv'
  BY <1>5, <1>6 DEF Inv, SleepInv
<1> QED
  BY <1>2, <1>3, <1>4, <1>7 DEF Inv

(* A batch is what was due, and no longer in the queue                     *)
(* (MessageThread.cpp:94-103).                                             *)
LEMMA CollectStep == Inv /\ Collect => Inv'
<1> SUFFICES ASSUME Inv, Collect PROVE Inv'
  OBVIOUS
<1>0. /\ UNCHANGED <<lastMessageID, running, timer, signalled, stopper,
                     cancelled>>
      /\ batch' = Keep(queue, Due) /\ queue' = Keep(queue, Message \ Due)
      /\ pc = "collect" /\ pc' = "deliver"
  BY DEF Collect
<1>1. /\ queue \in Seq(Timed) /\ Distinct(queue) /\ Sorted(queue)
      /\ batch = << >>
  BY <1>0 DEF Inv, KindInv, IdInv, BatchInv
<1>2. Left(batch', queue, Due)
  BY <1>0, <1>1, KeepFacts
<1>3. Left(queue', queue, Message \ Due)
  <2>1. Left(Keep(queue, Message \ Due), queue, Message \ Due)
    BY <1>1, KeepFacts, Zenon
  <2> QED
    BY <2>1, <1>0
<1>4. /\ IdsIn(batch') \cap IdsIn(queue') = {}
      /\ Len(batch') + Len(queue') = Len(queue)
      /\ Len(batch') \in Nat /\ Len(queue') \in Nat
  BY <1>0, <1>1, CollectFacts
<1>5. \A n \in 1 .. Len(batch') : batch'[n].deliverAt <= 0
  BY <1>2 DEF Left, Due
<1>6. KindInv'
  BY <1>2, <1>3, <1>5 DEF KindInv, Left
<1>7. /\ Len(queue) <= lastMessageID /\ lastMessageID \in Nat
      /\ IdsIn(queue) \cup cancelled \subseteq 1 .. lastMessageID
      /\ cancelled \cap IdsIn(queue) = {}
  <2>1. Len(queue) \in Nat /\ Len(batch) = 0 /\ lastMessageID \in Nat
    BY <1>1, Times DEF Inv, ControlType
  <2> QED
    BY <2>1 DEF Inv, IdInv
<1>8. IdInv'
  <2>1. Distinct(queue') /\ Distinct(batch')
    BY <1>2, <1>3 DEF Left
  <2>2. IdsIn(queue') \subseteq IdsIn(queue) /\ IdsIn(batch') \subseteq IdsIn(queue)
    BY <1>2, <1>3 DEF Left
  <2>3. Len(queue') + Len(batch') <= lastMessageID'
    BY <1>0, <1>4, <1>7, <1>1
  <2>4. (IdsIn(queue) \cap IdsIn(batch) = {})'
    BY <1>4 DEF IdsIn
  <2>5. (IdsIn(queue) \cup IdsIn(batch) \cup cancelled)'
            \subseteq 1 .. lastMessageID'
    BY <2>2, <1>0, <1>7 DEF IdsIn
  <2>6. (cancelled \cap (IdsIn(queue) \cup IdsIn(batch)) = {})'
    BY <2>2, <1>0, <1>7 DEF IdsIn
  <2> QED
    BY <2>1, <2>3, <2>4, <2>5, <2>6 DEF IdInv, Distinct
<1>9. Sorted(queue)'
  BY <1>1, <1>3 DEF Left, Sorted
<1>10. ControlType' /\ BatchInv' /\ SleepInv'
  BY <1>0 DEF Inv, ControlType, BatchInv, SleepInv
<1> QED
  BY <1>6, <1>8, <1>9, <1>10 DEF Inv

(* What the functions of a batch do to the queue, in one form: it gets the *)
(* message again, or a new one, or both.                                   *)
LEMMA DeliverQueue ==
    ASSUME Inv, Deliver
    PROVE  /\ lastMessageID' \in 0 .. MaxPosts
           /\ \/ /\ lastMessageID' = lastMessageID
                 /\ Within(queue', queue, {Head(batch).id}, 1)
              \/ /\ lastMessageID' = lastMessageID + 1
                 /\ Within(queue', queue,
                           {Head(batch).id, lastMessageID + 1}, 2)
<1>0. /\ queue \in Seq(Timed) /\ Distinct(queue) /\ Sorted(queue)
      /\ batch \in Seq(Timed) /\ Distinct(batch) /\ batch # << >>
      /\ lastMessageID \in 0 .. MaxPosts
      /\ Len(queue) \in Nat
  BY DEF Inv, KindInv, IdInv, ControlType, Deliver
<1>1. PICK m : m = Head(batch)
  OBVIOUS
<1>2. /\ m \in Timed /\ m.id \in IdsIn(batch) /\ m.deliverAt <= 0
      /\ m.id \notin IdsIn(queue) /\ m.id \in 1 .. lastMessageID
  <2>1. m \in Timed /\ m.id \in IdsIn(batch) /\ m = batch[1] /\ 1 \in 1 .. Len(batch)
    BY <1>0, <1>1, BatchFacts
  <2> QED
    BY <2>1 DEF Inv, KindInv, IdInv
<1>3. PICK at : at = IF m.deliverAt = Immediately THEN 0 ELSE m.deliverAt
  OBVIOUS
<1>4. PICK e : e = [m EXCEPT !.deliverAt = at + m.interval]
  OBVIOUS
<1>5. e \in Timed /\ e.id = m.id
  BY <1>2, <1>3, <1>4, NextTime
<1> DEFINE Again(q, self) ==
               IF m.interval > 0 /\ ~self THEN InsertMessageInternal(q, e) ELSE q
<1>6. \/ \E self \in BOOLEAN :
            queue' = Again(queue, self) /\ lastMessageID' = lastMessageID
      \/ \E id \in Ids :
            /\ queue' = Again(Without(queue, id), FALSE)
            /\ lastMessageID' = lastMessageID
      \/ /\ lastMessageID < MaxPosts
         /\ lastMessageID' = lastMessageID + 1
         /\ \E d \in Delays \cup {Immediately}, i \in Intervals :
               queue' = Again(InsertMessageInternal(queue, NewMessage(d, i)),
                              FALSE)
  BY <1>1, <1>3, <1>4 DEF Deliver
<1>7. ASSUME NEW q \in Seq(Timed), Sorted(q), Distinct(q), m.id \notin IdsIn(q),
             NEW self \in BOOLEAN
      PROVE  Within(Again(q, self), q, {m.id}, 1)
  BY <1>5, <1>7, AgainFacts
<1> HIDE DEF Again
<1>8. CASE \E self \in BOOLEAN :
             queue' = Again(queue, self) /\ lastMessageID' = lastMessageID
  BY <1>8, <1>7, <1>0, <1>1, <1>2
<1>9. CASE \E id \in Ids : /\ queue' = Again(Without(queue, id), FALSE)
                          /\ lastMessageID' = lastMessageID
  <2>1. PICK id \in Ids : queue' = Again(Without(queue, id), FALSE)
    BY <1>9
  <2>2. PICK q : q = Without(queue, id)
    OBVIOUS
  <2>3. Left(q, queue, {n \in Message : n.id # id})
    BY <2>2, <1>0, KeepFacts DEF Without
  <2>4. q \in Seq(Timed) /\ Sorted(q) /\ Distinct(q) /\ IdsIn(q) \subseteq IdsIn(queue)
    BY <2>3, <1>0 DEF Left
  <2>5. Len(q) <= Len(queue) /\ Len(q) \in Nat
    <3>1. PICK S : S = {n \in Message : n.id # id}
      OBVIOUS
    <3>2. q = Keep(queue, S)
      BY <3>1, <2>2 DEF Without
    <3>3. /\ Len(Keep(queue, S)) + Len(Keep(queue, Message \ S)) = Len(queue)
          /\ Len(Keep(queue, S)) \in Nat /\ Len(Keep(queue, Message \ S)) \in Nat
      BY <1>0, CollectFacts
    <3> QED
      BY <3>2, <3>3
  <2>6. Within(queue', q, {m.id}, 1)
    BY <2>1, <2>2, <2>4, <1>2, <1>7
  <2>7. Within(queue', queue, {m.id}, 1)
    BY <2>4, <2>5, <2>6, <1>0 DEF Within
  <2> QED
    BY <2>7, <1>0, <1>1, <1>9
<1>10. CASE /\ lastMessageID < MaxPosts
            /\ lastMessageID' = lastMessageID + 1
            /\ \E d \in Delays \cup {Immediately}, i \in Intervals :
                  queue' = Again(InsertMessageInternal(queue, NewMessage(d, i)),
                                 FALSE)
  <2>1. PICK d \in Delays \cup {Immediately}, i \in Intervals :
            queue' = Again(InsertMessageInternal(queue, NewMessage(d, i)), FALSE)
    BY <1>10
  <2>2. PICK n : n = NewMessage(d, i)
    OBVIOUS
  <2>3. n \in Timed /\ n.id = lastMessageID + 1
    BY <2>2, <1>0, <1>10, NewFacts
  <2>4. n.id \notin IdsIn(queue) /\ n.id # m.id
    BY <2>3, <1>0, <1>2, Times DEF Inv, IdInv
  <2>5. PICK q : q = InsertMessageInternal(queue, n)
    OBVIOUS
  <2>6. Grown(q, queue, n)
    BY <2>3, <2>4, <2>5, <1>0, InsertFacts
  <2>7. Within(queue', q, {m.id}, 1)
    BY <2>1, <2>2, <2>4, <2>5, <2>6, <1>2, <1>7 DEF Grown
  <2>8. Within(queue', queue, {m.id, lastMessageID + 1}, 2)
    BY <2>3, <2>6, <2>7, <1>0 DEF Within, Grown
  <2>9. lastMessageID' \in 0 .. MaxPosts /\ lastMessageID' = lastMessageID + 1
    BY <1>0, <1>10, Times
  <2> QED
    BY <2>8, <2>9, <1>1
<1> QED
  BY <1>6, <1>8, <1>9, <1>10

(* A delivery keeps the invariant (MessageThread.cpp:105-117). *)
LEMMA DeliverStep == Inv /\ Deliver => Inv'
<1> SUFFICES ASSUME Inv, Deliver PROVE Inv'
  OBVIOUS
<1>0. /\ queue \in Seq(Timed) /\ Distinct(queue) /\ Sorted(queue)
      /\ batch \in Seq(Timed) /\ Distinct(batch) /\ batch # << >>
      /\ lastMessageID \in Nat
      /\ Len(queue) \in Nat /\ Len(batch) \in Nat
  BY Times DEF Inv, KindInv, IdInv, ControlType, Deliver
<1>1. /\ batch' = Tail(batch) /\ pc = "deliver"
      /\ UNCHANGED <<running, pc, timer, signalled, stopper, cancelled>>
  BY DEF Deliver
<1>2. PICK h : h = Head(batch).id
  OBVIOUS
<1>3. PICK b : b = Tail(batch)
  OBVIOUS
<1>4. /\ b \in Seq(Timed) /\ Len(b) = Len(batch) - 1 /\ Distinct(b)
      /\ \A n \in 1 .. Len(b) : n + 1 \in 1 .. Len(batch) /\ b[n] = batch[n + 1]
      /\ h \in IdsIn(batch) /\ h \notin IdsIn(b) /\ IdsIn(b) \subseteq IdsIn(batch)
  BY <1>0, <1>2, <1>3, BatchFacts
<1>5. PICK fresh \in SUBSET {lastMessageID + 1} :
          /\ Within(queue', queue, {h} \cup fresh, lastMessageID' - lastMessageID + 1)
          /\ lastMessageID' \in 0 .. MaxPosts /\ lastMessageID' >= lastMessageID
          /\ fresh \subseteq 1 .. lastMessageID'
  <2>1. /\ lastMessageID' \in 0 .. MaxPosts
        /\ \/ /\ lastMessageID' = lastMessageID
              /\ Within(queue', queue, {h}, 1)
           \/ /\ lastMessageID' = lastMessageID + 1
              /\ Within(queue', queue, {h, lastMessageID + 1}, 2)
    BY <1>2, DeliverQueue
  <2>2. CASE lastMessageID' = lastMessageID /\ Within(queue', queue, {h}, 1)
    <3>1. /\ {h} \cup {} = {h} /\ lastMessageID' - lastMessageID + 1 = 1
          /\ lastMessageID' >= lastMessageID
      BY <2>2, <1>0
    <3>2. {} \in SUBSET {lastMessageID + 1} /\ {} \subseteq 1 .. lastMessageID'
      OBVIOUS
    <3> QED
      BY <2>1, <2>2, <3>1, <3>2
  <2>3. CASE /\ lastMessageID' = lastMessageID + 1
             /\ Within(queue', queue, {h, lastMessageID + 1}, 2)
    <3>1. PICK f : f = {lastMessageID + 1}
      OBVIOUS
    <3>2. /\ {h} \cup f = {h, lastMessageID + 1}
          /\ lastMessageID' - lastMessageID + 1 = 2
          /\ lastMessageID' >= lastMessageID /\ f \subseteq 1 .. lastMessageID'
      BY <2>3, <3>1, <1>0
    <3>3. Within(queue', queue, {h} \cup f, lastMessageID' - lastMessageID + 1)
      BY <2>3, <3>2
    <3>4. f \in SUBSET {lastMessageID + 1}
      BY <3>1
    <3> QED
      BY <2>1, <3>2, <3>3, <3>4
  <2> QED
    BY <2>1, <2>2, <2>3
<1>6. /\ queue' \in Seq(Timed) /\ Sorted(queue') /\ Distinct(queue')
      /\ IdsIn(queue') \subseteq IdsIn(queue) \cup {h} \cup fresh
      /\ Len(queue') <= Len(queue) + (lastMessageID' - lastMessageID + 1)
      /\ Len(queue') \in Nat
  BY <1>5 DEF Within
<1>7. KindInv'
  <2>1. \A n \in 1 .. Len(b) : b[n].deliverAt <= 0
    BY <1>4 DEF Inv, KindInv
  <2> QED
    BY <2>1, <1>1, <1>3, <1>4, <1>6 DEF KindInv
<1>8. /\ IdsIn(queue) \cap IdsIn(batch) = {}
      /\ IdsIn(queue) \cup IdsIn(batch) \cup cancelled \subseteq 1 .. lastMessageID
      /\ cancelled \cap (IdsIn(queue) \cup IdsIn(batch)) = {}
      /\ Len(queue) + Len(batch) <= lastMessageID
  BY DEF Inv, IdInv
<1>9. lastMessageID + 1 \notin IdsIn(queue) \cup IdsIn(batch) \cup cancelled
  BY <1>0, <1>8
<1>10. 1 .. lastMessageID \subseteq 1 .. lastMessageID'
  BY <1>0, <1>5, Times
<1>11. IdInv'
  <2>1. IdsIn(queue') \cap IdsIn(b) = {}
    BY <1>4, <1>5, <1>6, <1>8, <1>9
  <2>2. IdsIn(queue') \cup IdsIn(b) \cup cancelled \subseteq 1 .. lastMessageID'
    BY <1>4, <1>5, <1>6, <1>8, <1>10
  <2>3. cancelled \cap (IdsIn(queue') \cup IdsIn(b)) = {}
    BY <1>4, <1>5, <1>6, <1>8, <1>9
  <2>4. Len(queue') + Len(b) <= lastMessageID'
    BY <1>0, <1>4, <1>5, <1>6, <1>8, Times
  <2>5. (Distinct(queue) /\ Distinct(batch))'
    BY <1>1, <1>3, <1>4, <1>6 DEF Distinct
  <2>6. IdsIn(queue)' = IdsIn(queue') /\ IdsIn(batch)' = IdsIn(b)
    BY <1>1, <1>3 DEF IdsIn
  <2> QED
    BY <2>1, <2>2, <2>3, <2>4, <2>5, <2>6, <1>1, <1>3 DEF IdInv
<1>12. Sorted(queue)'
  BY <1>6 DEF Sorted
<1>13. ControlType' /\ BatchInv' /\ SleepInv'
  BY <1>1, <1>5 DEF Inv, ControlType, BatchInv, SleepInv
<1> QED
  BY <1>7, <1>11, <1>12, <1>13 DEF Inv

(* A message posted while the thread waits signals it                      *)
(* (MessageThread.cpp:123-141).                                            *)
LEMMA PostStep ==
    ASSUME Inv, NEW d \in Delays \cup {Immediately}, NEW i \in Intervals,
           Post(d, i)
    PROVE  Inv'
<1>0. /\ queue \in Seq(Timed) /\ Distinct(queue) /\ Sorted(queue)
      /\ lastMessageID \in 0 .. MaxPosts
      /\ Len(queue) \in Nat /\ batch = << >> /\ Len(batch) = 0
  BY DEF Inv, KindInv, IdInv, ControlType, BatchInv, Post
<1>1. /\ pc = "wait" /\ lastMessageID < MaxPosts
      /\ lastMessageID' = lastMessageID + 1 /\ signalled' = TRUE
      /\ UNCHANGED <<batch, running, pc, timer, stopper, cancelled>>
  BY DEF Post
<1>2. PICK m : m = NewMessage(d, i)
  OBVIOUS
<1>3. m \in Timed /\ m.id = lastMessageID + 1
  BY <1>0, <1>1, <1>2, NewFacts
<1>4. /\ IdsIn(queue) \cap IdsIn(batch) = {}
      /\ IdsIn(queue) \cup IdsIn(batch) \cup cancelled \subseteq 1 .. lastMessageID
      /\ cancelled \cap (IdsIn(queue) \cup IdsIn(batch)) = {}
      /\ Len(queue) + Len(batch) <= lastMessageID
      /\ Distinct(batch)
  BY DEF Inv, IdInv
<1>5. m.id \notin IdsIn(queue) \cup IdsIn(batch) \cup cancelled
  BY <1>0, <1>3, <1>4
<1>6. Grown(queue', queue, m)
  BY <1>0, <1>2, <1>3, <1>5, InsertFacts DEF Post
<1>7. /\ queue' \in Seq(Timed) /\ Len(queue') = Len(queue) + 1
      /\ Sorted(queue') /\ Distinct(queue')
      /\ IdsIn(queue') = IdsIn(queue) \cup {lastMessageID + 1}
  BY <1>3, <1>6 DEF Grown
<1>8. lastMessageID' \in 0 .. MaxPosts /\ 1 .. lastMessageID \subseteq 1 .. lastMessageID'
      /\ lastMessageID + 1 \in 1 .. lastMessageID'
  BY <1>0, <1>1, Times
<1>9. IdInv'
  <2>1. IdsIn(queue)' = IdsIn(queue') /\ IdsIn(batch)' = IdsIn(batch)
    BY <1>1 DEF IdsIn
  <2>2. Distinct(queue)' /\ Distinct(batch)'
    BY <1>1, <1>4, <1>7 DEF Distinct
  <2>3. (IdsIn(queue) \cap IdsIn(batch) = {})'
    BY <2>1, <1>3, <1>4, <1>5, <1>7
  <2>4. (IdsIn(queue) \cup IdsIn(batch) \cup cancelled \subseteq 1 .. lastMessageID)'
    BY <2>1, <1>1, <1>4, <1>7, <1>8
  <2>5. (cancelled \cap (IdsIn(queue) \cup IdsIn(batch)) = {})'
    BY <2>1, <1>1, <1>3, <1>4, <1>5, <1>7
  <2>6. (Len(queue) + Len(batch) <= lastMessageID)'
    BY <1>0, <1>1, <1>4, <1>7
  <2> QED
    BY <2>2, <2>3, <2>4, <2>5, <2>6 DEF IdInv
<1>10. KindInv'
  BY <1>1, <1>7 DEF Inv, KindInv
<1>11. ControlType' /\ BatchInv' /\ SleepInv'
  BY <1>1, <1>8 DEF Inv, ControlType, BatchInv, SleepInv
<1>12. Sorted(queue)'
  BY <1>7 DEF Sorted
<1> QED
  BY <1>9, <1>10, <1>11, <1>12 DEF Inv

(* A message cancelled while the thread waits is in no batch               *)
(* (MessageThread.cpp:162-178).                                            *)
LEMMA CancelStep ==
    ASSUME Inv, NEW id \in Ids, Cancel(id)
    PROVE  Inv'
<1>0. /\ queue \in Seq(Timed) /\ Distinct(queue) /\ Sorted(queue)
      /\ lastMessageID \in 0 .. MaxPosts
      /\ Len(queue) \in Nat /\ batch = << >> /\ Len(batch) = 0
  BY DEF Inv, KindInv, IdInv, ControlType, BatchInv, Cancel
<1>1. /\ pc = "wait" /\ id <= lastMessageID
      /\ cancelled' = cancelled \cup {id}
      /\ UNCHANGED <<batch, lastMessageID, running, pc, timer, signalled,
                     stopper>>
  BY DEF Cancel
<1>2. PICK S : S = {n \in Message : n.id # id}
  OBVIOUS
<1>3. queue' = Keep(queue, S)
  BY <1>2 DEF Cancel, Without
<1>4. Left(queue', queue, S)
  BY <1>0, <1>3, KeepFacts
<1>5. /\ queue' \in Seq(Timed) /\ Distinct(queue') /\ Sorted(queue')
      /\ IdsIn(queue') \subseteq IdsIn(queue)
      /\ \A n \in 1 .. Len(queue') :
            /\ queue'[n].id # id
            /\ \E k \in 1 .. Len(queue) : queue'[n] = queue[k]
  BY <1>0, <1>2, <1>4 DEF Left
<1>6. Len(queue') <= Len(queue) /\ Len(queue') \in Nat
  <2>1. /\ Len(Keep(queue, S)) + Len(Keep(queue, Message \ S)) = Len(queue)
        /\ Len(Keep(queue, S)) \in Nat /\ Len(Keep(queue, Message \ S)) \in Nat
    BY <1>0, CollectFacts
  <2> QED
    BY <2>1, <1>3
<1>7. id \notin IdsIn(queue') /\ IdsIn(batch) = {}
  BY <1>0, <1>5 DEF IdsIn
<1>8. /\ IdsIn(queue) \cup IdsIn(batch) \cup cancelled \subseteq 1 .. lastMessageID
      /\ cancelled \cap (IdsIn(queue) \cup IdsIn(batch)) = {}
      /\ Len(queue) + Len(batch) <= lastMessageID
      /\ Distinct(batch) /\ id \in 1 .. lastMessageID
  BY <1>0, <1>1, Times DEF Inv, IdInv, Ids
<1>9. IdInv'
  <2>1. IdsIn(queue)' = IdsIn(queue') /\ IdsIn(batch)' = {}
    BY <1>1, <1>7 DEF IdsIn
  <2>2. Distinct(queue)' /\ Distinct(batch)'
    BY <1>1, <1>5, <1>8 DEF Distinct
  <2>3. (IdsIn(queue) \cup IdsIn(batch) \cup cancelled \subseteq 1 .. lastMessageID)'
    BY <2>1, <1>1, <1>5, <1>8
  <2>4. (cancelled \cap (IdsIn(queue) \cup IdsIn(batch)) = {})'
    BY <2>1, <1>1, <1>5, <1>7, <1>8
  <2>5. (Len(queue) + Len(batch) <= lastMessageID)'
    BY <1>0, <1>1, <1>6, <1>8
  <2> QED
    BY <2>1, <2>2, <2>3, <2>4, <2>5 DEF IdInv
<1>10. KindInv'
  BY <1>1, <1>5 DEF Inv, KindInv
<1>11. ControlType' /\ BatchInv'
  BY <1>1 DEF Inv, ControlType, BatchInv
<1>12. SleepInv'
  BY <1>1, <1>5 DEF Inv, SleepInv, Early
<1>13. Sorted(queue)'
  BY <1>5 DEF Sorted
<1> QED
  BY <1>9, <1>10, <1>11, <1>12, <1>13 DEF Inv

(* Time brings the timeout and the messages closer alike. *)
LEMMA TickStep == Inv /\ Tick => Inv'
<1> SUFFICES ASSUME Inv, Tick PROVE Inv'
  OBVIOUS
<1>0. /\ queue \in Seq(Timed) /\ Distinct(queue) /\ Sorted(queue)
      /\ batch \in Seq(Timed) /\ Distinct(batch)
      /\ timer \in -(MaxLate + 1) .. Never
  BY DEF Inv, KindInv, IdInv, ControlType
<1>1. /\ pc # "enter" /\ queue' = Aged(queue) /\ batch' = Aged(batch)
      /\ timer' = IF timer = Never THEN Never ELSE Closer(timer)
      /\ UNCHANGED <<lastMessageID, running, pc, signalled, stopper, cancelled>>
  BY DEF Tick
<1>2. /\ queue' \in Seq(Timed) /\ Len(queue') = Len(queue)
      /\ IdsIn(queue') = IdsIn(queue) /\ Distinct(queue') /\ Sorted(queue')
      /\ \A n \in 1 .. Len(queue) :
            queue'[n].deliverAt = Closer(queue[n].deliverAt)
  BY <1>0, <1>1, AgedFacts
<1>3. /\ batch' \in Seq(Timed) /\ Len(batch') = Len(batch)
      /\ IdsIn(batch') = IdsIn(batch) /\ Distinct(batch')
      /\ \A n \in 1 .. Len(batch) :
            batch'[n].deliverAt = Closer(batch[n].deliverAt)
  BY <1>0, <1>1, AgedFacts
<1>4. KindInv'
  <2>1. ASSUME NEW n \in 1 .. Len(batch) PROVE batch'[n].deliverAt <= 0
    <3>1. batch[n] \in Timed /\ batch[n].deliverAt <= 0
      BY <1>0 DEF Inv, KindInv
    <3>2. /\ batch[n].deliverAt \in Int /\ Immediately <= batch[n].deliverAt
      BY <3>1, TimedType
    <3>3. /\ Closer(batch[n].deliverAt) \in Int
          /\ Closer(batch[n].deliverAt) <= batch[n].deliverAt
      BY <3>2, CloserOrder
    <3> QED
      BY <3>1, <3>2, <3>3, <1>3
  <2> QED
    BY <2>1, <1>2, <1>3 DEF KindInv
<1>5. IdInv'
  <2>1. IdsIn(queue)' = IdsIn(queue) /\ IdsIn(batch)' = IdsIn(batch)
    BY <1>2, <1>3 DEF IdsIn
  <2>2. Distinct(queue)' /\ Distinct(batch)'
    BY <1>2, <1>3 DEF Distinct
  <2> QED
    BY <2>1, <2>2, <1>1, <1>2, <1>3 DEF Inv, IdInv
<1>6. BatchInv'
  <2>1. ASSUME batch = << >> PROVE batch' = << >>
    <3>1. Len(batch') = 0
      BY <2>1, <1>3
    <3> QED
      BY <3>1, <1>3
  <2> QED
    BY <2>1, <1>1 DEF Inv, BatchInv
<1>7. /\ timer \in Int /\ Immediately <= timer /\ timer <= Never
      /\ timer' \in Int /\ Immediately <= timer' /\ timer' <= Never
  <2>1. timer \in Int /\ Immediately <= timer /\ timer <= Never
    BY <1>0, Times
  <2>2. /\ Closer(timer) \in Int /\ Immediately <= Closer(timer)
        /\ Closer(timer) <= timer
    BY <2>1, CloserOrder
  <2> QED
    BY <2>1, <2>2, <1>1, Times
<1>8. ControlType'
  BY <1>1, <1>7, Times DEF Inv, ControlType
<1>9. ASSUME Early PROVE Early'
  <2> SUFFICES ASSUME NEW n \in 1 .. Len(queue)
               PROVE  timer' <= queue'[n].deliverAt
    BY <1>2 DEF Early
  <2>1. queue[n] \in Timed /\ timer <= queue[n].deliverAt
    BY <1>0, <1>9 DEF Early
  <2>2. queue[n].deliverAt \in Int /\ queue[n].deliverAt < Never
    BY <2>1, TimedType
  <2>3. timer # Never /\ timer' = Closer(timer)
    BY <2>1, <2>2, <1>1, <1>7, Times
  <2>4. Closer(timer) <= Closer(queue[n].deliverAt)
    BY <2>1, <2>2, <1>7, CloserOrder
  <2> QED
    BY <2>3, <2>4, <1>2
<1>10. SleepInv'
  BY <1>1, <1>9 DEF Inv, SleepInv
<1>11. Sorted(queue)'
  BY <1>2 DEF Sorted
<1> QED
  BY <1>4, <1>5, <1>6, <1>8, <1>10, <1>11 DEF Inv

(* Every step keeps the invariant. *)
LEMMA NextInv == Inv /\ [Next]_vars => Inv'
<1> SUFFICES ASSUME Inv, [Next]_vars PROVE Inv'
  OBVIOUS
<1>1. CASE \E d \in Delays \cup {Immediately}, i \in Intervals : Post(d, i)
  BY <1>1, PostStep
<1>2. CASE \E id \in Ids : Cancel(id)
  BY <1>2, CancelStep
<1> QED
  BY <1>1, <1>2, TestStep, QuietStep, CollectStep, DeliverStep, TickStep
     DEF Next, Run, Others

(* The invariant of every behaviour. *)
LEMMA AlwaysInv == Spec => []Inv
  BY InitInv, NextInv, PTL DEF Spec

-----------------------------------------------------------------------------
(* The thread never sleeps past a message (MessageThread.cpp:60, 140-158), *)
(* for any number of messages, any delays and intervals.                   *)
THEOREM Thread_NeverOversleeps == Spec => []NeverOversleeps
<1>1. Inv => NeverOversleeps
  BY DEF Inv, SleepInv, Early, NeverOversleeps
<1> QED
  BY <1>1, AlwaysInv, PTL

(* A message is in one place at most, the queue never holds more than were *)
(* posted, and a message another thread cancelled is never delivered again *)
(* (MessageThread.cpp:160-176).                                            *)
THEOREM Cancel_IsFinal == Spec => []CancelIsFinal
<1>1. Inv => CancelIsFinal
  <2> SUFFICES ASSUME Inv PROVE CancelIsFinal
    OBVIOUS
  <2>1. queue \in Seq(Message) /\ batch \in Seq(Message)
    BY TimedType DEF Inv, KindInv
  <2>2. Len(queue) <= MaxPosts
    <3>1. Len(queue) \in Nat /\ Len(batch) \in Nat /\ lastMessageID \in 0 .. MaxPosts
      BY <2>1 DEF Inv, ControlType
    <3>2. Len(queue) + Len(batch) <= lastMessageID
      BY DEF Inv, IdInv
    <3> QED
      BY <3>1, <3>2, Times
  <2>3. TypeOK
    BY <2>1, <2>2 DEF Inv, ControlType, TypeOK
  <2> QED
    BY <2>3 DEF Inv, IdInv, CancelIsFinal
<1> QED
  BY <1>1, AlwaysInv, PTL
=============================================================================
