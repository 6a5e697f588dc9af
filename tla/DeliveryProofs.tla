---------------------------- MODULE DeliveryProofs ----------------------------
(***************************************************************************)
(* Theorems about Delivery, for queues and retries of any size and any     *)
(* number of events.  Events are numbered in the order they are emitted;   *)
(* what the queues do to them is to append, to take the first and to push  *)
(* one out, none of which changes their order.                             *)
(***************************************************************************)
EXTENDS Delivery, SequenceTheorems, WellFoundedInduction, TLAPS

-----------------------------------------------------------------------------
(* Sequences of numbers                                                    *)

Increasing(s) == \A i, j \in 1..Len(s) : i < j => s[i] < s[j]

LEMMA LeastOf ==
    ASSUME NEW I \in SUBSET Nat, I # {}
    PROVE  Min(I) \in I
<1>1. \E x \in I : \A y \in I : <<y, x>> \notin OpToRel(<, Nat)
  BY NatLessThanWellFounded, WFMin
<1>2. \E x \in I : \A y \in I : x <= y
  <2>1. PICK x \in I : \A y \in I : <<y, x>> \notin OpToRel(<, Nat)
    BY <1>1
  <2>2. ASSUME NEW y \in I PROVE x <= y
    <3>1. <<y, x>> \in Nat \X Nat /\ <<y, x>>[1] = y /\ <<y, x>>[2] = x
      OBVIOUS
    <3>2. ~(y < x)
      BY <2>1, <3>1 DEF OpToRel
    <3>3. x \in Nat /\ y \in Nat
      OBVIOUS
    <3>4. QED
      BY <3>2, <3>3
  <2>3. QED
    BY <2>2
<1>3. QED
  BY <1>2 DEF Min

LEMMA RemovedAt ==
    ASSUME NEW s \in Seq(Nat), NEW k \in 1..Len(s)
    PROVE  /\ RemoveAt(s, k) \in Seq(Nat)
           /\ Len(RemoveAt(s, k)) = Len(s) - 1
           /\ \A i \in 1..(Len(s) - 1) : RemoveAt(s, k)[i] = IF i < k THEN s[i] ELSE s[i + 1]
<1> DEFINE a == SubSeq(s, 1, k - 1)
           b == SubSeq(s, k + 1, Len(s))
<1>1. a \in Seq(Nat) /\ Len(a) = k - 1 /\ \A i \in 1..(k - 1) : a[i] = s[i]
  BY SubSeqProperties
<1>2. b \in Seq(Nat) /\ Len(b) = Len(s) - k /\ \A i \in 1..(Len(s) - k) : b[i] = s[k + i]
  BY SubSeqProperties
<1> HIDE DEF a, b
<1>3. /\ a \o b \in Seq(Nat) /\ Len(a \o b) = Len(s) - 1
      /\ \A i \in 1..(Len(s) - 1) : (a \o b)[i] = IF i < k THEN s[i] ELSE s[i + 1]
  <2>1. /\ a \o b \in Seq(Nat) /\ Len(a \o b) = Len(a) + Len(b)
        /\ \A i \in 1..(Len(a) + Len(b)) : (a \o b)[i] = IF i <= Len(a) THEN a[i] ELSE b[i - Len(a)]
    BY <1>1, <1>2, ConcatProperties
  <2>2. Len(a) + Len(b) = Len(s) - 1
    BY <1>1, <1>2
  <2>3. ASSUME NEW i \in 1..(Len(s) - 1)
        PROVE  (a \o b)[i] = IF i < k THEN s[i] ELSE s[i + 1]
    <3>1. CASE i < k
      BY <1>1, <2>1, <2>2, <3>1
    <3>2. CASE ~(i < k)
      <4>0. i \in 1..(Len(a) + Len(b)) /\ ~(i <= Len(a)) /\ Len(a) = k - 1
        BY <1>1, <2>2, <3>2
      <4>1. (a \o b)[i] = b[i - (k - 1)]
        BY <2>1, <4>0
      <4>2. i - (k - 1) \in 1..(Len(s) - k) /\ k + (i - (k - 1)) = i + 1
        BY <3>2
      <4>3. QED
        BY <1>2, <3>2, <4>1, <4>2
    <3>3. QED
      BY <3>1, <3>2
  <2>4. QED
    BY <2>1, <2>2, <2>3
<1>4. QED
  BY <1>3 DEF RemoveAt, a, b

LEMMA RemovedMatch ==
    ASSUME NEW q \in Seq(Nat), NEW keep, \E i \in 1..Len(q) : kind[q[i]] \notin keep
    PROVE  \E k \in 1..Len(q) : /\ kind[q[k]] \notin keep
               /\ RemoveFirstMatch(q, LAMBDA f : kind[f] \notin keep) = RemoveAt(q, k)
<1> DEFINE I == {i \in 1..Len(q) : kind[q[i]] \notin keep}
<1>1. I # {} /\ I \in SUBSET Nat
  OBVIOUS
<1>2. Min(I) \in I
  BY <1>1, LeastOf
<1>3. SelectInSeq(q, LAMBDA f : kind[f] \notin keep) = Min(I)
  BY <1>1 DEF SelectInSeq
<1>4. RemoveFirstMatch(q, LAMBDA f : kind[f] \notin keep) = RemoveAt(q, Min(I))
  BY <1>3 DEF RemoveFirstMatch
<1>5. QED
  BY <1>2, <1>4

LEMMA AppendedOrder ==
    ASSUME NEW q \in Seq(Nat), Increasing(q), NEW e \in Nat, \A i \in 1..Len(q) : q[i] < e
    PROVE  /\ Append(q, e) \in Seq(Nat) /\ Len(Append(q, e)) = Len(q) + 1
           /\ Increasing(Append(q, e))
           /\ \A i \in 1..Len(q) : Append(q, e)[i] = q[i]
           /\ Append(q, e)[Len(q) + 1] = e
<1>1. /\ Append(q, e) \in Seq(Nat) /\ Len(Append(q, e)) = Len(q) + 1
      /\ \A i \in 1..Len(q) : Append(q, e)[i] = q[i]
      /\ Append(q, e)[Len(q) + 1] = e
  BY AppendProperties
<1>2. Len(q) \in Nat /\ \A i \in 1..Len(q) : q[i] \in Nat
  BY LenProperties, ElementOfSeq
<1> DEFINE r == Append(q, e)
<1> HIDE DEF r
<1>3. ASSUME NEW i \in 1..Len(r), NEW j \in 1..Len(r), i < j PROVE r[i] < r[j]
  <2>1. i \in 1..Len(q) /\ r[i] = q[i] /\ j \in 1..(Len(q) + 1)
    BY <1>1, <1>2, <1>3 DEF r
  <2>2. CASE j = Len(q) + 1
    BY <1>1, <2>1, <2>2 DEF r
  <2>3. CASE j # Len(q) + 1
    <3>0. Len(q) \in Nat /\ j \in Int /\ j >= 1 /\ j <= Len(q) + 1
      BY <1>2, <2>1
    <3>1. j \in 1..Len(q)
      BY <2>3, <3>0
    <3>2. r[j] = q[j]
      BY <1>1, <3>1 DEF r
    <3>3. QED
      BY <1>3, <2>1, <3>1, <3>2 DEF Increasing
  <2>4. QED
    BY <2>2, <2>3
<1>4. QED
  BY <1>1, <1>3 DEF Increasing, r

LEMMA TailOrder ==
    ASSUME NEW q \in Seq(Nat), Increasing(q), q # <<>>
    PROVE  /\ Head(q) \in Nat /\ Head(q) = q[1] /\ Len(q) \in Nat \ {0}
           /\ Tail(q) \in Seq(Nat) /\ Len(Tail(q)) = Len(q) - 1 /\ Increasing(Tail(q))
           /\ \A i \in 1..Len(Tail(q)) : i + 1 \in 1..Len(q) /\ Tail(q)[i] = q[i + 1]
           /\ \A i \in 1..Len(Tail(q)) : Head(q) < Tail(q)[i]
<1>1. /\ Head(q) \in Nat /\ Head(q) = q[1] /\ Len(q) \in Nat \ {0}
      /\ Tail(q) \in Seq(Nat) /\ Len(Tail(q)) = Len(q) - 1
      /\ \A i \in 1..Len(Tail(q)) : Tail(q)[i] = q[i + 1]
  BY HeadTailProperties, EmptySeq, LenProperties
<1>2. \A i \in 1..Len(Tail(q)) : i + 1 \in 1..Len(q)
  BY <1>1
<1>3. \A i \in 1..Len(Tail(q)) : Head(q) < Tail(q)[i]
  <2>1. \A i \in 1..Len(Tail(q)) : 1 \in 1..Len(q) /\ 1 < i + 1
    BY <1>1
  <2>2. QED
    BY <1>1, <1>2, <2>1 DEF Increasing
<1>4. Increasing(Tail(q))
  BY <1>1, <1>2 DEF Increasing
<1>5. QED
  BY <1>1, <1>2, <1>3, <1>4

LEMMA RemovedOrder ==
    ASSUME NEW s \in Seq(Nat), Increasing(s), NEW k \in 1..Len(s)
    PROVE  /\ RemoveAt(s, k) \in Seq(Nat) /\ Len(RemoveAt(s, k)) = Len(s) - 1
           /\ Increasing(RemoveAt(s, k))
           /\ \A i \in 1..Len(RemoveAt(s, k)) :
                 \E j \in 1..Len(s) : j # k /\ RemoveAt(s, k)[i] = s[j]
           /\ \A j \in 1..Len(s) :
                 j # k => \E i \in 1..Len(RemoveAt(s, k)) : RemoveAt(s, k)[i] = s[j]
<1> DEFINE r == RemoveAt(s, k)
<1>1. /\ r \in Seq(Nat) /\ Len(r) = Len(s) - 1
      /\ \A i \in 1..(Len(s) - 1) : r[i] = IF i < k THEN s[i] ELSE s[i + 1]
  BY RemovedAt
<1>2. Len(s) \in Nat
  BY LenProperties
<1> HIDE DEF r
<1>3. ASSUME NEW i \in 1..Len(r), NEW j \in 1..Len(r), i < j PROVE r[i] < r[j]
  <2>1. /\ i \in 1..(Len(s) - 1) /\ j \in 1..(Len(s) - 1)
        /\ i \in 1..Len(s) /\ j \in 1..Len(s) /\ i + 1 \in 1..Len(s) /\ j + 1 \in 1..Len(s)
    BY <1>1, <1>2
  <2>a. r[i] = IF i < k THEN s[i] ELSE s[i + 1]
    BY <1>1, <2>1
  <2>b. r[j] = IF j < k THEN s[j] ELSE s[j + 1]
    BY <1>1, <2>1
  <2>c. ~(i < k) => ~(j < k)
    BY <1>3
  <2>2. r[i] \in {s[i], s[i + 1]} /\ r[j] \in {s[j], s[j + 1]} /\ (r[i] = s[i] \/ ~(j < k))
    BY <2>a, <2>b, <2>c
  <2>3. CASE r[i] = s[i]
    BY <1>3, <2>1, <2>2, <2>3, SMTT(30) DEF Increasing
  <2>4. CASE r[i] # s[i]
    <3>1. r[j] = s[j + 1] /\ r[i] = s[i + 1]
      BY <1>1, <2>1, <2>2, <2>4
    <3>2. i + 1 < j + 1
      BY <1>3
    <3>3. QED
      BY <2>1, <3>1, <3>2 DEF Increasing
  <2>5. QED
    BY <2>3, <2>4
<1>4. ASSUME NEW i \in 1..Len(r) PROVE \E j \in 1..Len(s) : j # k /\ r[i] = s[j]
  <2>1. i \in 1..(Len(s) - 1) /\ i \in 1..Len(s) /\ i + 1 \in 1..Len(s)
    BY <1>1, <1>2
  <2>2. CASE i < k
    BY <1>1, <2>1, <2>2
  <2>3. CASE ~(i < k)
    <3>1. i + 1 # k
      BY <2>1, <2>3
    <3>2. QED
      BY <1>1, <2>1, <2>3, <3>1
  <2>4. QED
    BY <2>2, <2>3
<1>5. ASSUME NEW j \in 1..Len(s), j # k PROVE \E i \in 1..Len(r) : r[i] = s[j]
  <2>1. CASE j < k
    <3>1. j \in 1..(Len(s) - 1)
      BY <1>2, <2>1
    <3>2. QED
      BY <1>1, <2>1, <3>1
  <2>2. CASE ~(j < k)
    <3>1. j - 1 \in 1..(Len(s) - 1) /\ ~(j - 1 < k) /\ (j - 1) + 1 = j
      BY <1>2, <1>5, <2>2
    <3>2. QED
      BY <1>1, <3>1
  <2>3. QED
    BY <2>1, <2>2
<1>6. QED
  BY <1>1, <1>3, <1>4, <1>5 DEF Increasing, r

-----------------------------------------------------------------------------
(* The bounded queues                                                      *)

Left(q, e, r) == (ToSet(q) \cup {e}) \ ToSet(r)

LEMMA SetOfSeq ==
    ASSUME NEW q \in Seq(Nat)
    PROVE  \A x : x \in ToSet(q) <=> \E i \in 1..Len(q) : x = q[i]
  BY LenProperties DEF ToSet

\* What Offer makes of a queue: it stays in order and within its size, and what it
\* leaves out it leaves out for a reason.
LEMMA OfferOrder ==
    ASSUME NEW q \in Seq(Nat), Increasing(q), NEW e \in Nat, \A i \in 1..Len(q) : q[i] < e,
           NEW size \in Nat, Len(q) <= size, NEW keep,
           NEW r, r = Offer(q, size, e, keep)
    PROVE  /\ r \in Seq(Nat) /\ Increasing(r) /\ Len(r) <= size
           /\ \A i \in 1..Len(r) : r[i] = e \/ \E j \in 1..Len(q) : r[i] = q[j]
           /\ \/ Len(r) = Len(q) + 1 /\ Left(q, e, r) = {}
              \/ Len(r) = Len(q) /\ Left(q, e, r) # {}
           /\ \A x \in Left(q, e, r) : kind[x] \in keep =>
                 Len(q) = size /\ \A i \in 1..Len(q) : kind[q[i]] \in keep
<1>1. Len(q) \in Nat /\ DOMAIN q = 1..Len(q) /\ \A i \in 1..Len(q) : q[i] \in Nat
  BY LenProperties, ElementOfSeq
<1>0. Len(q) \in Nat
  BY <1>1
<1>2. CASE Len(q) < size
  <2>0. ~(Len(q) >= size)
    BY <1>0, <1>2
  <2>1. r = Append(q, e)
    BY <1>2, <2>0, Zenon DEF Offer
  <2>2. /\ r \in Seq(Nat) /\ Len(r) = Len(q) + 1 /\ Increasing(r)
        /\ \A i \in 1..Len(q) : r[i] = q[i]
        /\ r[Len(q) + 1] = e
    BY <2>1, AppendedOrder
  <2>3. \A i \in 1..Len(r) : i = Len(q) + 1 \/ i \in 1..Len(q)
    BY <1>1, <2>2
  <2>4. \A i \in 1..Len(q) : i \in 1..Len(r)
    BY <1>1, <2>2
  <2>5. Len(q) + 1 \in 1..Len(r)
    BY <1>1, <2>2
  <2>6. ToSet(q) \subseteq ToSet(r) /\ e \in ToSet(r)
    <3>1. \A x : x \in ToSet(r) <=> \E i \in 1..Len(r) : x = r[i]
      BY <2>2, SetOfSeq
    <3>2. e \in ToSet(r)
      BY <2>2, <2>5, <3>1
    <3>3. ASSUME NEW x \in ToSet(q) PROVE x \in ToSet(r)
      <4>1. PICK i \in 1..Len(q) : x = q[i]
        BY SetOfSeq
      <4>2. i \in 1..Len(r) /\ x = r[i]
        BY <2>2, <2>4, <4>1
      <4>3. QED
        BY <3>1, <4>2
    <3>4. QED
      BY <3>2, <3>3
  <2>7. Left(q, e, r) = {}
    BY <2>6 DEF Left
  <2>8. Len(r) <= size
    BY <1>1, <1>2, <2>2
  <2>9. QED
    BY <2>2, <2>3, <2>7, <2>8
<1>3. CASE /\ ~(Len(q) < size) /\ kind[e] \in keep
           /\ \E i \in 1..Len(q) : kind[q[i]] \notin keep
  <2>1. r = Append(RemoveFirstMatch(q, LAMBDA f : kind[f] \notin keep), e)
    <3>1. Len(q) >= size
      BY <1>0, <1>3
    <3>2. \E i \in DOMAIN q : kind[q[i]] \notin keep
      BY <1>1, <1>3
    <3>3. QED
      BY <1>3, <3>1, <3>2, Zenon DEF Offer
  <2>2. PICK k \in 1..Len(q) :
           /\ kind[q[k]] \notin keep
           /\ RemoveFirstMatch(q, LAMBDA f : kind[f] \notin keep) = RemoveAt(q, k)
    BY <1>3, RemovedMatch
  <2> DEFINE p == RemoveAt(q, k)
  <2>3. /\ p \in Seq(Nat) /\ Len(p) = Len(q) - 1 /\ Increasing(p)
        /\ \A i \in 1..Len(p) : \E j \in 1..Len(q) : j # k /\ p[i] = q[j]
        /\ \A j \in 1..Len(q) : j # k => \E i \in 1..Len(p) : p[i] = q[j]
    BY RemovedOrder
  <2>4. r = Append(p, e)
    BY <2>1, <2>2
  <2> HIDE DEF p
  <2>5. \A i \in 1..Len(p) : p[i] < e
    BY <2>3
  <2>6. /\ r \in Seq(Nat) /\ Len(r) = Len(p) + 1 /\ Increasing(r)
        /\ \A i \in 1..Len(p) : r[i] = p[i]
        /\ r[Len(p) + 1] = e
    BY <2>3, <2>4, <2>5, AppendedOrder
  <2>7. Len(r) = Len(q) /\ Len(p) \in Nat
    BY <1>1, <2>3, <2>6, LenProperties
  <2>a. Len(p) \in Nat /\ Len(r) = Len(p) + 1
    BY <2>6, <2>7
  <2>8. \A i \in 1..Len(r) : i = Len(p) + 1 \/ i \in 1..Len(p)
    BY <2>a
  <2>9. \A i \in 1..Len(p) : i \in 1..Len(r)
    BY <2>a
  <2>10. \A i \in 1..Len(r) : r[i] = e \/ \E j \in 1..Len(q) : j # k /\ r[i] = q[j]
    <3>1. \A i \in 1..Len(p) : \E j \in 1..Len(q) : j # k /\ r[i] = q[j]
      BY <2>3, <2>6, ZenonT(30)
    <3>2. \A i \in 1..Len(r) : r[i] = e \/ i \in 1..Len(p)
      BY <2>6, <2>8, Zenon
    <3>3. QED
      BY <3>1, <3>2, Zenon
  <2>11. \A j \in 1..Len(q) : j # k => q[j] # q[k]
    <3>1. \A j \in 1..Len(q) : j # k => j < k \/ k < j
      OBVIOUS
    <3>2. QED
      BY <1>1, <3>1 DEF Increasing
  <2>12. q[k] # e
    BY <1>1
  <2>b. \A i \in 1..Len(r) : r[i] # q[k]
    BY <2>10, <2>11, <2>12, Zenon
  <2>c. \A x : x \in ToSet(r) <=> \E i \in 1..Len(r) : x = r[i]
    BY <2>6, SetOfSeq
  <2>13. q[k] \in ToSet(q) /\ q[k] \notin ToSet(r)
    BY <2>b, <2>c, SetOfSeq, Zenon
  <2>14. Left(q, e, r) # {}
    BY <2>13 DEF Left
  <2>15. Len(p) + 1 \in 1..Len(r)
    BY <2>6, <2>7
  <2>16. e \in ToSet(r)
    BY <2>6, <2>15, SetOfSeq
  <2>17. \A j \in 1..Len(q) : j # k => q[j] \in ToSet(r)
    BY <2>3, <2>6, <2>9, SetOfSeq
  <2>18. ASSUME NEW x \in Left(q, e, r) PROVE x = q[k]
    <3>1. x \in ToSet(q) /\ x \notin ToSet(r)
      BY <2>16, <2>18 DEF Left
    <3>2. PICK j \in 1..Len(q) : x = q[j]
      BY <3>1, SetOfSeq
    <3>3. QED
      BY <2>17, <3>1, <3>2
  <2>19. Len(r) <= size
    BY <2>7
  <2>20. QED
    BY <2>2, <2>6, <2>7, <2>10, <2>14, <2>18, <2>19
<1>4. CASE /\ ~(Len(q) < size)
           /\ ~(kind[e] \in keep /\ \E i \in 1..Len(q) : kind[q[i]] \notin keep)
  <2>1. r = q
    BY <1>1, <1>4 DEF Offer
  <2>2. e \notin ToSet(r) /\ Left(q, e, r) = {e}
    BY <1>1, <2>1, SetOfSeq DEF Left
  <2>3. Len(q) = size
    <3>1. Len(q) \in Nat /\ size \in Nat /\ Len(q) <= size /\ ~(Len(q) < size)
      BY <1>0, <1>4, Zenon
    <3>2. QED
      BY <3>1
  <2>4. QED
    BY <1>4, <2>1, <2>2, <2>3
<1>5. QED
  BY <1>2, <1>3, <1>4

-----------------------------------------------------------------------------
(* The inductive invariant                                                 *)

\* The queues hold numbers in order, within their sizes.
QueuesOK ==
    /\ kind \in Seq(EventKinds)
    /\ starting \in Seq(Nat) /\ Increasing(starting)
    /\ \A i \in 1..Len(starting) : starting[i] <= Len(kind)
    /\ live \in Seq(Nat) /\ Increasing(live) /\ Len(live) <= LiveSize
    /\ queue \in Seq(Nat) /\ Increasing(queue) /\ Len(queue) <= QueueSize
    /\ seen \in Nat
    /\ job \in [event : Nat, step : Nat, attempt : Nat]
    /\ \E S : stored \in Seq(S)

\* The event n was delivered before every event that still is to be.
Before(n) == n <= Len(kind) /\ \A i \in 1..Len(starting) : n < starting[i]

LiveAhead ==
    /\ Before(seen)
    /\ \A i \in 1..Len(live) : Before(live[i]) /\ seen < live[i]

QueueAhead ==
    /\ \A i \in 1..Len(queue) : Before(queue[i])
    /\ worker = "writing" =>
          Before(job.event) /\ \A i \in 1..Len(queue) : job.event < queue[i]

StoredAhead ==
    /\ \A i \in 1..Len(stored) :
          /\ stored[i].event \in Nat /\ Before(stored[i].event)
          /\ \A j \in 1..Len(queue) : stored[i].event < queue[j]
          /\ worker = "writing" => stored[i].event <= job.event
    /\ \A i, j \in 1..Len(stored) : i < j => stored[i].event <= stored[j].event

Counted == count = Len(queue) + IF worker = "writing" THEN 1 ELSE 0

DeliveryInv == QueuesOK /\ LiveAhead /\ QueueAhead /\ StoredAhead /\ Counted

LEMMA DeliveryStarts == DeliveryInit => DeliveryInv
<1> SUFFICES ASSUME DeliveryInit PROVE DeliveryInv
  OBVIOUS
<1>1. /\ <<>> \in Seq(EventKinds) /\ <<>> \in Seq(Nat) /\ Len(<<>>) = 0 /\ 1..0 = {}
      /\ LiveSize \in Nat /\ QueueSize \in Nat
  BY EmptySeq, DeliveryAssumption
<1>2. QueuesOK
  <2>1. Increasing(<<>>)
    BY <1>1 DEF Increasing
  <2>2. QED
    BY <1>1, <2>1 DEF DeliveryInit, QueuesOK, NoJob
<1>3. LiveAhead /\ QueueAhead /\ StoredAhead /\ Counted
  BY <1>1 DEF DeliveryInit, LiveAhead, QueueAhead, StoredAhead, Counted, Before
<1>4. QED
  BY <1>2, <1>3 DEF DeliveryInv

LEMMA InvHolds == DeliveryInv => WritesKept
<1> SUFFICES ASSUME DeliveryInv PROVE WritesKept
  OBVIOUS
<1>1. DOMAIN stored = 1..Len(stored) /\ DOMAIN live = 1..Len(live) /\ DOMAIN queue = 1..Len(queue)
  BY LenProperties DEF DeliveryInv, QueuesOK
<1>2. WritesAccounted
  BY DEF DeliveryInv, Counted, WritesAccounted
<1>3. StoredInOrder
  BY <1>1 DEF DeliveryInv, StoredAhead, StoredInOrder
<1>4. LiveInOrder
  BY <1>1 DEF DeliveryInv, QueuesOK, LiveAhead, LiveInOrder, Increasing
<1>5. QED
  BY <1>2, <1>3, <1>4 DEF WritesKept, InOrder

\* An event delivered stays delivered before the rest.
LEMMA BeforeKept ==
    ASSUME QueuesOK, QueuesOK', Len(kind') >= Len(kind),
           \A i \in 1..Len(starting') :
              starting'[i] > Len(kind) \/ \E j \in 1..Len(starting) : starting'[i] = starting[j]
    PROVE  \A n \in Nat : Before(n) => Before(n)'
<1>1. Len(kind) \in Nat /\ Len(kind') \in Nat
  BY LenProperties DEF QueuesOK
<1>2. \A i \in 1..Len(starting') : starting'[i] \in Nat
  BY ElementOfSeq DEF QueuesOK
<1>3. QED
  BY <1>1, <1>2, SMTT(30) DEF Before

\* What the streams, the queue and the worker hold, when only the emitters moved.
LEMMA EmittersMove ==
    ASSUME DeliveryInv, QueuesOK', UNCHANGED <<streamVars, writeVars>>,
           \A n \in Nat : Before(n) => Before(n)'
    PROVE  DeliveryInv'
<1>1. /\ live' = live /\ seen' = seen /\ queue' = queue /\ worker' = worker
      /\ job' = job /\ stored' = stored /\ count' = count
  BY DEF streamVars, writeVars
<1>2. /\ \A i \in 1..Len(live) : live[i] \in Nat
      /\ \A i \in 1..Len(queue) : queue[i] \in Nat
      /\ job.event \in Nat /\ seen \in Nat
  BY ElementOfSeq DEF DeliveryInv, QueuesOK
<1>3. LiveAhead'
  BY <1>1, <1>2 DEF DeliveryInv, LiveAhead
<1>4. QueueAhead'
  BY <1>1, <1>2 DEF DeliveryInv, QueueAhead
<1>5. StoredAhead'
  BY <1>1, <1>2 DEF DeliveryInv, StoredAhead
<1>6. Counted'
  BY <1>1 DEF DeliveryInv, Counted
<1>7. QED
  BY <1>3, <1>4, <1>5, <1>6 DEF DeliveryInv

LEMMA EmitKeeps == ASSUME DeliveryInv, NEW k \in EventKinds, Emit(k) PROVE DeliveryInv'
<1>1. Len(kind) \in Nat /\ kind' \in Seq(EventKinds) /\ Len(kind') = Len(kind) + 1
  BY AppendProperties, LenProperties DEF DeliveryInv, QueuesOK, Emit
<1>a. /\ starting \in Seq(Nat) /\ Increasing(starting) /\ starting' = Append(starting, Len(kind) + 1)
      /\ \A i \in 1..Len(starting) : starting[i] <= Len(kind)
  BY DEF DeliveryInv, QueuesOK, Emit
<1>b. \A i \in 1..Len(starting) : starting[i] \in Nat
  BY <1>a, ElementOfSeq
<1>2. \A i \in 1..Len(starting) : starting[i] < Len(kind) + 1 /\ starting[i] \in Nat
  BY <1>1, <1>a, <1>b
<1>c. Len(kind) + 1 \in Nat
  BY <1>1
<1>3. /\ starting' \in Seq(Nat) /\ Len(starting') = Len(starting) + 1 /\ Increasing(starting')
      /\ \A i \in 1..Len(starting) : starting'[i] = starting[i]
      /\ starting'[Len(starting) + 1] = Len(kind) + 1
  BY <1>2, <1>a, <1>c, AppendedOrder
<1>4. \A i \in 1..Len(starting') : i \in 1..Len(starting) \/ i = Len(starting) + 1
  <2>1. Len(starting) \in Nat
    BY LenProperties DEF DeliveryInv, QueuesOK
  <2>2. QED
    BY <1>3, <2>1
<1>5. \A i \in 1..Len(starting') : starting'[i] <= Len(kind') /\
        (starting'[i] > Len(kind) \/ \E j \in 1..Len(starting) : starting'[i] = starting[j])
  <2>1. ASSUME NEW i \in 1..Len(starting'), i \in 1..Len(starting)
        PROVE  starting'[i] = starting[i] /\ starting'[i] <= Len(kind')
    BY <1>1, <1>2, <1>3, <2>1
  <2>2. ASSUME NEW i \in 1..Len(starting'), i = Len(starting) + 1
        PROVE  starting'[i] <= Len(kind') /\ starting'[i] > Len(kind)
    BY <1>1, <1>3, <2>2
  <2>3. QED
    BY <1>4, <2>1, <2>2
<1>6. UNCHANGED <<streamVars, writeVars>>
  BY DEF Emit
<1>7. QueuesOK'
  BY <1>1, <1>3, <1>5, <1>6 DEF DeliveryInv, QueuesOK, streamVars, writeVars
<1>8. \A n \in Nat : Before(n) => Before(n)'
  BY <1>1, <1>5, <1>7, BeforeKept DEF DeliveryInv
<1>9. QED
  BY <1>6, <1>7, <1>8, EmittersMove

LEMMA CancelKeeps == ASSUME DeliveryInv, NEW e, CancelEmit(e) PROVE DeliveryInv'
<1>1. PICK k \in 1..Len(starting) : starting' = RemoveAt(starting, k)
  BY LenProperties DEF DeliveryInv, QueuesOK, CancelEmit
<1>2. /\ starting' \in Seq(Nat) /\ Increasing(starting')
      /\ \A i \in 1..Len(starting') : \E j \in 1..Len(starting) : starting'[i] = starting[j]
  BY <1>1, RemovedOrder DEF DeliveryInv, QueuesOK
<1>3. kind' = kind /\ UNCHANGED <<streamVars, writeVars>> /\ Len(kind) \in Nat
  BY LenProperties DEF CancelEmit, DeliveryInv, QueuesOK
<1>4. QueuesOK'
  BY <1>2, <1>3 DEF DeliveryInv, QueuesOK, streamVars, writeVars
<1>5. \A n \in Nat : Before(n) => Before(n)'
  BY <1>2, <1>3, <1>4, BeforeKept DEF DeliveryInv
<1>6. QED
  BY <1>3, <1>4, <1>5, EmittersMove

\* The event that is delivered comes after what is in the queues.
LEMMA DeliverMoves ==
    ASSUME DeliveryInv, NEW e, Deliver(e)
    PROVE  /\ e \in Nat /\ kind' = kind
           /\ starting' \in Seq(Nat) /\ Increasing(starting')
           /\ \A i \in 1..Len(starting') : starting'[i] <= Len(kind')
           /\ \A n \in Nat : Before(n) => Before(n)' /\ n < e
           /\ Before(e)'
<1>1. kind' = kind /\ starting # <<>> /\ e = Head(starting) /\ starting' = Tail(starting)
  BY DEF Deliver
<1>2. /\ e \in Nat /\ e = starting[1] /\ Len(starting) \in Nat \ {0}
      /\ starting' \in Seq(Nat) /\ Increasing(starting')
      /\ \A i \in 1..Len(starting') : i + 1 \in 1..Len(starting) /\ starting'[i] = starting[i + 1]
      /\ \A i \in 1..Len(starting') : e < starting'[i]
  BY <1>1, TailOrder DEF DeliveryInv, QueuesOK
<1>3. 1 \in 1..Len(starting)
  BY <1>2
<1>4. \A i \in 1..Len(starting') : starting'[i] <= Len(kind')
  BY <1>1, <1>2 DEF DeliveryInv, QueuesOK
<1>5. ASSUME NEW n \in Nat, Before(n) PROVE Before(n)' /\ n < e
  BY <1>1, <1>2, <1>3, <1>5 DEF Before
<1>6. Before(e)'
  BY <1>1, <1>2, <1>3 DEF Before, DeliveryInv, QueuesOK
<1>7. QED
  BY <1>1, <1>2, <1>4, <1>5, <1>6

LEMMA DeliverKeeps == ASSUME DeliveryInv, NEW e, Deliver(e) PROVE DeliveryInv'
<1>1. /\ e \in Nat /\ kind' = kind
      /\ starting' \in Seq(Nat) /\ Increasing(starting')
      /\ \A i \in 1..Len(starting') : starting'[i] <= Len(kind')
      /\ \A n \in Nat : Before(n) => Before(n)' /\ n < e
      /\ Before(e)'
  BY DeliverMoves
<1>2. /\ live' = Offer(live, LiveSize, e, NonLossyLive) /\ seen' = seen
  BY DEF Deliver, Show
<1>a. /\ live \in Seq(Nat) /\ Increasing(live) /\ Len(live) <= LiveSize
      /\ queue \in Seq(Nat) /\ Increasing(queue) /\ Len(queue) <= QueueSize
      /\ seen \in Nat
  BY DEF DeliveryInv, QueuesOK
<1>b. /\ \A i \in 1..Len(live) : live[i] \in Nat /\ Before(live[i]) /\ seen < live[i]
      /\ \A i \in 1..Len(queue) : queue[i] \in Nat /\ Before(queue[i])
      /\ Before(seen)
  BY <1>a, ElementOfSeq DEF DeliveryInv, LiveAhead, QueueAhead
<1>c. /\ \A i \in 1..Len(live) : live[i] < e
      /\ \A i \in 1..Len(queue) : queue[i] < e
      /\ seen < e
  BY <1>1, <1>a, <1>b
<1>3. seen \in Nat /\ seen < e /\ Before(seen)'
  BY <1>1, <1>2, <1>a, <1>b, <1>c DEF Before
<1>4. LiveSize \in Nat /\ QueueSize \in Nat
  BY DeliveryAssumption
<1>5. /\ live' \in Seq(Nat) /\ Increasing(live') /\ Len(live') <= LiveSize
      /\ \A i \in 1..Len(live') : live'[i] = e \/ \E j \in 1..Len(live) : live'[i] = live[j]
  BY <1>1, <1>2, <1>4, <1>a, <1>c, OfferOrder
<1>6. LiveAhead'
  <2>1. ASSUME NEW i \in 1..Len(live') PROVE (Before(live[i]) /\ seen < live[i])'
    <3>1. CASE live'[i] = e
      BY <1>1, <1>2, <1>3, <3>1 DEF Before
    <3>2. CASE live'[i] # e
      <4>1. PICK j \in 1..Len(live) : live'[i] = live[j]
        BY <1>5, <3>2
      <4>2. PICK n \in Nat : n = live[j]
        BY <1>b
      <4>3. Before(n)' /\ seen < n
        BY <1>1, <1>b, <4>2
      <4>4. QED
        BY <1>2, <4>1, <4>2, <4>3 DEF Before
    <3>3. QED
      BY <3>1, <3>2
  <2>2. QED
    BY <1>2, <1>3, <2>1 DEF LiveAhead, Before
<1>7. CASE UNCHANGED writeVars
  <2>1. /\ queue' = queue /\ worker' = worker /\ job' = job /\ stored' = stored /\ count' = count
    BY <1>7 DEF writeVars
  <2>2. QueuesOK'
    BY <1>1, <1>2, <1>5, <2>1 DEF DeliveryInv, QueuesOK
  <2>3. QueueAhead'
    BY <1>1, <1>b, <2>1, <2>2 DEF DeliveryInv, QueuesOK, QueueAhead, Before
  <2>4. StoredAhead'
    BY <1>1, <2>1 DEF DeliveryInv, StoredAhead
  <2>5. Counted'
    BY <2>1 DEF DeliveryInv, Counted
  <2>6. QED
    BY <1>6, <2>2, <2>3, <2>4, <2>5 DEF DeliveryInv
<1>8. CASE Enqueue(e)
  <2>1. /\ queue' = Offer(queue, QueueSize, e, NonDroppable)
        /\ count' = IF Left(queue, e, queue') = {} THEN count + 1 ELSE count
        /\ worker' = "writing" <=> worker = "writing"
        /\ job' = job /\ stored' = stored
    BY <1>8 DEF Enqueue, EnsureWorker, Left
  <2>2. /\ queue' \in Seq(Nat) /\ Increasing(queue') /\ Len(queue') <= QueueSize
        /\ \A i \in 1..Len(queue') : queue'[i] = e \/ \E j \in 1..Len(queue) : queue'[i] = queue[j]
        /\ \/ Len(queue') = Len(queue) + 1 /\ Left(queue, e, queue') = {}
           \/ Len(queue') = Len(queue) /\ Left(queue, e, queue') # {}
    <3>1. queue' = Offer(queue, QueueSize, e, NonDroppable)
      BY <2>1
    <3>2. QED
      <4>1. e \in Nat /\ \A i \in 1..Len(queue) : queue[i] < e
        BY <1>1, <1>c
      <4>2. queue \in Seq(Nat) /\ Increasing(queue) /\ Len(queue) <= QueueSize /\ QueueSize \in Nat
        BY <1>4, <1>a
      <4>3. QED
        BY <3>1, <4>1, <4>2, OfferOrder
  <2>3. QueuesOK'
    BY <1>1, <1>2, <1>5, <2>1, <2>2 DEF DeliveryInv, QueuesOK
  <2>4. Len(queue) \in Nat
    BY LenProperties DEF DeliveryInv, QueuesOK
  <2>5. Counted'
    BY <2>1, <2>2, <2>4 DEF DeliveryInv, Counted
  <2>6. job.event \in Nat
    BY DEF DeliveryInv, QueuesOK
  <2>7. QueueAhead'
    <3>1. ASSUME NEW i \in 1..Len(queue')
          PROVE  Before(queue[i])' /\ (worker = "writing" => job.event < queue'[i])
      <4>1. CASE queue'[i] = e
        BY <1>1, <2>6, <4>1 DEF DeliveryInv, QueueAhead, Before
      <4>2. CASE queue'[i] # e
        <5>1. PICK j \in 1..Len(queue) : queue'[i] = queue[j]
          BY <2>2, <4>2
        <5>2. PICK n \in Nat : n = queue[j]
          BY <1>b
        <5>3. Before(n)' /\ (worker = "writing" => job.event < n)
          BY <1>1, <1>b, <5>2 DEF DeliveryInv, QueueAhead
        <5>4. QED
          BY <5>1, <5>2, <5>3 DEF Before
      <4>3. QED
        BY <4>1, <4>2
    <3>2. worker = "writing" => Before(job.event)'
      BY <1>1, <2>1, <2>6 DEF DeliveryInv, QueueAhead
    <3>3. QED
      BY <2>1, <3>1, <3>2 DEF QueueAhead
  <2>8. StoredAhead'
    <3>1. ASSUME NEW i \in 1..Len(stored), NEW j \in 1..Len(queue')
          PROVE  stored[i].event < queue'[j]
      <4>1. CASE queue'[j] = e
        BY <1>1, <4>1 DEF DeliveryInv, StoredAhead
      <4>2. CASE queue'[j] # e
        <5>1. PICK k \in 1..Len(queue) : queue'[j] = queue[k]
          BY <2>2, <4>2
        <5>2. QED
          BY <5>1 DEF DeliveryInv, StoredAhead
      <4>3. QED
        BY <4>1, <4>2
    <3>2. \A i \in 1..Len(stored) : stored[i].event \in Nat /\ Before(stored[i].event)'
      BY <1>1, <2>1 DEF DeliveryInv, StoredAhead
    <3>3. QED
      BY <2>1, <3>1, <3>2 DEF DeliveryInv, StoredAhead
  <2>9. QED
    BY <1>6, <2>3, <2>5, <2>7, <2>8 DEF DeliveryInv
<1>9. QED
  BY <1>7, <1>8 DEF Deliver

LEMMA YieldKeeps == ASSUME DeliveryInv, Yield PROVE DeliveryInv'
<1>1. /\ live # <<>> /\ seen' = Head(live) /\ live' = Tail(live)
      /\ kind' = kind /\ starting' = starting
      /\ queue' = queue /\ worker' = worker /\ job' = job /\ stored' = stored /\ count' = count
  BY DEF Yield, writeVars
<1>2. live \in Seq(Nat) /\ Increasing(live) /\ Len(live) <= LiveSize /\ LiveSize \in Nat
  BY DeliveryAssumption DEF DeliveryInv, QueuesOK
<1>3. /\ seen' \in Nat /\ seen' = live[1] /\ Len(live) \in Nat \ {0}
      /\ live' \in Seq(Nat) /\ Len(live') = Len(live) - 1 /\ Increasing(live')
      /\ \A i \in 1..Len(live') : i + 1 \in 1..Len(live) /\ live'[i] = live[i + 1]
      /\ \A i \in 1..Len(live') : seen' < live'[i]
  BY <1>1, <1>2, TailOrder
<1>4. Len(live') <= LiveSize /\ 1 \in 1..Len(live)
  BY <1>2, <1>3
<1>5. QueuesOK'
  BY <1>1, <1>3, <1>4 DEF DeliveryInv, QueuesOK
<1>6. LiveAhead'
  <2>1. \A i \in 1..Len(live) : Before(live[i])
    BY DEF DeliveryInv, LiveAhead
  <2>2. Before(seen)'
    BY <1>1, <1>3, <1>4, <2>1 DEF Before
  <2>3. ASSUME NEW i \in 1..Len(live') PROVE Before(live[i])'
    BY <1>1, <1>3, <2>1 DEF Before
  <2>4. QED
    BY <1>3, <2>2, <2>3 DEF LiveAhead
<1>7. QueueAhead' /\ StoredAhead' /\ Counted'
  BY <1>1 DEF DeliveryInv, QueueAhead, StoredAhead, Counted, Before
<1>8. QED
  BY <1>5, <1>6, <1>7 DEF DeliveryInv

LEMMA TakeKeeps == ASSUME DeliveryInv, Take PROVE DeliveryInv'
<1>1. /\ worker = "getting" /\ queue # <<>> /\ worker' = "writing"
      /\ job' = [event |-> Head(queue), step |-> 1, attempt |-> 1] /\ queue' = Tail(queue)
      /\ kind' = kind /\ starting' = starting /\ live' = live /\ seen' = seen
      /\ stored' = stored /\ count' = count
  BY DEF Take, streamVars
<1>2. queue \in Seq(Nat) /\ Increasing(queue) /\ Len(queue) <= QueueSize /\ QueueSize \in Nat
  BY DeliveryAssumption DEF DeliveryInv, QueuesOK
<1>3. /\ job'.event \in Nat /\ job'.event = queue[1] /\ Len(queue) \in Nat \ {0}
      /\ queue' \in Seq(Nat) /\ Len(queue') = Len(queue) - 1 /\ Increasing(queue')
      /\ \A i \in 1..Len(queue') : i + 1 \in 1..Len(queue) /\ queue'[i] = queue[i + 1]
      /\ \A i \in 1..Len(queue') : job'.event < queue'[i]
  BY <1>1, <1>2, TailOrder
<1>4. Len(queue') <= QueueSize /\ 1 \in 1..Len(queue)
  BY <1>2, <1>3
<1>5. QueuesOK'
  <2>1. job' \in [event : Nat, step : Nat, attempt : Nat]
    BY <1>1, <1>3
  <2>2. QED
    BY <1>1, <1>3, <1>4, <2>1 DEF DeliveryInv, QueuesOK
<1>6. \A i \in 1..Len(queue) : Before(queue[i])
  BY DEF DeliveryInv, QueueAhead
<1>7. QueueAhead'
  <2>1. Before(job.event)'
    BY <1>1, <1>3, <1>4, <1>6 DEF Before
  <2>2. ASSUME NEW i \in 1..Len(queue') PROVE Before(queue[i])'
    BY <1>1, <1>3, <1>6 DEF Before
  <2>3. QED
    BY <1>3, <2>1, <2>2 DEF QueueAhead
<1>8. StoredAhead'
  <2>1. ASSUME NEW i \in 1..Len(stored)
        PROVE  /\ stored[i].event \in Nat /\ Before(stored[i].event)
               /\ stored[i].event <= job'.event
               /\ \A j \in 1..Len(queue') : stored[i].event < queue'[j]
    <3>1. stored[i].event \in Nat /\ Before(stored[i].event)
      BY DEF DeliveryInv, StoredAhead
    <3>2. \A j \in 1..Len(queue) : stored[i].event < queue[j]
      BY DEF DeliveryInv, StoredAhead
    <3>3. stored[i].event < job'.event
      BY <1>3, <1>4, <3>2
    <3>4. QED
      BY <1>3, <3>1, <3>2, <3>3
  <2>2. \A i, j \in 1..Len(stored) : i < j => stored[i].event <= stored[j].event
    BY DEF DeliveryInv, StoredAhead
  <2>3. QED
    BY <1>1, <2>1, <2>2 DEF StoredAhead, Before
<1>9. LiveAhead' /\ Counted'
  BY <1>1, <1>3 DEF DeliveryInv, LiveAhead, Counted, Before
<1>10. QED
  BY <1>5, <1>7, <1>8, <1>9 DEF DeliveryInv

\* The worker comes or goes, with nothing in hand.
LEMMA WorkerKeeps == ASSUME DeliveryInv, IdleOut \/ Leave PROVE DeliveryInv'
<1>1. /\ worker # "writing" /\ worker' # "writing"
      /\ kind' = kind /\ starting' = starting /\ live' = live /\ seen' = seen
      /\ queue' = queue /\ job' = job /\ stored' = stored /\ count' = count
  BY DEF IdleOut, Leave, streamVars
<1>2. QED
  BY <1>1 DEF DeliveryInv, QueuesOK, LiveAhead, QueueAhead, StoredAhead, Counted, Before

\* A step of a write: a row is committed or not, and the worker goes on or is done.
LEMMA WritingKeeps ==
    ASSUME DeliveryInv, worker = "writing", WritingOnly,
           stored' = stored \/ stored' = Append(stored, Row),
           \/ Finish
           \/ /\ worker' = worker /\ count' = count /\ job'.event = job.event
              /\ job' \in [event : Nat, step : Nat, attempt : Nat]
    PROVE  DeliveryInv'
<1>1. /\ kind' = kind /\ starting' = starting /\ live' = live /\ seen' = seen /\ queue' = queue
  BY DEF WritingOnly, streamVars
<1>2. Len(queue) \in Nat /\ count = Len(queue) + 1
  BY LenProperties DEF DeliveryInv, QueuesOK, Counted
<1>3. /\ job' \in [event : Nat, step : Nat, attempt : Nat]
      /\ worker' = "writing" => job'.event = job.event
      /\ Counted'
  <2>1. CASE Finish
    BY <1>1, <1>2, <2>1 DEF Finish, NoJob, Counted
  <2>2. CASE /\ worker' = worker /\ count' = count /\ job'.event = job.event
             /\ job' \in [event : Nat, step : Nat, attempt : Nat]
    BY <1>1, <1>2, <2>2 DEF Counted
  <2>3. QED
    BY <2>1, <2>2
<1>4. /\ job.event \in Nat /\ Before(job.event)
      /\ \A i \in 1..Len(queue) : job.event < queue[i]
  BY DEF DeliveryInv, QueuesOK, QueueAhead
<1>5. /\ \E S : stored' \in Seq(S)
      /\ \A i \in 1..Len(stored') :
            \/ i \in 1..Len(stored) /\ stored'[i] = stored[i]
            \/ i = Len(stored) + 1 /\ stored'[i] = Row
      /\ Len(stored) \in Nat
  <2>1. PICK S : stored \in Seq(S)
    BY DEF DeliveryInv, QueuesOK
  <2>2. Len(stored) \in Nat
    BY <2>1, LenProperties
  <2>3. CASE stored' = stored
    BY <2>1, <2>2, <2>3
  <2>4. CASE stored' = Append(stored, Row)
    <3>1. stored \in Seq(S \cup {Row}) /\ Row \in S \cup {Row}
      BY <2>1, SeqMonotonic
    <3>2. /\ stored' \in Seq(S \cup {Row}) /\ Len(stored') = Len(stored) + 1
          /\ \A i \in 1..Len(stored) : stored'[i] = stored[i]
          /\ stored'[Len(stored) + 1] = Row
      BY <2>4, <3>1, AppendProperties
    <3>3. \A i \in 1..Len(stored') : i \in 1..Len(stored) \/ i = Len(stored) + 1
      BY <2>2, <3>2
    <3>4. QED
      BY <2>2, <3>2, <3>3
  <2>5. QED
    BY <2>3, <2>4
<1>6. Row.event = job.event
  BY DEF Row
<1>7. QueuesOK'
  BY <1>1, <1>3, <1>5 DEF DeliveryInv, QueuesOK
<1>8. LiveAhead' /\ QueueAhead'
  BY <1>1, <1>3, <1>4 DEF DeliveryInv, LiveAhead, QueueAhead, Before
<1>9. ASSUME NEW i \in 1..Len(stored')
      PROVE  /\ stored'[i].event \in Nat /\ stored'[i].event <= job.event
             /\ \A j \in 1..Len(queue) : stored'[i].event < queue[j]
             /\ Before(stored'[i].event)
  <2>1. CASE i \in 1..Len(stored) /\ stored'[i] = stored[i]
    BY <2>1 DEF DeliveryInv, StoredAhead
  <2>2. CASE i = Len(stored) + 1 /\ stored'[i] = Row
    BY <1>4, <1>6, <2>2
  <2>3. QED
    BY <1>5, <2>1, <2>2
<1>10. ASSUME NEW i \in 1..Len(stored'), NEW j \in 1..Len(stored'), i < j
       PROVE  stored'[i].event <= stored'[j].event
  <2>1. i \in 1..Len(stored) /\ stored'[i] = stored[i]
    BY <1>5, <1>10
  <2>2. CASE j \in 1..Len(stored) /\ stored'[j] = stored[j]
    BY <1>10, <2>1, <2>2 DEF DeliveryInv, StoredAhead
  <2>3. CASE j = Len(stored) + 1 /\ stored'[j] = Row
    BY <1>6, <1>9, <2>3
  <2>4. QED
    BY <1>5, <2>2, <2>3
<1>11. StoredAhead'
  BY <1>1, <1>3, <1>9, <1>10 DEF StoredAhead, Before
<1>12. QED
  BY <1>3, <1>7, <1>8, <1>11 DEF DeliveryInv

LEMMA WorkKeeps ==
    ASSUME DeliveryInv, NothingToWrite \/ Commit \/ CommitUnsure \/ FailTransient \/ FailForGood
    PROVE  DeliveryInv'
<1>1. worker = "writing" /\ WritingOnly /\ (stored' = stored \/ stored' = Append(stored, Row))
  BY DEF NothingToWrite, Commit, CommitUnsure, FailTransient, FailForGood
<1>2. job \in [event : Nat, step : Nat, attempt : Nat]
  BY DEF DeliveryInv, QueuesOK
<1>3. \/ Finish
      \/ /\ job' = [job EXCEPT !.step = @ + 1] \/ job' = [job EXCEPT !.step = 1, !.attempt = @ + 1]
         /\ worker' = worker /\ count' = count
  BY DEF NothingToWrite, Commit, CommitUnsure, FailTransient, FailForGood, Retry
<1>4. \/ Finish
      \/ /\ worker' = worker /\ count' = count /\ job'.event = job.event
         /\ job' \in [event : Nat, step : Nat, attempt : Nat]
  <2>1. CASE job' = [job EXCEPT !.step = @ + 1]
    <3>1. job' \in [event : Nat, step : Nat, attempt : Nat] /\ job'.event = job.event
      BY <1>2, <2>1
    <3>2. QED
      BY <1>3, <3>1
  <2>2. CASE job' = [job EXCEPT !.step = 1, !.attempt = @ + 1]
    <3>a. job.attempt + 1 \in Nat /\ 1 \in Nat
      BY <1>2
    <3>b. job' = [event |-> job.event, step |-> 1, attempt |-> job.attempt + 1]
      BY <1>2, <2>2
    <3>1. job' \in [event : Nat, step : Nat, attempt : Nat] /\ job'.event = job.event
      BY <1>2, <3>a, <3>b
    <3>2. QED
      BY <1>3, <3>1
  <2>3. QED
    BY <1>3, <2>1, <2>2
<1>5. QED
  BY <1>1, <1>4, WritingKeeps

-----------------------------------------------------------------------------
(* The theorems                                                            *)

LEMMA DeliveryStep ==
    ASSUME DeliveryInv, [DeliveryNext]_deliveryVars PROVE DeliveryInv'
<1>1. CASE Emits
  BY <1>1, EmitKeeps DEF Emits
<1>2. CASE Delivers
  BY <1>2, DeliverKeeps DEF Delivers
<1>3. CASE \E e \in 1..MaxEvents : CancelEmit(e)
  BY <1>3, CancelKeeps
<1>4. CASE Sent \/ UNCHANGED deliveryVars
  BY <1>4 DEF Sent, deliveryVars, streamVars, writeVars, DeliveryInv, QueuesOK, LiveAhead,
      QueueAhead, StoredAhead, Counted, Before
<1>5. CASE Yield
  BY <1>5, YieldKeeps
<1>6. CASE Take
  BY <1>6, TakeKeeps
<1>7. CASE IdleOut \/ Leave
  BY <1>7, WorkerKeeps
<1>8. CASE NothingToWrite \/ Commit \/ CommitUnsure \/ FailTransient \/ FailForGood
  BY <1>8, WorkKeeps
<1>9. QED
  BY <1>1, <1>2, <1>3, <1>4, <1>5, <1>6, <1>7, <1>8 DEF DeliveryNext, Works

\* The queues of the emitter hold the events in the order they were emitted, within
\* their sizes, and every row is of an event that came before all that is queued
\* (api/events.py, api/sse.py, api/db_subscriber.py).
THEOREM DeliveryInvariant == DeliverySpec => []DeliveryInv
<1>1. DeliveryInit => DeliveryInv
  BY DeliveryStarts
<1>2. DeliveryInv /\ [DeliveryNext]_deliveryVars => DeliveryInv'
  BY DeliveryStep
<1>3. QED
  BY <1>1, <1>2, PTL DEF DeliverySpec

\* The count a shutdown waits for is what is queued or being written, and neither the
\* rows nor the stream ever go back or overtake (PendingWrites, _worker and the two
\* _subscriber functions).
THEOREM DeliveryKeepsWrites == DeliverySpec => []WritesKept
<1>1. DeliveryInv => WritesKept
  BY InvHolds
<1>2. QED
  BY <1>1, DeliveryInvariant, PTL

LEMMA DropsStep ==
    ASSUME DeliveryInv, [DeliveryNext]_deliveryVars
    PROVE  /\ \A e \in refused' \ refused :
                kind[e] \in NonDroppable =>
                    Len(queue) = QueueSize /\ \A i \in DOMAIN queue : kind[queue[i]] \in NonDroppable
           /\ \A e \in DOMAIN kind :
                Deliver(e) /\ kind[e] \in NonLossyLive /\ e \notin ToSet(live') =>
                    Len(live) = LiveSize /\ \A i \in DOMAIN live : kind[live[i]] \in NonLossyLive
<1>1. /\ live \in Seq(Nat) /\ Increasing(live) /\ Len(live) <= LiveSize
      /\ queue \in Seq(Nat) /\ Increasing(queue) /\ Len(queue) <= QueueSize
      /\ LiveSize \in Nat /\ QueueSize \in Nat
  BY DeliveryAssumption DEF DeliveryInv, QueuesOK
<1>2. DOMAIN live = 1..Len(live) /\ DOMAIN queue = 1..Len(queue)
  BY <1>1, LenProperties
<1>3. ASSUME NEW e, Deliver(e)
      PROVE  /\ e \in Nat
             /\ \A i \in 1..Len(live) : live[i] < e
             /\ \A i \in 1..Len(queue) : queue[i] < e
  <2>1. e \in Nat /\ \A n \in Nat : Before(n) => n < e
    BY <1>3, DeliverMoves
  <2>2. /\ \A i \in 1..Len(live) : live[i] \in Nat /\ Before(live[i])
        /\ \A i \in 1..Len(queue) : queue[i] \in Nat /\ Before(queue[i])
    BY <1>1, ElementOfSeq DEF DeliveryInv, LiveAhead, QueueAhead
  <2>3. QED
    BY <2>1, <2>2
<1>4. ASSUME NEW e, Deliver(e), kind[e] \in NonLossyLive, e \notin ToSet(live')
      PROVE  Len(live) = LiveSize /\ \A i \in DOMAIN live : kind[live[i]] \in NonLossyLive
  <2>1. live' = Offer(live, LiveSize, e, NonLossyLive)
    BY <1>4 DEF Deliver, Show
  <2>2. e \in Nat /\ \A i \in 1..Len(live) : live[i] < e
    BY <1>3, <1>4
  <2>3. \A x \in Left(live, e, live') : kind[x] \in NonLossyLive =>
          Len(live) = LiveSize /\ \A i \in 1..Len(live) : kind[live[i]] \in NonLossyLive
    BY <1>1, <2>1, <2>2, OfferOrder
  <2>4. e \in Left(live, e, live')
    BY <1>4 DEF Left
  <2>5. QED
    BY <1>2, <1>4, <2>3, <2>4
<1>5. ASSUME NEW x \in refused' \ refused, kind[x] \in NonDroppable
      PROVE  Len(queue) = QueueSize /\ \A i \in DOMAIN queue : kind[queue[i]] \in NonDroppable
  <2>1. refused' # refused
    OBVIOUS
  <2>2. Delivers
    BY <2>1 DEF DeliveryNext, deliveryVars, writeVars, Emits, Emit, CancelEmit, Sent, Yield, Take,
        IdleOut, Leave, Works, NothingToWrite, Commit, CommitUnsure, FailTransient, FailForGood,
        WritingOnly
  <2>3. PICK e \in 1..MaxEvents : Deliver(e)
    BY <2>2 DEF Delivers
  <2>4. Enqueue(e)
    BY <2>1, <2>3 DEF Deliver, writeVars
  <2>5. queue' = Offer(queue, QueueSize, e, NonDroppable) /\ x \in Left(queue, e, queue')
    BY <1>5, <2>4 DEF Enqueue, Left
  <2>6. e \in Nat /\ \A i \in 1..Len(queue) : queue[i] < e
    BY <1>3, <2>3
  <2>7. queue' = Offer(queue, QueueSize, e, NonDroppable)
    BY <2>5
  <2>8. \A y \in Left(queue, e, queue') : kind[y] \in NonDroppable =>
          Len(queue) = QueueSize /\ \A i \in 1..Len(queue) : kind[queue[i]] \in NonDroppable
    BY <1>1, <2>6, <2>7, OfferOrder
  <2>9. QED
    BY <1>2, <1>5, <2>5, <2>8
<1>6. QED
  BY <1>4, <1>5

\* A structural event is turned away, from the database or from the web client, only by
\* a queue full of structural events, however long the queues are (_subscriber of
\* api/db_subscriber.py and of api/sse.py).
THEOREM DeliveryDropsJustified == DeliverySpec => DropsJustified
<1>1. ASSUME DeliveryInv, [DeliveryNext]_deliveryVars
      PROVE  [/\ \A e \in refused' \ refused :
                   kind[e] \in NonDroppable =>
                       Len(queue) = QueueSize /\ \A i \in DOMAIN queue : kind[queue[i]] \in NonDroppable
              /\ \A e \in DOMAIN kind :
                   Deliver(e) /\ kind[e] \in NonLossyLive /\ e \notin ToSet(live') =>
                       Len(live) = LiveSize /\ \A i \in DOMAIN live : kind[live[i]] \in NonLossyLive
             ]_deliveryVars
  BY <1>1, DropsStep
<1>2. QED
  BY <1>1, DeliveryInvariant, PTL DEF DeliverySpec, DropsJustified
===============================================================================
