--------------------------- MODULE SandboxesProofs ---------------------------
(***************************************************************************)
(* Theorems about Sandboxes, for any number of executors and sandboxes and *)
(* any size of the pool.                                                   *)
(***************************************************************************)
EXTENDS Sandboxes, SequenceTheorems, FiniteSetTheorems, WellFoundedInduction, TLAPS

-----------------------------------------------------------------------------
(* The list of the pool                                                    *)

Entries == Boxes \cup {Reserved}

\* No sandbox is in the list twice.
Distinct(s) == \A i, j \in 1..Len(s) : s[i] = s[j] /\ s[i] # Reserved => i = j

LEMMA AppendedList ==
    ASSUME NEW s \in Seq(Entries), Distinct(s), NEW b \in Entries, b = Reserved \/ ~Contains(s, b)
    PROVE  /\ Append(s, b) \in Seq(Entries) /\ Distinct(Append(s, b))
           /\ \A x \in Boxes : Contains(Append(s, b), x) => x = b \/ Contains(s, x)
<1> DEFINE t == Append(s, b)
<1>1. /\ t \in Seq(Entries) /\ Len(t) = Len(s) + 1 /\ Len(s) \in Nat
      /\ \A i \in 1..Len(s) : t[i] = s[i]
      /\ t[Len(s) + 1] = b
  BY AppendProperties, LenProperties
<1> HIDE DEF t
<1>2. \A i \in 1..Len(t) : i \in 1..Len(s) \/ i = Len(s) + 1
  BY <1>1
<1>3. ASSUME NEW i \in 1..Len(t), NEW j \in 1..Len(t), t[i] = t[j], t[i] # Reserved
      PROVE  i = j
  <2>1. CASE i \in 1..Len(s) /\ j \in 1..Len(s)
    BY <1>1, <1>3, <2>1 DEF Distinct
  <2>2. CASE i = Len(s) + 1 /\ j \in 1..Len(s)
    BY <1>1, <1>3, <2>2 DEF Contains
  <2>3. CASE i \in 1..Len(s) /\ j = Len(s) + 1
    BY <1>1, <1>3, <2>3 DEF Contains
  <2>4. CASE i = Len(s) + 1 /\ j = Len(s) + 1
    BY <2>4
  <2>5. QED
    BY <1>2, <2>1, <2>2, <2>3, <2>4
<1>4. Distinct(t)
  BY <1>3 DEF Distinct
<1>5. \A x \in Boxes : Contains(t, x) => x = b \/ Contains(s, x)
  BY <1>1, <1>2 DEF Contains
<1>6. QED
  BY <1>1, <1>4, <1>5 DEF t

LEMMA Prefix ==
    ASSUME NEW S, NEW s, NEW n \in Nat, \A i \in 1..n : s[i] \in S
    PROVE  /\ SubSeq(s, 1, n) \in Seq(S) /\ Len(SubSeq(s, 1, n)) = n
           /\ \A i \in 1..n : SubSeq(s, 1, n)[i] = s[i]
<1> DEFINE t == SubSeq(s, 1, n)
<1> HIDE DEF t
<1>1. /\ t \in Seq(S) /\ Len(t) = (IF 1 <= n THEN n - 1 + 1 ELSE 0)
      /\ \A i \in 1..(n - 1 + 1) : t[i] = s[1 + i - 1]
  BY SubSeqProperties DEF t
<1>2. Len(t) = n
  BY <1>1
<1>3. ASSUME NEW i \in 1..n PROVE t[i] = s[i]
  <2>1. i \in 1..(n - 1 + 1) /\ 1 + i - 1 = i
    OBVIOUS
  <2>2. t[i] = s[1 + i - 1]
    BY <1>1, <2>1
  <2>3. QED
    BY <2>1, <2>2
<1>4. QED
  BY <1>1, <1>2, <1>3 DEF t

LEMMA FrontElements ==
    ASSUME NEW s \in Seq(Entries), s # <<>>
    PROVE  /\ Len(s) \in Nat \ {0} /\ Last(s) = s[Len(s)]
           /\ Front(s) \in Seq(Entries) /\ Len(Front(s)) = Len(s) - 1
           /\ \A i \in 1..(Len(s) - 1) : Front(s)[i] = s[i]
<1>1. Len(s) \in Nat \ {0}
  BY EmptySeq, LenProperties
<1>2. \A i \in 1..(Len(s) - 1) : s[i] \in Entries
  BY <1>1, ElementOfSeq
<1>3. ASSUME NEW n \in Nat, n = Len(s) - 1
      PROVE  Front(s) \in Seq(Entries) /\ Len(Front(s)) = n /\ \A i \in 1..n : Front(s)[i] = s[i]
  <2>1. \A i \in 1..n : s[i] \in Entries
    BY <1>2, <1>3
  <2>2. Front(s) = SubSeq(s, 1, n)
    BY <1>3 DEF Front
  <2>3. QED
    BY <2>1, <2>2, Prefix
<1>4. Len(s) - 1 \in Nat
  BY <1>1
<1>5. QED
  BY <1>1, <1>3, <1>4 DEF Last

LEMMA FrontList ==
    ASSUME NEW s \in Seq(Entries), Distinct(s), s # <<>>
    PROVE  /\ Front(s) \in Seq(Entries) /\ Distinct(Front(s))
           /\ Last(s) \in Entries /\ Contains(s, Last(s))
           /\ \A x \in Boxes : Contains(Front(s), x) => Contains(s, x) /\ x # Last(s)
<1> DEFINE t == Front(s)
<1> HIDE DEF t
<1>1. Len(s) \in Nat \ {0} /\ Len(s) \in 1..Len(s)
  BY EmptySeq, LenProperties
<1>2. Last(s) = s[Len(s)] /\ Last(s) \in Entries
  BY <1>1, ElementOfSeq DEF Last
<1>3. t \in Seq(Entries) /\ Len(t) = Len(s) - 1 /\ \A i \in 1..(Len(s) - 1) : t[i] = s[i]
  BY FrontElements DEF t
<1>4. \A i \in 1..Len(t) : i \in 1..Len(s) /\ i # Len(s) /\ t[i] = s[i]
  BY <1>1, <1>3
<1>5. Distinct(t)
  BY <1>4 DEF Distinct
<1>6. ASSUME NEW x \in Boxes, Contains(t, x) PROVE Contains(s, x) /\ x # Last(s)
  <2>1. PICK i \in 1..Len(t) : t[i] = x
    BY <1>6 DEF Contains
  <2>2. x # Reserved
    BY SandboxAssumption
  <2>3. QED
    BY <1>1, <1>2, <1>4, <2>1, <2>2 DEF Contains, Distinct
<1>7. Contains(s, Last(s))
  BY <1>1, <1>2 DEF Contains
<1>8. QED
  BY <1>2, <1>3, <1>5, <1>6, <1>7 DEF t

LEMMA ReplacedList ==
    ASSUME NEW s \in Seq(Entries), Distinct(s), NEW k \in 1..Len(s), NEW b \in Boxes, ~Contains(s, b)
    PROVE  /\ [s EXCEPT ![k] = b] \in Seq(Entries) /\ Distinct([s EXCEPT ![k] = b])
           /\ \A x \in Boxes : Contains([s EXCEPT ![k] = b], x) => x = b \/ Contains(s, x)
<1> DEFINE t == [s EXCEPT ![k] = b]
<1>1. /\ t \in Seq(Entries) /\ Len(t) = Len(s)
      /\ \A i \in 1..Len(s) : t[i] = IF i = k THEN b ELSE s[i]
  BY ExceptSeq DEF Entries
<1> HIDE DEF t
<1>2. Distinct(t)
  BY <1>1 DEF Distinct, Contains
<1>3. \A x \in Boxes : Contains(t, x) => x = b \/ Contains(s, x)
  BY <1>1 DEF Contains
<1>4. QED
  BY <1>1, <1>2, <1>3 DEF t

LEMMA LeastOf ==
    ASSUME NEW I \in SUBSET Nat, I # {}
    PROVE  Min(I) \in I
<1>1. PICK x \in I : \A y \in I : <<y, x>> \notin OpToRel(<, Nat)
  BY NatLessThanWellFounded, WFMin
<1>2. ASSUME NEW y \in I PROVE x <= y
  <2>1. <<y, x>> \in Nat \X Nat /\ <<y, x>>[1] = y /\ <<y, x>>[2] = x
    OBVIOUS
  <2>2. ~(y < x)
    BY <1>1, <2>1 DEF OpToRel
  <2>3. x \in Nat /\ y \in Nat
    OBVIOUS
  <2>4. QED
    BY <2>2, <2>3
<1>3. QED
  BY <1>2 DEF Min

\* The entry takes the place of a reservation, or a new one.
LEMMA EnteredList ==
    ASSUME pool \in Seq(Entries), Distinct(pool), NEW b \in Boxes, ~Contains(pool, b)
    PROVE  /\ Entered(b) \in Seq(Entries) /\ Distinct(Entered(b))
           /\ \A x \in Boxes : Contains(Entered(b), x) => x = b \/ Contains(pool, x)
<1>1. CASE Contains(pool, Reserved)
  <2> DEFINE I == {i \in 1..Len(pool) : pool[i] = Reserved}
  <2>1. I # {} /\ I \in SUBSET Nat
    BY <1>1 DEF Contains
  <2>2. Min(I) \in 1..Len(pool)
    BY <2>1, LeastOf
  <2>3. Entered(b) = [pool EXCEPT ![Min(I)] = b]
    BY <1>1, <2>1 DEF Entered, SelectInSeq
  <2>4. PICK k \in 1..Len(pool) : k = Min(I)
    BY <2>2
  <2>5. Entered(b) = [pool EXCEPT ![k] = b]
    BY <2>3, <2>4
  <2> HIDE DEF I
  <2>6. /\ [pool EXCEPT ![k] = b] \in Seq(Entries) /\ Distinct([pool EXCEPT ![k] = b])
        /\ \A x \in Boxes : Contains([pool EXCEPT ![k] = b], x) => x = b \/ Contains(pool, x)
    BY ReplacedList
  <2>7. QED
    BY <2>5, <2>6
<1>2. CASE ~Contains(pool, Reserved) /\ Len(pool) < MaxPerKey
  <2>1. Entered(b) = Append(pool, b) /\ b \in Entries
    BY <1>2 DEF Entered, Entries
  <2>2. QED
    BY <2>1, AppendedList
<1>3. CASE ~Contains(pool, Reserved) /\ ~(Len(pool) < MaxPerKey)
  BY <1>3 DEF Entered
<1>4. QED
  BY <1>1, <1>2, <1>3

-----------------------------------------------------------------------------
(* The actors                                                              *)

CallOf(e) == <<e, "call">>
CleanerOf(e) == <<e, "clean">>

LEMMA CallNames ==
    /\ \A a \in Calls : \E e \in Executors : a = CallOf(e) /\ a[1] = e
    /\ \A a \in Cleaners : \E e \in Executors : a = CleanerOf(e) /\ a[1] = e
    /\ \A e \in Executors : /\ CallOf(e) \in Calls /\ CallOf(e) \in Actors /\ CallOf(e)[1] = e
                            /\ CleanerOf(e) \in Cleaners /\ CleanerOf(e) \in Actors
                            /\ CleanerOf(e)[1] = e /\ CleanerOf(e) \notin Calls
    /\ \A e, f \in Executors : /\ CallOf(e) # CleanerOf(f)
                               /\ CallOf(e) = CallOf(f) => e = f
                               /\ CleanerOf(e) = CleanerOf(f) => e = f
BY DEF Calls, Cleaners, Actors, CallOf, CleanerOf

-----------------------------------------------------------------------------
(* The inductive invariant                                                 *)

EmptyHanded == {"idle", "acquiring", "looking", "creating"}
Handling == {"connecting", "using", "releasing", "pausing", "storing", "killing"}

SandboxTypes ==
    /\ box \in [Boxes -> {"none", "running", "paused", "dead"}]
    /\ pool \in Seq(Entries) /\ Distinct(pool)
    /\ session \in [Executors -> Boxes \cup {NoBox}]
    /\ at \in [Actors -> EmptyHanded \cup Handling]
    /\ hand \in [Actors -> Boxes \cup {NoBox}]
    /\ stopping \subseteq Executors /\ killing \subseteq Boxes
    /\ cleanups \in [Executors -> 0..2]

\* An actor has a sandbox in hand exactly where its stage says so.
HandFits(where, b) == IF where \in EmptyHanded THEN b = NoBox ELSE b \in Boxes

\* What a call that goes on works with is its session, and it looks for one for want of it.
SessionFits(where, b, s) ==
    /\ where \notin {"idle", "using"} => s = NoBox
    /\ where = "using" => s = b

CallsFit ==
    /\ \A a \in Actors : HandFits(at[a], hand[a])
    /\ \A e \in Executors :
          /\ e \notin stopping => SessionFits(at[CallOf(e)], hand[CallOf(e)], session[e])
          /\ cleanups[e] # 0 => session[e] = NoBox /\ (at[CallOf(e)] # "idle" => e \in stopping)
          /\ cleanups[e] = 0 => at[CleanerOf(e)] = "idle" /\ e \notin stopping

Has(e, b) ==
    \/ session[e] = b \/ hand[CleanerOf(e)] = b
    \/ hand[CallOf(e)] = b /\ e \notin stopping

\* A sandbox is in one place: with one executor, in the pool, about to be killed by
\* drain, or, before it is created, nowhere.
InOnePlace(b) ==
    /\ \A e, f \in Executors : Has(e, b) /\ Has(f, b) => e = f
    /\ \A e \in Executors : Has(e, b) => ~Contains(pool, b) /\ b \notin killing /\ box[b] # "none"
    /\ Contains(pool, b) => b \notin killing /\ box[b] # "none"
    /\ b \in killing => box[b] # "none"

SandboxInv == SandboxTypes /\ CallsFit /\ \A b \in Boxes : InOnePlace(b)

\* How a sandbox moves in a step: never from one executor to another, nor into the pool
\* before it was in use, nor back from where nobody has it.
Passes(b) ==
    /\ box'[b] = "none" => box[b] = "none"
    /\ \A e, f \in Executors : Has(e, b) /\ Has(f, b)' => e = f
    /\ box[b] = "none" => ~Contains(pool', b)
    /\ box[b] # "none" /\ ~Contains(pool, b) /\ (\A e \in Executors : ~Has(e, b)) =>
          ~Contains(pool', b) /\ \A e \in Executors : ~Has(e, b)'

BoxesPass == \A b \in Boxes : Passes(b)

LEMMA SandboxStarts == SandboxInit => SandboxInv
<1> SUFFICES ASSUME SandboxInit PROVE SandboxInv
  OBVIOUS
<1>1. <<>> \in Seq(Entries) /\ Len(<<>>) = 0 /\ 1..0 = {}
  BY EmptySeq
<1>2. SandboxTypes
  BY <1>1 DEF SandboxInit, SandboxTypes, Distinct, EmptyHanded
<1>3. CallsFit
  BY CallNames DEF SandboxInit, CallsFit, HandFits, SessionFits, EmptyHanded
<1>4. \A b \in Boxes : InOnePlace(b)
  BY <1>1, CallNames, SandboxAssumption DEF SandboxInit, InOnePlace, Has, Contains
<1>5. QED
  BY <1>2, <1>3, <1>4 DEF SandboxInv

-----------------------------------------------------------------------------
(* The shapes of steps                                                     *)

\* A call makes a step: what it takes in hand or as its session it had already, or
\* nobody has; what comes into the pool it lets go.
LEMMA CallMoves ==
    ASSUME SandboxInv, SandboxTypes', NEW e \in Executors, e \notin stopping, cleanups[e] = 0,
           UNCHANGED <<stopping, cleanups, killing>>,
           \A x \in Actors : x # CallOf(e) => at'[x] = at[x] /\ hand'[x] = hand[x],
           \A f \in Executors : f # e => session'[f] = session[f],
           HandFits(at'[CallOf(e)], hand'[CallOf(e)]),
           SessionFits(at'[CallOf(e)], hand'[CallOf(e)], session'[e]),
           \A b \in Boxes : box'[b] = "none" => box[b] = "none",
           \A b \in Boxes : Contains(pool', b) =>
               \/ Contains(pool, b)
               \/ Has(e, b) /\ hand'[CallOf(e)] # b /\ session'[e] # b,
           \A b \in Boxes : session'[e] = b \/ hand'[CallOf(e)] = b =>
               \/ Has(e, b)
               \/ /\ \A f \in Executors : ~Has(f, b)
                  /\ ~Contains(pool', b) /\ b \notin killing /\ box'[b] # "none"
                  /\ Contains(pool, b) \/ box[b] = "none"
    PROVE  SandboxInv' /\ BoxesPass
<1>1. CallsFit'
  <2>1. \A a \in Actors : HandFits(at'[a], hand'[a])
    BY DEF SandboxInv, CallsFit
  <2>2. ASSUME NEW f \in Executors
        PROVE  /\ f \notin stopping => SessionFits(at'[CallOf(f)], hand'[CallOf(f)], session'[f])
               /\ cleanups[f] # 0 => session'[f] = NoBox /\ (at'[CallOf(f)] # "idle" => f \in stopping)
               /\ cleanups[f] = 0 => at'[CleanerOf(f)] = "idle" /\ f \notin stopping
    <3>1. CallOf(f) \in Actors /\ CleanerOf(f) \in Actors /\ CleanerOf(f) # CallOf(e)
      BY CallNames
    <3>2. at'[CleanerOf(f)] = at[CleanerOf(f)]
      BY <3>1
    <3>3. CASE f = e
      BY <3>2, <3>3 DEF SandboxInv, CallsFit
    <3>4. CASE f # e
      <4>1. CallOf(f) # CallOf(e)
        BY <3>4, CallNames
      <4>2. QED
        BY <3>1, <3>2, <3>4, <4>1 DEF SandboxInv, CallsFit
    <3>5. QED
      BY <3>3, <3>4
  <2>3. QED
    BY <2>1, <2>2 DEF CallsFit
<1>2. ASSUME NEW f \in Executors, NEW b \in Boxes, f # e
      PROVE  Has(f, b)' <=> Has(f, b)
  <2>1. CallOf(f) \in Actors /\ CleanerOf(f) \in Actors /\ CallOf(f) # CallOf(e) /\ CleanerOf(f) # CallOf(e)
    BY <1>2, CallNames
  <2>2. QED
    BY <1>2, <2>1 DEF Has
<1>3. ASSUME NEW b \in Boxes, Has(e, b)'
      PROVE  session'[e] = b \/ hand'[CallOf(e)] = b
  <2>1. CleanerOf(e) \in Actors /\ CleanerOf(e) # CallOf(e)
    BY CallNames
  <2>2. hand'[CleanerOf(e)] = NoBox
    BY <2>1 DEF SandboxInv, CallsFit, HandFits, EmptyHanded
  <2>3. QED
    BY <1>3, <2>2, SandboxAssumption DEF Has
<1>4. ASSUME NEW b \in Boxes PROVE InOnePlace(b)'
  <2>1. InOnePlace(b)
    BY DEF SandboxInv
  <2>2. CASE ~Has(e, b)'
    <3>1. \A f \in Executors : Has(f, b)' => f # e /\ Has(f, b)
      BY <1>2, <2>2
    <3>2. \A f \in Executors : f # e /\ Has(f, b) => ~Has(e, b)
      BY <2>1 DEF InOnePlace
    <3>3. \A f \in Executors : Has(f, b)' => ~Contains(pool', b)
      BY <2>1, <3>1, <3>2 DEF InOnePlace
    <3>4. Contains(pool', b) => b \notin killing /\ box'[b] # "none"
      BY <2>1 DEF InOnePlace
    <3>5. QED
      BY <2>1, <3>1, <3>3, <3>4 DEF InOnePlace
  <2>3. CASE Has(e, b)' /\ Has(e, b)
    <3>1. \A f \in Executors : Has(f, b)' => f = e
      BY <1>2, <2>1, <2>3 DEF InOnePlace
    <3>2. ~Contains(pool', b)
      BY <1>3, <2>1, <2>3 DEF InOnePlace
    <3>3. QED
      BY <2>1, <2>3, <3>1, <3>2 DEF InOnePlace
  <2>4. CASE Has(e, b)' /\ ~Has(e, b)
    <3>1. (\A f \in Executors : ~Has(f, b)) /\ ~Contains(pool', b) /\ b \notin killing /\ box'[b] # "none"
      BY <1>3, <2>4
    <3>2. \A f \in Executors : Has(f, b)' => f = e
      BY <1>2, <3>1
    <3>3. QED
      BY <3>1, <3>2 DEF InOnePlace
  <2>5. QED
    BY <2>2, <2>3, <2>4
<1>5. ASSUME NEW b \in Boxes PROVE Passes(b)
  <2>1. InOnePlace(b)
    BY DEF SandboxInv
  <2>2. \A f \in Executors : f # e => (Has(f, b)' <=> Has(f, b))
    BY <1>2
  <2>3. Has(e, b)' => \/ Has(e, b)
                     \/ /\ \A f \in Executors : ~Has(f, b)
                        /\ Contains(pool, b) \/ box[b] = "none"
    BY <1>3
  <2>4. Contains(pool', b) => Contains(pool, b) \/ Has(e, b)
    OBVIOUS
  <2>5. QED
    BY <2>1, <2>2, <2>3, <2>4 DEF InOnePlace, Passes
<1>6. QED
  BY <1>1, <1>4, <1>5 DEF SandboxInv, BoxesPass

\* A cleanup makes a step with what it has in hand.
LEMMA CleanerMoves ==
    ASSUME SandboxInv, SandboxTypes', NEW e \in Executors, cleanups[e] # 0,
           UNCHANGED <<stopping, cleanups, killing, session>>,
           \A x \in Actors : x # CleanerOf(e) => at'[x] = at[x] /\ hand'[x] = hand[x],
           HandFits(at'[CleanerOf(e)], hand'[CleanerOf(e)]),
           hand'[CleanerOf(e)] \in {NoBox, hand[CleanerOf(e)]},
           \A b \in Boxes : box'[b] = "none" => box[b] = "none",
           \A b \in Boxes : Contains(pool', b) =>
               Contains(pool, b) \/ (hand[CleanerOf(e)] = b /\ hand'[CleanerOf(e)] # b)
    PROVE  SandboxInv' /\ BoxesPass
<1>1. CallsFit'
  <2>1. \A a \in Actors : HandFits(at'[a], hand'[a])
    BY DEF SandboxInv, CallsFit
  <2>2. ASSUME NEW f \in Executors
        PROVE  /\ at'[CallOf(f)] = at[CallOf(f)] /\ hand'[CallOf(f)] = hand[CallOf(f)]
               /\ cleanups[f] = 0 => at'[CleanerOf(f)] = at[CleanerOf(f)]
    BY CallNames
  <2>3. QED
    BY <2>1, <2>2 DEF SandboxInv, CallsFit
<1>2. ASSUME NEW f \in Executors, NEW b \in Boxes, f # e
      PROVE  Has(f, b)' <=> Has(f, b)
  <2>1. CallOf(f) \in Actors /\ CleanerOf(f) \in Actors /\ CallOf(f) # CleanerOf(e) /\ CleanerOf(f) # CleanerOf(e)
    BY <1>2, CallNames
  <2>2. QED
    BY <1>2, <2>1 DEF Has
<1>3. ASSUME NEW b \in Boxes, Has(e, b)' PROVE Has(e, b) /\ hand'[CleanerOf(e)] = b
  <2>1. CallOf(e) \in Actors /\ CallOf(e) # CleanerOf(e)
    BY CallNames
  <2>2. session[e] = NoBox /\ (at[CallOf(e)] # "idle" => e \in stopping)
    BY DEF SandboxInv, CallsFit
  <2>3. at[CallOf(e)] = "idle" => hand[CallOf(e)] = NoBox
    BY <2>1 DEF SandboxInv, CallsFit, HandFits, EmptyHanded
  <2>4. QED
    BY <1>3, <2>1, <2>2, <2>3, SandboxAssumption DEF Has
<1>4. ASSUME NEW b \in Boxes PROVE InOnePlace(b)'
  <2>1. InOnePlace(b)
    BY DEF SandboxInv
  <2>2. \A f \in Executors : Has(f, b)' => Has(f, b)
    BY <1>2, <1>3
  <2>3. hand[CleanerOf(e)] = b => Has(e, b)
    BY DEF Has
  <2>4. \A f \in Executors : Has(f, b)' => ~Contains(pool', b)
    <3>1. ASSUME NEW f \in Executors, Has(f, b)', Contains(pool', b) PROVE FALSE
      <4>1. Has(f, b) /\ ~Contains(pool, b)
        BY <2>1, <2>2, <3>1 DEF InOnePlace
      <4>2. hand[CleanerOf(e)] = b /\ hand'[CleanerOf(e)] # b
        BY <3>1, <4>1
      <4>3. f = e
        BY <2>1, <2>3, <4>1, <4>2 DEF InOnePlace
      <4>4. QED
        BY <1>3, <3>1, <4>2, <4>3
    <3>2. QED
      BY <3>1
  <2>5. Contains(pool', b) => b \notin killing /\ box'[b] # "none"
    BY <2>1, <2>3 DEF InOnePlace
  <2>6. QED
    BY <2>1, <2>2, <2>4, <2>5 DEF InOnePlace
<1>5. ASSUME NEW b \in Boxes PROVE Passes(b)
  <2>1. InOnePlace(b)
    BY DEF SandboxInv
  <2>2. \A f \in Executors : Has(f, b)' => Has(f, b)
    BY <1>2, <1>3
  <2>3. Contains(pool', b) => Contains(pool, b) \/ Has(e, b)
    BY DEF Has
  <2>4. QED
    BY <2>1, <2>2, <2>3 DEF InOnePlace, Passes
<1>6. QED
  BY <1>1, <1>4, <1>5 DEF SandboxInv, BoxesPass

-----------------------------------------------------------------------------
(* The steps of a call                                                     *)

LEMMA CallKeeps ==
    ASSUME SandboxInv, NEW a \in Calls, Call(a) PROVE SandboxInv' /\ BoxesPass
<1>1. PICK e \in Executors : a = CallOf(e) /\ a[1] = e
  BY CallNames
<1>2. /\ at[a] = "idle" /\ cleanups[e] = 0 /\ a \in Actors
      /\ UNCHANGED <<box, pool, session, stopping, cleanups, killing>>
  BY <1>1, CallNames DEF Call, CallOnly
<1>3. e \notin stopping /\ hand[a] = NoBox
  BY <1>1, <1>2 DEF SandboxInv, CallsFit, HandFits, EmptyHanded
<1>4. CASE session[e] # NoBox /\ Goto(a, "using") /\ Hold(a, session[e])
  <2>1. /\ at' = [at EXCEPT ![a] = "using"] /\ hand' = [hand EXCEPT ![a] = session[e]]
        /\ session[e] \in Boxes
    BY <1>4 DEF Goto, Hold, SandboxInv, SandboxTypes
  <2>2. SandboxTypes' /\ at'[a] = "using" /\ hand'[a] = session[e]
    BY <1>2, <2>1 DEF SandboxInv, SandboxTypes, Handling
  <2>3. Has(e, session[e])
    BY DEF Has
  <2>4. HandFits(at'[a], hand'[a]) /\ SessionFits(at'[a], hand'[a], session'[e])
    BY <1>2, <2>1, <2>2 DEF HandFits, SessionFits, EmptyHanded
  <2>5. \A x \in Actors : x # a => at'[x] = at[x] /\ hand'[x] = hand[x]
    BY <2>1 DEF SandboxInv, SandboxTypes
  <2>6. QED
    BY <1>1, <1>2, <1>3, <2>2, <2>3, <2>4, <2>5, CallMoves
<1>5. CASE session[e] = NoBox /\ Goto(a, "acquiring") /\ UNCHANGED hand
  <2>1. at' = [at EXCEPT ![a] = "acquiring"] /\ hand' = hand
    BY <1>5 DEF Goto
  <2>2. SandboxTypes' /\ at'[a] = "acquiring"
    BY <1>2, <2>1 DEF SandboxInv, SandboxTypes, EmptyHanded
  <2>3. HandFits(at'[a], hand'[a]) /\ SessionFits(at'[a], hand'[a], session'[e])
    BY <1>2, <1>3, <1>5, <2>1, <2>2 DEF HandFits, SessionFits, EmptyHanded
  <2>4. \A x \in Actors : x # a => at'[x] = at[x] /\ hand'[x] = hand[x]
    BY <2>1 DEF SandboxInv, SandboxTypes
  <2>5. \A b \in Boxes : session'[e] # b /\ hand'[a] # b
    BY <1>2, <1>3, <1>5, <2>1, SandboxAssumption
  <2>6. QED
    BY <1>1, <1>2, <1>3, <2>1, <2>2, <2>3, <2>4, <2>5, CallMoves
<1>6. QED
  BY <1>1, <1>4, <1>5 DEF Call

\* What the steps of a call that goes on have in common.
LEMMA GoesOn ==
    ASSUME SandboxInv, NEW a \in Calls, at[a] # "idle", a[1] \notin stopping
    PROVE  \E e \in Executors :
              /\ a = CallOf(e) /\ a[1] = e /\ a \in Actors /\ e \notin stopping /\ cleanups[e] = 0
              /\ HandFits(at[a], hand[a]) /\ SessionFits(at[a], hand[a], session[e])
              /\ \A b \in Boxes : hand[a] = b => Has(e, b)
<1>1. PICK e \in Executors : a = CallOf(e) /\ a[1] = e
  BY CallNames
<1>2. a \in Actors
  BY <1>1, CallNames
<1>3. e \notin stopping /\ cleanups[e] = 0
  BY <1>1 DEF SandboxInv, CallsFit
<1>4. HandFits(at[a], hand[a]) /\ SessionFits(at[a], hand[a], session[e])
  BY <1>1, <1>2, <1>3 DEF SandboxInv, CallsFit
<1>5. \A b \in Boxes : hand[a] = b => Has(e, b)
  BY <1>1, <1>3 DEF Has
<1>6. QED
  BY <1>1, <1>2, <1>3, <1>4, <1>5

LEMMA BorrowKeeps ==
    ASSUME SandboxInv, NEW a \in Calls, LockPool(a) \/ PoolEmpty(a) \/ PopReserved(a) \/ CreateFails(a)
    PROVE  SandboxInv' /\ BoxesPass
<1>1. /\ at[a] \in {"acquiring", "looking", "creating"} /\ a[1] \notin stopping
      /\ UNCHANGED <<session, hand, stopping, cleanups, killing>>
  BY DEF LockPool, PoolEmpty, PopReserved, CreateFails, CallAt, CallOnly
<1>2. PICK e \in Executors :
         /\ a = CallOf(e) /\ a[1] = e /\ a \in Actors /\ e \notin stopping /\ cleanups[e] = 0
         /\ HandFits(at[a], hand[a]) /\ SessionFits(at[a], hand[a], session[e])
         /\ \A b \in Boxes : hand[a] = b => Has(e, b)
  BY <1>1, GoesOn
<1>3. hand[a] = NoBox /\ session[e] = NoBox
  BY <1>1, <1>2 DEF HandFits, SessionFits, EmptyHanded
<1>4. \E w \in {"looking", "creating", "idle"} : at' = [at EXCEPT ![a] = w]
  BY DEF LockPool, PoolEmpty, PopReserved, CreateFails, Goto
<1>5. /\ box' \in [Boxes -> {"none", "running", "paused", "dead"}]
      /\ \A b \in Boxes : box'[b] = "none" => box[b] = "none"
  <2>1. box' = box \/ \E b \in Boxes : box' = [box EXCEPT ![b] = "running"]
    BY DEF LockPool, PoolEmpty, PopReserved, CreateFails, Fresh
  <2>2. QED
    BY <2>1 DEF SandboxInv, SandboxTypes
<1>6. /\ pool' \in Seq(Entries) /\ Distinct(pool')
      /\ \A b \in Boxes : Contains(pool', b) => Contains(pool, b)
  <2>1. pool' = pool \/ (pool # <<>> /\ pool' = Front(pool))
    <3>1. CASE PopReserved(a)
      BY Zenon, <3>1 DEF PopReserved
    <3>2. CASE LockPool(a) \/ PoolEmpty(a) \/ CreateFails(a)
      BY <3>2 DEF LockPool, PoolEmpty, CreateFails
    <3>3. QED
      BY Zenon, <3>1, <3>2
  <2>2. pool \in Seq(Entries) /\ Distinct(pool)
    BY DEF SandboxInv, SandboxTypes
  <2>3. CASE pool' = pool
    BY <2>2, <2>3
  <2>4. CASE pool # <<>> /\ pool' = Front(pool)
    BY <2>2, <2>4, FrontList
  <2>5. QED
    BY <2>1, <2>3, <2>4
<1>7. SandboxTypes'
  BY <1>1, <1>4, <1>5, <1>6 DEF SandboxInv, SandboxTypes, EmptyHanded
<1>8. \A x \in Actors : x # a => at'[x] = at[x] /\ hand'[x] = hand[x]
  BY <1>1, <1>4 DEF SandboxInv, SandboxTypes
<1>9. at'[a] \in {"looking", "creating", "idle"}
  BY <1>2, <1>4 DEF SandboxInv, SandboxTypes
<1>10. HandFits(at'[a], hand'[a]) /\ SessionFits(at'[a], hand'[a], session'[e])
  BY <1>1, <1>3, <1>9 DEF HandFits, SessionFits, EmptyHanded
<1>11. \A b \in Boxes : session'[e] # b /\ hand'[a] # b
  BY <1>1, <1>3, SandboxAssumption
<1>12. QED
  BY <1>1, <1>2, <1>5, <1>6, <1>7, <1>8, <1>10, <1>11, CallMoves

LEMMA PopKeeps == ASSUME SandboxInv, NEW a \in Calls, PopEntry(a) PROVE SandboxInv' /\ BoxesPass
<1>1. /\ at[a] = "looking" /\ a[1] \notin stopping
      /\ UNCHANGED <<box, session, stopping, cleanups, killing>>
  BY DEF PopEntry, CallAt, CallOnly
<1>2. PICK e \in Executors :
         /\ a = CallOf(e) /\ a[1] = e /\ a \in Actors /\ e \notin stopping /\ cleanups[e] = 0
         /\ HandFits(at[a], hand[a]) /\ SessionFits(at[a], hand[a], session[e])
         /\ \A b \in Boxes : hand[a] = b => Has(e, b)
  BY <1>1, GoesOn
<1>3. hand[a] = NoBox /\ session[e] = NoBox
  BY <1>1, <1>2 DEF HandFits, SessionFits, EmptyHanded
<1>4. pool # <<>> /\ pool' = Front(pool) /\ Last(pool) # Reserved
  BY Zenon DEF PopEntry
<1>5. pool \in Seq(Entries) /\ Distinct(pool)
  BY DEF SandboxInv, SandboxTypes
<1>6. /\ pool' \in Seq(Entries) /\ Distinct(pool') /\ Last(pool) \in Entries
      /\ Contains(pool, Last(pool))
      /\ \A b \in Boxes : Contains(pool', b) => Contains(pool, b) /\ b # Last(pool)
  BY <1>4, <1>5, FrontList
<1>7. CASE at' = [at EXCEPT ![a] = "connecting"] /\ hand' = [hand EXCEPT ![a] = Last(pool)]
  <2>1. PICK b \in Boxes : b = Last(pool)
    BY <1>4, <1>6 DEF Entries
  <2>2. at'[a] = "connecting" /\ hand'[a] = b
    BY <1>2, <1>7, <2>1 DEF SandboxInv, SandboxTypes
  <2>3. SandboxTypes'
    BY <1>1, <1>6, <1>7, <2>1 DEF SandboxInv, SandboxTypes, Handling
  <2>4. \A x \in Actors : x # a => at'[x] = at[x] /\ hand'[x] = hand[x]
    BY <1>7 DEF SandboxInv, SandboxTypes
  <2>5. HandFits(at'[a], hand'[a]) /\ SessionFits(at'[a], hand'[a], session'[e])
    BY <1>1, <1>3, <2>2 DEF HandFits, SessionFits, EmptyHanded
  <2>6. InOnePlace(b) /\ Contains(pool, b) /\ ~Contains(pool', b)
    BY <1>6, <2>1 DEF SandboxInv
  <2>7. (\A f \in Executors : ~Has(f, b)) /\ b \notin killing /\ box'[b] # "none"
    BY <1>1, <2>6 DEF InOnePlace
  <2>8. \A x \in Boxes : session'[e] = x \/ hand'[a] = x => x = b
    BY <1>1, <1>3, <2>2, SandboxAssumption
  <2>9. QED
    BY <1>1, <1>2, <1>6, <2>3, <2>4, <2>5, <2>6, <2>7, <2>8, CallMoves
<1>8. CASE UNCHANGED <<at, hand>>
  <2>1. SandboxTypes'
    BY <1>1, <1>6, <1>8 DEF SandboxInv, SandboxTypes
  <2>2. \A b \in Boxes : session'[e] # b /\ hand'[a] # b
    BY <1>1, <1>3, <1>8, SandboxAssumption
  <2>3. HandFits(at'[a], hand'[a]) /\ SessionFits(at'[a], hand'[a], session'[e])
    BY <1>1, <1>2, <1>8
  <2>4. QED
    BY <1>1, <1>2, <1>6, <1>8, <2>1, <2>2, <2>3, CallMoves
<1>9. QED
  BY <1>7, <1>8 DEF PopEntry, Goto, Hold

LEMMA AdoptKeeps == ASSUME SandboxInv, NEW a \in Calls, Connect(a) \/ Create(a) PROVE SandboxInv' /\ BoxesPass
<1>1. /\ at[a] \in {"connecting", "creating"} /\ a[1] \notin stopping
      /\ UNCHANGED <<pool, stopping, cleanups, killing>>
  BY DEF Connect, Create, CallAt, CallOnly
<1>2. PICK e \in Executors :
         /\ a = CallOf(e) /\ a[1] = e /\ a \in Actors /\ e \notin stopping /\ cleanups[e] = 0
         /\ HandFits(at[a], hand[a]) /\ SessionFits(at[a], hand[a], session[e])
         /\ \A b \in Boxes : hand[a] = b => Has(e, b)
  BY <1>1, GoesOn
<1>3. PICK b \in Boxes : Adopt(a, b) /\ (Has(e, b) \/ box[b] = "none")
  <2>1. CASE Connect(a)
    <3>1. Adopt(a, hand[a]) /\ at[a] = "connecting"
      BY <2>1 DEF Connect, CallAt
    <3>2. hand[a] \in Boxes
      BY <1>2, <3>1 DEF HandFits, EmptyHanded
    <3>3. QED
      BY <1>2, <3>1, <3>2
  <2>2. CASE Create(a)
    BY <2>2 DEF Create, Fresh
  <2>3. QED
    BY <2>1, <2>2
<1>4. /\ session' = [session EXCEPT ![e] = b] /\ hand' = [hand EXCEPT ![a] = b]
      /\ box' = [box EXCEPT ![b] = "running"] /\ at' = [at EXCEPT ![a] = "using"]
  BY <1>2, <1>3 DEF Adopt, Hold, Becomes, Goto
<1>5. SandboxTypes' /\ session'[e] = b /\ hand'[a] = b /\ at'[a] = "using" /\ box'[b] = "running"
  BY <1>1, <1>2, <1>4 DEF SandboxInv, SandboxTypes, Handling
<1>6. /\ \A x \in Actors : x # a => at'[x] = at[x] /\ hand'[x] = hand[x]
      /\ \A f \in Executors : f # e => session'[f] = session[f]
      /\ \A x \in Boxes : box'[x] = "none" => box[x] = "none"
  BY <1>4 DEF SandboxInv, SandboxTypes
<1>7. HandFits(at'[a], hand'[a]) /\ SessionFits(at'[a], hand'[a], session'[e])
  BY <1>5 DEF HandFits, SessionFits, EmptyHanded
<1>8. \/ Has(e, b)
      \/ /\ \A f \in Executors : ~Has(f, b)
         /\ ~Contains(pool', b) /\ b \notin killing /\ box[b] = "none"
  <2>1. InOnePlace(b)
    BY DEF SandboxInv
  <2>2. QED
    BY <1>1, <1>3, <2>1 DEF InOnePlace
<1>9. QED
  BY <1>1, <1>2, <1>5, <1>6, <1>7, <1>8, CallMoves

LEMMA LetGoKeeps ==
    ASSUME SandboxInv, NEW a \in Calls, ConnectFails(a) \/ UseEnds(a) \/ UseStale(a)
    PROVE  SandboxInv' /\ BoxesPass
<1>1. /\ at[a] \in {"connecting", "using"} /\ a[1] \notin stopping
      /\ UNCHANGED <<pool, stopping, cleanups, killing>>
  BY DEF ConnectFails, UseEnds, UseStale, CallAt, CallOnly
<1>2. PICK e \in Executors :
         /\ a = CallOf(e) /\ a[1] = e /\ a \in Actors /\ e \notin stopping /\ cleanups[e] = 0
         /\ HandFits(at[a], hand[a]) /\ SessionFits(at[a], hand[a], session[e])
         /\ \A b \in Boxes : hand[a] = b => Has(e, b)
  BY <1>1, GoesOn
<1>3. hand[a] \in Boxes
  BY <1>1, <1>2 DEF HandFits, EmptyHanded
<1>4. CASE ConnectFails(a) \/ UseEnds(a)
  <2>1. /\ \E w \in {"looking", "idle"} :
              at' = [at EXCEPT ![a] = w] /\ (at[a] = "connecting" \/ w = "idle")
        /\ hand' = [hand EXCEPT ![a] = NoBox] /\ session' = session
    BY <1>4 DEF ConnectFails, UseEnds, CallAt, Goto, Hold
  <2>2. box' = box \/ box' = [box EXCEPT ![hand[a]] = "running"]
    BY <1>4 DEF ConnectFails, UseEnds
  <2>3. /\ box' \in [Boxes -> {"none", "running", "paused", "dead"}]
        /\ \A x \in Boxes : box'[x] = "none" => box[x] = "none"
    BY <2>2 DEF SandboxInv, SandboxTypes
  <2>4. /\ at'[a] \in {"looking", "idle"} /\ (at[a] = "connecting" \/ at'[a] = "idle")
        /\ hand'[a] = NoBox
        /\ \A x \in Actors : x # a => at'[x] = at[x] /\ hand'[x] = hand[x]
    BY <1>2, <2>1 DEF SandboxInv, SandboxTypes
  <2>5. SandboxTypes'
    BY <1>1, <2>1, <2>3 DEF SandboxInv, SandboxTypes, EmptyHanded
  <2>6. HandFits(at'[a], hand'[a]) /\ SessionFits(at'[a], hand'[a], session'[e])
    BY <1>2, <2>1, <2>4 DEF HandFits, SessionFits, EmptyHanded
  <2>7. \A b \in Boxes : session'[e] = b \/ hand'[a] = b => Has(e, b)
    BY <2>1, <2>4, SandboxAssumption DEF Has
  <2>8. QED
    BY <1>1, <1>2, <2>1, <2>3, <2>4, <2>5, <2>6, <2>7, CallMoves
<1>5. CASE UseStale(a)
  <2>1. /\ at[a] = "using" /\ box' = box /\ hand' = hand
        /\ at' = [at EXCEPT ![a] = "releasing"]
        /\ session' = [session EXCEPT ![e] = IF @ = hand[a] THEN NoBox ELSE @]
    BY <1>2, <1>5 DEF UseStale, CallAt, Goto
  <2>2. session[e] = hand[a]
    BY <1>2, <2>1 DEF SessionFits
  <2>3. session' = [session EXCEPT ![e] = NoBox]
    BY <2>1, <2>2
  <2>4. /\ at'[a] = "releasing" /\ session'[e] = NoBox
        /\ \A x \in Actors : x # a => at'[x] = at[x] /\ hand'[x] = hand[x]
        /\ \A f \in Executors : f # e => session'[f] = session[f]
    BY <1>2, <2>1, <2>3 DEF SandboxInv, SandboxTypes
  <2>5. SandboxTypes'
    BY <1>1, <2>1, <2>3 DEF SandboxInv, SandboxTypes, Handling
  <2>6. HandFits(at'[a], hand'[a]) /\ SessionFits(at'[a], hand'[a], session'[e])
    BY <1>3, <2>1, <2>4 DEF HandFits, SessionFits, EmptyHanded
  <2>7. \A b \in Boxes : session'[e] = b \/ hand'[a] = b => Has(e, b)
    BY <1>2, <2>1, <2>4, SandboxAssumption
  <2>8. QED
    BY <1>1, <1>2, <2>1, <2>4, <2>5, <2>6, <2>7, CallMoves
<1>6. QED
  BY <1>4, <1>5

-----------------------------------------------------------------------------
(* Giving a sandbox back, for a call or a cleanup                          *)

\* Whoever gives a sandbox back keeps it in hand or lets it go, and only what is let
\* go enters the pool.
LEMMA GivingBack ==
    ASSUME SandboxInv, NEW a \in Actors, GiveBack(a)
    PROVE  /\ SandboxTypes'
           /\ at[a] \in {"releasing", "pausing", "storing", "killing"} /\ hand[a] \in Boxes
           /\ ~(a \in Calls /\ a[1] \in stopping)
           /\ UNCHANGED <<session, stopping, cleanups, killing>>
           /\ \A x \in Actors : x # a => at'[x] = at[x] /\ hand'[x] = hand[x]
           /\ HandFits(at'[a], hand'[a]) /\ at'[a] # "using"
           /\ hand'[a] \in {NoBox, hand[a]}
           /\ \A b \in Boxes : box'[b] = "none" => box[b] = "none"
           /\ \A b \in Boxes : Contains(pool', b) =>
                 Contains(pool, b) \/ (hand[a] = b /\ hand'[a] # b)
<1>1. /\ at[a] \in {"releasing", "pausing", "storing", "killing"}
      /\ ~(a \in Calls /\ a[1] \in stopping)
      /\ UNCHANGED <<session, stopping, cleanups, killing>>
  BY DEF GiveBack, Reserve, Pause, Enter, Kill, Releases, ReleaseOnly
<1>2. hand[a] \in Boxes /\ hand[a] # NoBox
  BY <1>1, SandboxAssumption DEF SandboxInv, CallsFit, HandFits, EmptyHanded
<1>3. pool \in Seq(Entries) /\ Distinct(pool)
  BY DEF SandboxInv, SandboxTypes
<1>4. /\ \/ \E w \in {"pausing", "storing", "killing"} :
               at' = [at EXCEPT ![a] = w] /\ hand' = hand
         \/ \E w \in {"acquiring", "idle"} :
               at' = [at EXCEPT ![a] = w] /\ hand' = [hand EXCEPT ![a] = NoBox]
      /\ Enter(a) => hand' = [hand EXCEPT ![a] = NoBox]
  BY DEF GiveBack, Reserve, Pause, Enter, Kill, Released, Goto, Hold
<1>5. box' = box \/ \E s \in {"paused", "dead", "running"} : box' = [box EXCEPT ![hand[a]] = s]
  BY DEF GiveBack, Reserve, Pause, Enter, Kill, Becomes
<1>6. /\ pool' \in Seq(Entries) /\ Distinct(pool')
      /\ \A b \in Boxes : Contains(pool', b) => Contains(pool, b) \/ (Enter(a) /\ b = hand[a])
  <2>1. CASE pool' = pool
    BY <1>3, <2>1
  <2>2. CASE pool' = Append(pool, Reserved)
    <3>1. /\ Append(pool, Reserved) \in Seq(Entries) /\ Distinct(Append(pool, Reserved))
          /\ \A x \in Boxes : Contains(Append(pool, Reserved), x) => x = Reserved \/ Contains(pool, x)
      BY <1>3, AppendedList DEF Entries
    <3>2. QED
      BY <2>2, <3>1, SandboxAssumption
  <2>3. CASE Enter(a)
    <3>1. pool' = Entered(hand[a])
      BY <2>3 DEF Enter
    <3>2. /\ Entered(hand[a]) \in Seq(Entries) /\ Distinct(Entered(hand[a]))
          /\ \A x \in Boxes : Contains(Entered(hand[a]), x) => x = hand[a] \/ Contains(pool, x)
      <4>1. ~Contains(pool, hand[a])
        <5>1. InOnePlace(hand[a])
          BY <1>2 DEF SandboxInv
        <5>2. \E e \in Executors : Has(e, hand[a])
          BY <1>1, CallNames DEF Has, Actors
        <5>3. QED
          BY <5>1, <5>2 DEF InOnePlace
      <4>2. QED
        BY <1>2, <1>3, <4>1, EnteredList
    <3>3. QED
      BY <2>3, <3>1, <3>2
  <2>4. QED
    BY <2>1, <2>2, <2>3 DEF GiveBack, Reserve, Pause, Kill
<1>7. SandboxTypes'
  <2>1. box' \in [Boxes -> {"none", "running", "paused", "dead"}]
    BY <1>5 DEF SandboxInv, SandboxTypes
  <2>2. at' \in [Actors -> EmptyHanded \cup Handling] /\ hand' \in [Actors -> Boxes \cup {NoBox}]
    BY <1>4 DEF SandboxInv, SandboxTypes, EmptyHanded, Handling
  <2>3. QED
    BY <1>1, <1>6, <2>1, <2>2 DEF SandboxInv, SandboxTypes
<1>8. /\ \A x \in Actors : x # a => at'[x] = at[x] /\ hand'[x] = hand[x]
      /\ hand'[a] \in {NoBox, hand[a]}
      /\ Enter(a) => hand'[a] = NoBox
      /\ HandFits(at'[a], hand'[a]) /\ at'[a] # "using"
  BY <1>2, <1>4 DEF SandboxInv, SandboxTypes, HandFits, EmptyHanded
<1>9. \A b \in Boxes : box'[b] = "none" => box[b] = "none"
  BY <1>5 DEF SandboxInv, SandboxTypes
<1>10. \A b \in Boxes : Contains(pool', b) => Contains(pool, b) \/ (hand[a] = b /\ hand'[a] # b)
  BY <1>2, <1>6, <1>8
<1>11. QED
  BY <1>1, <1>2, <1>7, <1>8, <1>9, <1>10

LEMMA GiveBackKeeps == ASSUME SandboxInv, NEW a \in Actors, GiveBack(a) PROVE SandboxInv' /\ BoxesPass
<1>1. /\ SandboxTypes'
      /\ at[a] \in {"releasing", "pausing", "storing", "killing"} /\ hand[a] \in Boxes
      /\ ~(a \in Calls /\ a[1] \in stopping)
      /\ UNCHANGED <<session, stopping, cleanups, killing>>
      /\ \A x \in Actors : x # a => at'[x] = at[x] /\ hand'[x] = hand[x]
      /\ HandFits(at'[a], hand'[a]) /\ at'[a] # "using"
      /\ hand'[a] \in {NoBox, hand[a]}
      /\ \A b \in Boxes : box'[b] = "none" => box[b] = "none"
      /\ \A b \in Boxes : Contains(pool', b) =>
            Contains(pool, b) \/ (hand[a] = b /\ hand'[a] # b)
  BY GivingBack
<1>2. CASE a \in Calls
  <2>1. PICK e \in Executors :
           /\ a = CallOf(e) /\ a[1] = e /\ a \in Actors /\ e \notin stopping /\ cleanups[e] = 0
           /\ HandFits(at[a], hand[a]) /\ SessionFits(at[a], hand[a], session[e])
           /\ \A b \in Boxes : hand[a] = b => Has(e, b)
    BY <1>1, <1>2, GoesOn
  <2>2. session[e] = NoBox
    BY <1>1, <2>1 DEF SessionFits
  <2>3. SessionFits(at'[a], hand'[a], session'[e])
    BY <1>1, <2>2 DEF SessionFits
  <2>4. \A b \in Boxes : session'[e] # b
    BY <1>1, <2>2, SandboxAssumption
  <2>5. \A b \in Boxes : hand'[a] = b => Has(e, b)
    BY <1>1, <2>1, SandboxAssumption
  <2>6. QED
    BY <1>1, <2>1, <2>3, <2>4, <2>5, CallMoves
<1>3. CASE a \in Cleaners
  <2>1. PICK e \in Executors : a = CleanerOf(e) /\ a[1] = e
    BY <1>3, CallNames
  <2>2. cleanups[e] # 0
    BY <1>1, <2>1 DEF SandboxInv, CallsFit
  <2>3. QED
    BY <1>1, <2>1, <2>2, CleanerMoves
<1>4. QED
  BY <1>2, <1>3 DEF Actors

-----------------------------------------------------------------------------
(* Cleanup, cancellation, shutdown and the provider                        *)

LEMMA CleanupKeeps == ASSUME SandboxInv, NEW a \in Cleaners, Cleanup(a) PROVE SandboxInv' /\ BoxesPass
<1>1. PICK e \in Executors : a = CleanerOf(e) /\ a[1] = e
  BY CallNames
<1>2. a \in Actors /\ CallOf(e) \in Actors /\ a # CallOf(e)
  BY <1>1, CallNames
<1>3. /\ at[a] = "idle" /\ cleanups[e] < 2
      /\ cleanups' = [cleanups EXCEPT ![e] = @ + 1]
      /\ stopping' = IF at[CallOf(e)] # "idle" THEN stopping \cup {e} ELSE stopping
      /\ UNCHANGED <<box, pool, killing>>
  BY <1>1 DEF Cleanup, CallOf
<1>4. cleanups[e] \in 0..2
  BY DEF SandboxInv, SandboxTypes
<1>5. /\ cleanups' \in [Executors -> 0..2] /\ cleanups'[e] # 0
      /\ \A f \in Executors : f # e => cleanups'[f] = cleanups[f]
  BY <1>3, <1>4 DEF SandboxInv, SandboxTypes
<1>6. /\ stopping' \subseteq Executors /\ stopping \subseteq stopping'
      /\ (at[CallOf(e)] # "idle" => e \in stopping')
      /\ \A f \in Executors : f # e => (f \in stopping' <=> f \in stopping)
  BY <1>3 DEF SandboxInv, SandboxTypes
<1>7. /\ session' \in [Executors -> Boxes \cup {NoBox}] /\ session'[e] = NoBox
      /\ \A f \in Executors : f # e => session'[f] = session[f]
      /\ at' \in [Actors -> EmptyHanded \cup Handling] /\ hand' \in [Actors -> Boxes \cup {NoBox}]
      /\ \A x \in Actors : x # a => at'[x] = at[x] /\ hand'[x] = hand[x]
      /\ HandFits(at'[a], hand'[a])
      /\ hand'[a] \in {hand[a], session[e]}
  <2>1. CASE session[e] = NoBox
    <3>1. session' = session /\ hand' = hand /\ at' = at
      BY <1>1, <2>1 DEF Cleanup
    <3>2. HandFits(at[a], hand[a])
      BY <1>2 DEF SandboxInv, CallsFit
    <3>3. QED
      BY <2>1, <3>1, <3>2 DEF SandboxInv, SandboxTypes
  <2>2. CASE session[e] # NoBox
    <3>1. /\ session' = [session EXCEPT ![e] = NoBox] /\ hand' = [hand EXCEPT ![a] = session[e]]
          /\ at' = [at EXCEPT ![a] = "releasing"] /\ session[e] \in Boxes
      BY <1>1, <2>2 DEF Cleanup, Goto, Hold, SandboxInv, SandboxTypes
    <3>2. QED
      BY <1>2, <3>1 DEF SandboxInv, SandboxTypes, HandFits, EmptyHanded, Handling
  <2>3. QED
    BY <2>1, <2>2
<1>8. SandboxTypes'
  BY <1>3, <1>5, <1>6, <1>7 DEF SandboxInv, SandboxTypes
<1>9. CallsFit'
  <2>1. \A x \in Actors : HandFits(at'[x], hand'[x])
    BY <1>7 DEF SandboxInv, CallsFit
  <2>2. ASSUME NEW f \in Executors
        PROVE  /\ f \notin stopping' => SessionFits(at'[CallOf(f)], hand'[CallOf(f)], session'[f])
               /\ cleanups'[f] # 0 => session'[f] = NoBox /\ (at'[CallOf(f)] # "idle" => f \in stopping')
               /\ cleanups'[f] = 0 => at'[CleanerOf(f)] = "idle" /\ f \notin stopping'
    <3>1. CallOf(f) \in Actors /\ CallOf(f) # a /\ CleanerOf(f) \in Actors
      BY <1>1, CallNames
    <3>2. at'[CallOf(f)] = at[CallOf(f)] /\ hand'[CallOf(f)] = hand[CallOf(f)]
      BY <1>7, <3>1
    <3>3. CASE f = e
      <4>1. e \notin stopping' => SessionFits(at'[CallOf(e)], hand'[CallOf(e)], session'[e])
        BY <1>6, <3>2, <3>3 DEF SessionFits
      <4>2. QED
        BY <1>5, <1>6, <1>7, <3>2, <3>3, <4>1
    <3>4. CASE f # e
      <4>1. CleanerOf(f) # a
        BY <1>1, <3>4, CallNames
      <4>2. QED
        BY <1>5, <1>6, <1>7, <3>1, <3>2, <3>4, <4>1 DEF SandboxInv, CallsFit
    <3>5. QED
      BY <3>3, <3>4
  <2>3. QED
    BY <2>1, <2>2 DEF CallsFit
<1>10. ASSUME NEW f \in Executors, NEW b \in Boxes, Has(f, b)' PROVE Has(f, b)
  <2>1. CallOf(f) \in Actors /\ CleanerOf(f) \in Actors /\ CallOf(f) # a
    BY <1>1, CallNames
  <2>2. CASE f = e
    BY <1>1, <1>6, <1>7, <1>10, <2>1, <2>2, SandboxAssumption DEF Has
  <2>3. CASE f # e
    <3>1. CleanerOf(f) # a
      BY <1>1, <2>3, CallNames
    <3>2. QED
      BY <1>6, <1>7, <1>10, <2>1, <2>3, <3>1 DEF Has
  <2>4. QED
    BY <2>2, <2>3
<1>11. \A b \in Boxes : InOnePlace(b)'
  BY <1>3, <1>10 DEF SandboxInv, InOnePlace
<1>12. BoxesPass
  BY <1>3, <1>10 DEF SandboxInv, InOnePlace, Passes, BoxesPass
<1>13. QED
  BY <1>8, <1>9, <1>11, <1>12 DEF SandboxInv

LEMMA CancelledKeeps == ASSUME SandboxInv, NEW a \in Actors, Cancelled(a) PROVE SandboxInv' /\ BoxesPass
<1>1. /\ at[a] # "idle" /\ (a \in Calls => a[1] \in stopping)
      /\ UNCHANGED <<pool, session, cleanups, killing>>
      /\ at' = [at EXCEPT ![a] = "idle"] /\ hand' = [hand EXCEPT ![a] = NoBox]
      /\ stopping' = IF a \in Calls THEN stopping \ {a[1]} ELSE stopping
  BY DEF Cancelled, Goto, Hold
<1>2. \/ box' = box
      \/ \E b \in Boxes \cup {hand[a]}, s \in {"running", "paused", "dead"} : box' = [box EXCEPT ![b] = s]
  <2>1. box' \in Afterwards(a)
    BY DEF Cancelled
  <2>2. CASE at[a] = "connecting" /\ box[hand[a]] = "paused"
    BY <2>1, <2>2 DEF Afterwards
  <2>3. CASE at[a] = "creating"
    <3>1. Afterwards(a) = {box} \cup {[box EXCEPT ![b] = "running"] : b \in Fresh}
      BY <2>3 DEF Afterwards
    <3>2. QED
      BY <2>1, <3>1 DEF Fresh
  <2>4. CASE at[a] = "pausing" /\ box[hand[a]] = "running"
    BY <2>1, <2>4 DEF Afterwards
  <2>5. CASE at[a] = "killing"
    BY <2>1, <2>5 DEF Afterwards
  <2>6. CASE /\ ~(at[a] = "connecting" /\ box[hand[a]] = "paused") /\ at[a] # "creating"
             /\ ~(at[a] = "pausing" /\ box[hand[a]] = "running") /\ at[a] # "killing"
    BY <2>1, <2>6 DEF Afterwards
  <2>7. QED
    BY <2>2, <2>3, <2>4, <2>5, <2>6
<1>3. /\ box' \in [Boxes -> {"none", "running", "paused", "dead"}]
      /\ \A b \in Boxes : box'[b] = "none" => box[b] = "none"
  BY <1>2 DEF SandboxInv, SandboxTypes
<1>4. /\ at' \in [Actors -> EmptyHanded \cup Handling] /\ hand' \in [Actors -> Boxes \cup {NoBox}]
      /\ at'[a] = "idle" /\ hand'[a] = NoBox
      /\ \A x \in Actors : x # a => at'[x] = at[x] /\ hand'[x] = hand[x]
  BY <1>1 DEF SandboxInv, SandboxTypes, EmptyHanded
<1>5. SandboxTypes'
  BY <1>1, <1>3, <1>4 DEF SandboxInv, SandboxTypes
<1>6. CASE a \in Cleaners
  <2>1. PICK e \in Executors : a = CleanerOf(e) /\ a[1] = e
    BY <1>6, CallNames
  <2>2. cleanups[e] # 0 /\ a \notin Calls
    BY <1>1, <2>1, CallNames DEF SandboxInv, CallsFit
  <2>3. HandFits(at'[a], hand'[a])
    BY <1>4 DEF HandFits, EmptyHanded
  <2>4. stopping' = stopping
    BY <1>1, <2>2
  <2>5. hand'[a] \in {NoBox, hand[a]} /\ UNCHANGED <<stopping, cleanups, killing, session>>
    BY <1>1, <1>4, <2>4
  <2>6. QED
    BY <1>1, <1>3, <1>4, <1>5, <2>1, <2>2, <2>3, <2>5, CleanerMoves
<1>7. CASE a \in Calls
  <2>1. PICK e \in Executors : a = CallOf(e) /\ a[1] = e
    BY <1>7, CallNames
  <2>2. e \in stopping /\ stopping' = stopping \ {e}
    BY <1>1, <1>7, <2>1
  <2>3. cleanups[e] # 0 /\ session[e] = NoBox
    BY <2>2 DEF SandboxInv, CallsFit
  <2>4. CallsFit'
    <3>1. \A x \in Actors : HandFits(at'[x], hand'[x])
      BY <1>4 DEF SandboxInv, CallsFit, HandFits, EmptyHanded
    <3>2. ASSUME NEW f \in Executors
          PROVE  /\ f \notin stopping' => SessionFits(at'[CallOf(f)], hand'[CallOf(f)], session'[f])
                 /\ cleanups'[f] # 0 => session'[f] = NoBox /\ (at'[CallOf(f)] # "idle" => f \in stopping')
                 /\ cleanups'[f] = 0 => at'[CleanerOf(f)] = "idle" /\ f \notin stopping'
      <4>1. CallOf(f) \in Actors /\ CleanerOf(f) \in Actors /\ CleanerOf(f) # a
        BY <2>1, CallNames
      <4>2. CASE f = e
        BY <1>1, <1>4, <2>1, <2>3, <4>2 DEF SessionFits
      <4>3. CASE f # e
        <5>1. CallOf(f) # a
          BY <2>1, <4>3, CallNames
        <5>2. QED
          BY <1>1, <1>4, <2>2, <4>1, <4>3, <5>1 DEF SandboxInv, CallsFit
      <4>4. QED
        BY <4>2, <4>3
    <3>3. QED
      BY <3>1, <3>2 DEF CallsFit
  <2>5. ASSUME NEW f \in Executors, NEW b \in Boxes, Has(f, b)' PROVE Has(f, b)
    <3>1. CallOf(f) \in Actors /\ CleanerOf(f) \in Actors /\ CleanerOf(f) # a
      BY <2>1, CallNames
    <3>2. CASE f = e
      BY <1>1, <1>4, <2>1, <2>5, <3>1, <3>2, SandboxAssumption DEF Has
    <3>3. CASE f # e
      <4>1. CallOf(f) # a
        BY <2>1, <3>3, CallNames
      <4>2. QED
        BY <1>1, <1>4, <2>2, <2>5, <3>1, <3>3, <4>1 DEF Has
    <3>4. QED
      BY <3>2, <3>3
  <2>6. \A b \in Boxes : InOnePlace(b)'
    BY <1>1, <1>3, <2>5 DEF SandboxInv, InOnePlace
  <2>7. BoxesPass
    BY <1>1, <1>3, <2>5 DEF SandboxInv, InOnePlace, Passes, BoxesPass
  <2>8. QED
    BY <1>5, <2>4, <2>6, <2>7 DEF SandboxInv
<1>8. QED
  BY <1>6, <1>7 DEF Actors

\* A step in which nothing but the pool, the sandboxes and what drain kills changes.
LEMMA OutsideKeeps ==
    ASSUME SandboxInv, UNCHANGED <<session, at, hand, stopping, cleanups>>,
           Drain \/ (\E b \in Boxes : DrainKill(b) \/ Expire(b)) \/ UNCHANGED <<box, pool, killing>>
    PROVE  SandboxInv' /\ BoxesPass
<1>1. CallsFit' /\ \A e \in Executors, b \in Boxes : Has(e, b)' <=> Has(e, b)
  BY DEF SandboxInv, CallsFit, Has
<1>2. CASE Drain
  <2>1. killing' = ToSet(pool) \ {Reserved} /\ pool' = <<>> /\ box' = box
    BY <1>2 DEF Drain
  <2>2. <<>> \in Seq(Entries) /\ Len(<<>>) = 0 /\ 1..0 = {}
    BY EmptySeq
  <2>3. \A b \in Boxes : ~Contains(pool', b)
    BY <2>1, <2>2 DEF Contains
  <2>4. killing' \subseteq Boxes /\ \A b \in killing' : Contains(pool, b)
    BY <2>1 DEF SandboxInv, SandboxTypes, ToSet, Contains, Entries
  <2>5. SandboxTypes'
    BY <2>1, <2>2, <2>4 DEF SandboxInv, SandboxTypes, Distinct
  <2>6. \A b \in Boxes : InOnePlace(b)'
    BY <1>1, <2>1, <2>3, <2>4 DEF SandboxInv, InOnePlace
  <2>7. BoxesPass
    BY <1>1, <2>1, <2>3 DEF SandboxInv, InOnePlace, Passes, BoxesPass
  <2>8. QED
    BY <1>1, <2>5, <2>6, <2>7 DEF SandboxInv
<1>3. CASE \/ \E b \in Boxes : DrainKill(b) \/ Expire(b)
           \/ UNCHANGED <<box, pool, killing>>
  <2>1. /\ pool' = pool /\ killing' \subseteq killing
        /\ box' = box \/ \E b \in Boxes : box' = [box EXCEPT ![b] = "dead"]
    BY <1>3 DEF DrainKill, Expire, Becomes
  <2>2. /\ box' \in [Boxes -> {"none", "running", "paused", "dead"}]
        /\ \A b \in Boxes : box'[b] = "none" => box[b] = "none"
    BY <2>1 DEF SandboxInv, SandboxTypes
  <2>3. SandboxTypes'
    BY <2>1, <2>2 DEF SandboxInv, SandboxTypes, Distinct
  <2>4. \A b \in Boxes : InOnePlace(b)'
    BY <1>1, <2>1, <2>2 DEF SandboxInv, InOnePlace
  <2>5. BoxesPass
    BY <1>1, <2>1, <2>2 DEF SandboxInv, InOnePlace, Passes, BoxesPass
  <2>6. QED
    BY <1>1, <2>3, <2>4, <2>5 DEF SandboxInv
<1>4. QED
  BY <1>2, <1>3

-----------------------------------------------------------------------------
(* The theorems                                                            *)

LEMMA SandboxSteps == SandboxInv /\ [SandboxNext]_sandboxVars => SandboxInv' /\ BoxesPass
<1> SUFFICES ASSUME SandboxInv, [SandboxNext]_sandboxVars PROVE SandboxInv' /\ BoxesPass
  OBVIOUS
<1>1. ASSUME NEW a \in Calls, Call(a) \/ Borrow(a) \/ Work(a) PROVE SandboxInv' /\ BoxesPass
  BY <1>1, CallKeeps, BorrowKeeps, PopKeeps, AdoptKeeps, LetGoKeeps DEF Borrow, Work
<1>2. ASSUME NEW a \in Actors, GiveBack(a) \/ Cancelled(a) PROVE SandboxInv' /\ BoxesPass
  BY <1>2, GiveBackKeeps, CancelledKeeps
<1>3. ASSUME NEW a \in Cleaners, Cleanup(a) PROVE SandboxInv' /\ BoxesPass
  BY <1>3, CleanupKeeps
<1>4. CASE Drain
  BY <1>4, OutsideKeeps DEF Drain
<1>5. CASE \E b \in Boxes : DrainKill(b) \/ Expire(b)
  BY <1>5, OutsideKeeps DEF DrainKill, Expire
<1>6. CASE UNCHANGED sandboxVars
  BY <1>6, OutsideKeeps DEF sandboxVars
<1>7. QED
  BY <1>1, <1>2, <1>3, <1>4, <1>5, <1>6 DEF SandboxNext

\* Whatever tool calls, releases, cleanups, cancellations, expiries and a drain do
\* (executor.py, e2b_provider.py, e2b_pool.py): a call in progress works with its
\* executor's session, an executor cleaned up has none, and a sandbox is with one
\* executor, in the pool, about to be killed, or not created.
THEOREM SandboxInvariant == SandboxSpec => []SandboxInv
<1>1. SandboxInit => SandboxInv
  BY SandboxStarts
<1>2. SandboxInv /\ [SandboxNext]_sandboxVars => SandboxInv'
  BY SandboxSteps
<1>3. QED
  BY <1>1, <1>2, PTL DEF SandboxSpec

\* No sandbox is in two conversations, twice in the pool, or in the pool and in use,
\* for any number of executors and sandboxes and any size of the pool (e2b_pool.py:64
\* acquire, :92 release; executor.py _get_sandbox_session, cleanup).
THEOREM SandboxesExclusive == SandboxSpec => []Exclusive
<1>1. SandboxInv => Exclusive
  <2> SUFFICES ASSUME SandboxInv, NEW b \in Boxes
               PROVE  /\ Cardinality(Holders(b)) + Cardinality(PooledAt(b)) <= 1
                      /\ b \in killing => Holders(b) = {} /\ PooledAt(b) = {}
    BY DEF Exclusive
  <2>1. InOnePlace(b)
    BY DEF SandboxInv
  <2>2. Holders(b) = {e \in Executors : Has(e, b)}
    BY DEF Holders, Has, CallOf, CleanerOf
  <2>3. pool \in Seq(Entries) /\ Distinct(pool) /\ b # Reserved
    BY SandboxAssumption DEF SandboxInv, SandboxTypes
  <2>4. DOMAIN pool = 1..Len(pool)
    BY <2>3
  <2>5. PooledAt(b) # {} => Contains(pool, b)
    BY <2>4 DEF PooledAt, Contains
  <2>6. Cardinality({}) = 0 /\ \A x : Cardinality({x}) = 1
    BY FS_EmptySet, FS_Singleton
  <2>7. PooledAt(b) = {} \/ \E i : PooledAt(b) = {i}
    <3>1. \A i, j \in PooledAt(b) : i = j
      BY <2>3, <2>4 DEF PooledAt, Distinct
    <3>2. QED
      BY <3>1
  <2>8. Holders(b) = {} \/ \E e : Holders(b) = {e}
    <3>1. \A e, f \in Holders(b) : e = f
      BY <2>1, <2>2 DEF InOnePlace
    <3>2. QED
      BY <3>1
  <2>9. Holders(b) = {} \/ PooledAt(b) = {}
    BY <2>1, <2>2, <2>5 DEF InOnePlace
  <2>10. Cardinality(Holders(b)) + Cardinality(PooledAt(b)) <= 1
    <3>1. Cardinality(Holders(b)) = 0 \/ Cardinality(Holders(b)) = 1
      BY <2>6, <2>8
    <3>2. Cardinality(PooledAt(b)) = 0 \/ Cardinality(PooledAt(b)) = 1
      BY <2>6, <2>7
    <3>3. Cardinality(Holders(b)) = 0 \/ Cardinality(PooledAt(b)) = 0
      BY <2>6, <2>9
    <3>4. QED
      BY <3>1, <3>2, <3>3
  <2>11. b \in killing => Holders(b) = {} /\ PooledAt(b) = {}
    BY <2>1, <2>2, <2>5 DEF InOnePlace
  <2>12. QED
    BY <2>10, <2>11
<1>2. QED
  BY <1>1, SandboxInvariant, PTL

-----------------------------------------------------------------------------
(* The slots of the pool                                                   *)

Slots(s) == {i \in 1..Len(s) : s[i] = Reserved}

LEMMA SlotsFinite ==
    ASSUME NEW s \in Seq(Entries)
    PROVE  IsFiniteSet(Slots(s)) /\ Cardinality(Slots(s)) \in Nat
<1>1. IsFiniteSet(1..Len(s))
  BY LenProperties, FS_Interval
<1>2. Slots(s) \in SUBSET (1..Len(s))
  BY DEF Slots
<1>3. IsFiniteSet(Slots(s))
  BY <1>1, <1>2, FS_Subset
<1>4. QED
  BY <1>3, FS_CardinalityType

LEMMA SlotsAppended ==
    ASSUME NEW s \in Seq(Entries), NEW b \in Entries
    PROVE  /\ Cardinality(Slots(Append(s, b))) = Cardinality(Slots(s)) + IF b = Reserved THEN 1 ELSE 0
           /\ Len(Append(s, b)) = Len(s) + 1
           /\ \A x : Contains(s, x) => Contains(Append(s, b), x)
<1> DEFINE t == Append(s, b)
<1>1. /\ t \in Seq(Entries) /\ Len(t) = Len(s) + 1 /\ Len(s) \in Nat
      /\ \A i \in 1..Len(s) : t[i] = s[i]
      /\ t[Len(s) + 1] = b
  BY AppendProperties, LenProperties
<1> HIDE DEF t
<1>2. \A i \in 1..Len(t) : i \in 1..Len(s) \/ i = Len(s) + 1
  BY <1>1
<1>3. \A x : Contains(s, x) => Contains(t, x)
  BY <1>1 DEF Contains
<1>4. IsFiniteSet(Slots(s)) /\ Cardinality(Slots(s)) \in Nat
  BY SlotsFinite
<1>5. CASE b = Reserved
  <2>1. Slots(t) = Slots(s) \cup {Len(s) + 1} /\ Len(s) + 1 \notin Slots(s)
    <3>1. Len(s) + 1 \notin 1..Len(s) /\ Len(s) + 1 \in 1..Len(t) /\ \A i \in 1..Len(s) : i \in 1..Len(t)
      BY <1>1
    <3>2. ASSUME NEW i PROVE i \in Slots(t) <=> i \in Slots(s) \cup {Len(s) + 1}
      BY <1>1, <1>2, <1>5, <3>1 DEF Slots
    <3>3. QED
      BY <3>1, <3>2 DEF Slots
  <2>2. Cardinality(Slots(t)) = Cardinality(Slots(s)) + 1
    BY <1>4, <2>1, FS_AddElement
  <2>3. QED
    BY <1>1, <1>3, <1>5, <2>2 DEF t
<1>6. CASE b # Reserved
  <2>1. Slots(t) = Slots(s)
    BY <1>1, <1>2, <1>6 DEF Slots
  <2>2. QED
    BY <1>1, <1>3, <1>4, <1>6, <2>1 DEF t
<1>7. QED
  BY <1>5, <1>6

LEMMA SlotsFront ==
    ASSUME NEW s \in Seq(Entries), s # <<>>
    PROVE  /\ Cardinality(Slots(Front(s)))
                 = Cardinality(Slots(s)) - IF Last(s) = Reserved THEN 1 ELSE 0
           /\ Len(Front(s)) = Len(s) - 1 /\ Len(s) \in Nat
           /\ \A x : Contains(s, x) => x = Last(s) \/ Contains(Front(s), x)
<1> DEFINE t == Front(s)
<1>1. /\ Len(s) \in Nat \ {0} /\ Last(s) = s[Len(s)]
      /\ t \in Seq(Entries) /\ Len(t) = Len(s) - 1
      /\ \A i \in 1..(Len(s) - 1) : t[i] = s[i]
  BY FrontElements
<1> HIDE DEF t
<1>2. /\ \A i \in 1..Len(s) : i \in 1..Len(t) \/ i = Len(s)
      /\ \A i \in 1..Len(t) : i \in 1..Len(s) /\ i # Len(s) /\ t[i] = s[i]
  BY <1>1
<1>3. \A x : Contains(s, x) => x = Last(s) \/ Contains(t, x)
  BY <1>1, <1>2 DEF Contains
<1>4. IsFiniteSet(Slots(s)) /\ Cardinality(Slots(s)) \in Nat
  BY SlotsFinite
<1>5. CASE Last(s) = Reserved
  <2>1. Slots(t) = Slots(s) \ {Len(s)} /\ Len(s) \in Slots(s)
    <3>1. Len(s) \in 1..Len(s)
      BY <1>1
    <3>2. ASSUME NEW i PROVE i \in Slots(t) <=> i \in Slots(s) \ {Len(s)}
      BY <1>2 DEF Slots
    <3>3. Len(s) \in Slots(s)
      BY <1>1, <1>5, <3>1 DEF Slots
    <3>4. QED
      BY <3>2, <3>3 DEF Slots
  <2>2. Cardinality(Slots(t)) = Cardinality(Slots(s)) - 1
    BY <1>4, <2>1, FS_RemoveElement
  <2>3. QED
    BY <1>1, <1>3, <1>5, <2>2 DEF t
<1>6. CASE Last(s) # Reserved
  <2>1. Slots(t) = Slots(s)
    BY <1>1, <1>2, <1>6 DEF Slots
  <2>2. QED
    BY <1>1, <1>3, <1>4, <1>6, <2>1 DEF t
<1>7. QED
  BY <1>5, <1>6

LEMMA SlotsReplaced ==
    ASSUME NEW s \in Seq(Entries), NEW k \in 1..Len(s), s[k] = Reserved, NEW b \in Boxes
    PROVE  /\ Cardinality(Slots([s EXCEPT ![k] = b])) = Cardinality(Slots(s)) - 1
           /\ Len([s EXCEPT ![k] = b]) = Len(s)
           /\ Contains([s EXCEPT ![k] = b], b)
           /\ \A x \in Boxes : Contains(s, x) => Contains([s EXCEPT ![k] = b], x)
<1> DEFINE t == [s EXCEPT ![k] = b]
<1>1. /\ Len(t) = Len(s)
      /\ \A i \in 1..Len(s) : t[i] = IF i = k THEN b ELSE s[i]
  BY ExceptSeq DEF Entries
<1> HIDE DEF t
<1>2. Contains(t, b) /\ \A x \in Boxes : Contains(s, x) => Contains(t, x)
  BY <1>1, SandboxAssumption DEF Contains
<1>3. Slots(t) = Slots(s) \ {k} /\ k \in Slots(s)
  BY <1>1, SandboxAssumption DEF Slots
<1>4. Cardinality(Slots(t)) = Cardinality(Slots(s)) - 1
  BY <1>3, SlotsFinite, FS_RemoveElement
<1>5. QED
  BY <1>1, <1>2, <1>4 DEF t

LEMMA EnteredSlots ==
    ASSUME pool \in Seq(Entries), Len(pool) <= MaxPerKey, NEW b \in Boxes
    PROVE  /\ Len(Entered(b)) <= MaxPerKey
           /\ Contains(pool, Reserved) =>
                 /\ Cardinality(Slots(Entered(b))) = Cardinality(Slots(pool)) - 1
                 /\ Contains(Entered(b), b)
           /\ ~Contains(pool, Reserved) => Cardinality(Slots(Entered(b))) = 0
           /\ \A x \in Boxes : Contains(pool, x) => Contains(Entered(b), x)
<1>1. CASE Contains(pool, Reserved)
  <2> DEFINE I == {i \in 1..Len(pool) : pool[i] = Reserved}
  <2>1. I # {} /\ I \in SUBSET Nat
    BY <1>1 DEF Contains
  <2>2. PICK k \in I : k = Min(I)
    BY <2>1, LeastOf
  <2>3. Entered(b) = [pool EXCEPT ![k] = b]
    BY <1>1, <2>1, <2>2 DEF Entered, SelectInSeq
  <2>4. k \in 1..Len(pool) /\ pool[k] = Reserved
    BY <2>2
  <2> HIDE DEF I
  <2>5. QED
    <3>1. /\ Cardinality(Slots([pool EXCEPT ![k] = b])) = Cardinality(Slots(pool)) - 1
          /\ Len([pool EXCEPT ![k] = b]) = Len(pool)
          /\ Contains([pool EXCEPT ![k] = b], b)
          /\ \A x \in Boxes : Contains(pool, x) => Contains([pool EXCEPT ![k] = b], x)
      BY <2>4, SlotsReplaced
    <3>2. QED
      BY <1>1, <2>3, <3>1
<1>2. CASE ~Contains(pool, Reserved)
  <2>1. Slots(pool) = {}
    BY <1>2 DEF Slots, Contains
  <2>2. Cardinality(Slots(pool)) = 0
    BY <2>1, FS_EmptySet
  <2>3. CASE Len(pool) < MaxPerKey
    <3>1. Entered(b) = Append(pool, b) /\ b \in Entries /\ b # Reserved
      BY <1>2, <2>3, SandboxAssumption DEF Entered, Entries
    <3>2. Len(pool) \in Nat
      BY LenProperties
    <3>3. QED
      BY <1>2, <2>2, <2>3, <3>1, <3>2, SlotsAppended, SandboxAssumption
  <2>4. CASE ~(Len(pool) < MaxPerKey)
    BY <1>2, <2>2, <2>4 DEF Entered
  <2>5. QED
    BY <2>3, <2>4
<1>3. QED
  BY <1>1, <1>2

-----------------------------------------------------------------------------
(* Reservations and releases                                               *)

Live == {"running", "paused"}
Kept(b) ==
    \/ Contains(pool, b)
    \/ \E e \in Executors : session[e] = b
    \/ \E a \in Actors : hand[a] = b

\* Each reservation has its release, or one that was cancelled; and as long as nothing has
\* gone wrong no release is without its reservation, so that it finds a place to enter.
SlotInv ==
    /\ Len(pool) <= MaxPerKey
    /\ IsFiniteSet(InProgress) /\ cut \in Nat
    /\ Cardinality(Slots(pool)) <= Cardinality(InProgress) + cut
    /\ ~mishap /\ ~drained =>
          /\ Cardinality(Slots(pool)) = Cardinality(InProgress)
          /\ \A b \in Boxes : box[b] \in Live => Kept(b)

LEMMA SlotsStart == SandboxInit => SlotInv
<1> SUFFICES ASSUME SandboxInit PROVE SlotInv
  OBVIOUS
<1>1. Len(<<>>) = 0 /\ 1..0 = {}
  BY EmptySeq
<1>2. Slots(pool) = {} /\ InProgress = {}
  BY <1>1 DEF SandboxInit, Slots, InProgress
<1>3. IsFiniteSet({}) /\ Cardinality({}) = 0
  BY FS_EmptySet
<1>4. /\ Cardinality(Slots(pool)) = 0 /\ Cardinality(InProgress) = 0 /\ IsFiniteSet(InProgress)
      /\ cut = 0 /\ Len(pool) = 0 /\ \A b \in Boxes : box[b] = "none"
  BY <1>1, <1>2, <1>3 DEF SandboxInit
<1>5. QED
  BY <1>4, SandboxAssumption DEF SlotInv, Live

\* How one actor's step changes who is in the middle of a release.
LEMMA ProgressMoves ==
    ASSUME SandboxInv, NEW a \in Actors, NEW w, at' = [at EXCEPT ![a] = w]
    PROVE  /\ (at[a] \in {"pausing", "storing"} <=> w \in {"pausing", "storing"})
                 => InProgress' = InProgress
           /\ at[a] \notin {"pausing", "storing"} /\ w \in {"pausing", "storing"}
                 => InProgress' = InProgress \cup {a} /\ a \notin InProgress
           /\ at[a] \in {"pausing", "storing"} /\ w \notin {"pausing", "storing"}
                 => InProgress' = InProgress \ {a} /\ a \in InProgress
<1>1. at'[a] = w /\ \A x \in Actors : x # a => at'[x] = at[x]
  BY DEF SandboxInv, SandboxTypes
<1>2. QED
  BY <1>1 DEF InProgress

\* A step that leaves the releases alone.
LEMMA SlotsMove ==
    ASSUME SandboxInv, SandboxInv', SlotInv, InProgress' = InProgress, cut' = cut,
           Len(pool') <= MaxPerKey, Cardinality(Slots(pool')) <= Cardinality(Slots(pool)),
           ~mishap' /\ ~drained' =>
              /\ ~mishap /\ ~drained /\ Cardinality(Slots(pool')) = Cardinality(Slots(pool))
              /\ \A b \in Boxes : box'[b] \in Live =>
                    Kept(b)' \/ (box[b] \in Live /\ (Kept(b) => Kept(b)'))
    PROVE  SlotInv'
<1>1. /\ Cardinality(Slots(pool)) \in Nat /\ Cardinality(Slots(pool')) \in Nat
      /\ Cardinality(InProgress) \in Nat
  BY SlotsFinite, FS_CardinalityType DEF SandboxInv, SandboxTypes, SlotInv
<1>2. Cardinality(Slots(pool')) <= Cardinality(InProgress) + cut
  BY <1>1 DEF SlotInv
<1>3. QED
  BY <1>2 DEF SlotInv

LEMMA CallSlots ==
    ASSUME SandboxInv, SandboxInv', SlotInv, NEW a \in Calls,
           Call(a) \/ LockPool(a) \/ PoolEmpty(a) \/ UseEnds(a) \/ UseStale(a)
    PROVE  SlotInv'
<1>1. a \in Actors
  BY DEF Actors
<1>2. UNCHANGED <<box, pool, cut, drained, mishap>>
  BY DEF Call, LockPool, PoolEmpty, UseEnds, UseStale, CallOnly
<1>3. at[a] \notin {"pausing", "storing"}
  BY DEF Call, LockPool, PoolEmpty, UseEnds, UseStale, CallAt
<1>4. \E w \in {"using", "acquiring", "looking", "creating", "idle", "releasing"} :
         at' = [at EXCEPT ![a] = w]
  BY DEF Call, LockPool, PoolEmpty, UseEnds, UseStale, Goto
<1>5. InProgress' = InProgress
  BY <1>1, <1>3, <1>4, ProgressMoves
<1>6. ASSUME NEW b \in Boxes, Kept(b) PROVE Kept(b)'
  <2>1. CASE LockPool(a) \/ PoolEmpty(a)
    BY <1>2, <1>6, <2>1 DEF LockPool, PoolEmpty, Kept
  <2>2. CASE Call(a)
    <3>1. at[a] = "idle" /\ session' = session /\ (hand' = hand \/ \E s : hand' = [hand EXCEPT ![a] = s])
      BY <2>2 DEF Call, Hold
    <3>2. hand[a] = NoBox
      BY <1>1, <3>1 DEF SandboxInv, CallsFit, HandFits, EmptyHanded
    <3>3. \A x \in Actors : hand[x] = b => hand'[x] = b
      BY <3>1, <3>2, SandboxAssumption DEF SandboxInv, SandboxTypes
    <3>4. QED
      BY <1>2, <1>6, <3>1, <3>3 DEF Kept
  <2>3. CASE UseEnds(a)
    <3>1. /\ at[a] = "using" /\ a[1] \notin stopping
          /\ session' = session /\ hand' = [hand EXCEPT ![a] = NoBox]
      BY <2>3 DEF UseEnds, CallAt, Hold
    <3>2. \E e \in Executors : session[e] = hand[a]
      BY <3>1, GoesOn DEF SessionFits
    <3>3. \A x \in Actors : x # a => hand'[x] = hand[x]
      BY <3>1 DEF SandboxInv, SandboxTypes
    <3>4. QED
      BY <1>2, <1>6, <3>1, <3>2, <3>3 DEF Kept
  <2>4. CASE UseStale(a)
    <3>1. /\ hand' = hand
          /\ \A f \in Executors : session'[f] = session[f] \/ session[f] = hand[a]
      BY <2>4 DEF UseStale, SandboxInv, SandboxTypes
    <3>2. QED
      BY <1>1, <1>2, <1>6, <3>1 DEF Kept
  <2>5. QED
    BY <2>1, <2>2, <2>3, <2>4
<1>7. Cardinality(Slots(pool)) \in Nat
  BY SlotsFinite DEF SandboxInv, SandboxTypes
<1>8. QED
  BY <1>2, <1>5, <1>6, <1>7, SlotsMove DEF SlotInv

LEMMA PopSlots ==
    ASSUME SandboxInv, SandboxInv', SlotInv, NEW a \in Calls, PopEntry(a) \/ PopReserved(a)
    PROVE  SlotInv'
<1>1. a \in Actors
  BY DEF Actors
<1>2. /\ at[a] = "looking" /\ a[1] \notin stopping /\ pool # <<>> /\ pool' = Front(pool)
      /\ UNCHANGED <<box, session, cut, drained>>
  BY Zenon DEF PopEntry, PopReserved, CallAt, CallOnly
<1>3. hand[a] = NoBox
  BY <1>1, <1>2 DEF SandboxInv, CallsFit, HandFits, EmptyHanded
<1>4. /\ Cardinality(Slots(pool')) = Cardinality(Slots(pool)) - IF Last(pool) = Reserved THEN 1 ELSE 0
      /\ Len(pool') = Len(pool) - 1 /\ Len(pool) \in Nat
      /\ \A x : Contains(pool, x) => x = Last(pool) \/ Contains(pool', x)
      /\ Cardinality(Slots(pool)) \in Nat
  BY <1>2, SlotsFront, SlotsFinite DEF SandboxInv, SandboxTypes
<1>5. Len(pool') <= MaxPerKey
  BY <1>4, SandboxAssumption DEF SlotInv
<1>6. CASE at' = [at EXCEPT ![a] = "connecting"] /\ hand' = [hand EXCEPT ![a] = Last(pool)]
           /\ mishap' = mishap /\ Last(pool) # Reserved
  <2>1. InProgress' = InProgress
    BY <1>1, <1>2, <1>6, ProgressMoves
  <2>2. hand'[a] = Last(pool) /\ \A x \in Actors : x # a => hand'[x] = hand[x]
    BY <1>1, <1>6 DEF SandboxInv, SandboxTypes
  <2>3. \A b \in Boxes : Kept(b) => Kept(b)'
    BY <1>1, <1>2, <1>3, <1>4, <2>2, SandboxAssumption DEF Kept
  <2>4. QED
    BY <1>2, <1>4, <1>5, <1>6, <2>1, <2>3, SlotsMove
<1>7. CASE mishap' = TRUE /\ (at' = at \/ at' = [at EXCEPT ![a] = "idle"])
  <2>1. InProgress' = InProgress
    BY <1>1, <1>2, <1>7, ProgressMoves DEF InProgress
  <2>2. Cardinality(Slots(pool')) <= Cardinality(Slots(pool))
    BY <1>4
  <2>3. QED
    BY <1>2, <1>5, <1>7, <2>1, <2>2, SlotsMove
<1>8. QED
  BY Zenon, <1>6, <1>7 DEF PopEntry, PopReserved, Goto, Hold

LEMMA AdoptSlots ==
    ASSUME SandboxInv, SandboxInv', SlotInv, NEW a \in Calls, Connect(a) \/ Create(a)
    PROVE  SlotInv'
<1>1. /\ at[a] \in {"connecting", "creating"} /\ a[1] \notin stopping /\ a \in Actors
      /\ UNCHANGED <<pool, cut, drained, mishap>>
  BY DEF Connect, Create, CallAt, CallOnly, Actors
<1>2. PICK e \in Executors :
         a[1] = e /\ HandFits(at[a], hand[a]) /\ SessionFits(at[a], hand[a], session[e])
  BY <1>1, GoesOn
<1>3. session[e] = NoBox
  BY <1>1, <1>2 DEF SessionFits
<1>4. PICK b \in Boxes : Adopt(a, b) /\ (hand[a] = b \/ hand[a] = NoBox)
  <2>1. CASE Connect(a)
    <3>1. Adopt(a, hand[a]) /\ at[a] = "connecting"
      BY <2>1 DEF Connect, CallAt
    <3>2. hand[a] \in Boxes
      BY <1>2, <3>1 DEF HandFits, EmptyHanded
    <3>3. QED
      BY <3>1, <3>2
  <2>2. CASE Create(a)
    <3>1. at[a] = "creating" /\ \E b \in Boxes : Adopt(a, b)
      BY <2>2 DEF Create, CallAt, Fresh
    <3>2. hand[a] = NoBox
      BY <1>2, <3>1 DEF HandFits, EmptyHanded
    <3>3. QED
      BY <3>1, <3>2
  <2>3. QED
    BY <2>1, <2>2
<1>5. /\ session' = [session EXCEPT ![e] = b] /\ hand' = [hand EXCEPT ![a] = b]
      /\ box' = [box EXCEPT ![b] = "running"] /\ at' = [at EXCEPT ![a] = "using"]
  BY <1>2, <1>4 DEF Adopt, Hold, Becomes, Goto
<1>6. InProgress' = InProgress
  BY <1>1, <1>5, ProgressMoves
<1>7. /\ session'[e] = b /\ \A f \in Executors : f # e => session'[f] = session[f]
      /\ hand'[a] = b /\ \A x \in Actors : x # a => hand'[x] = hand[x]
      /\ \A x \in Boxes : x # b => box'[x] = box[x]
  BY <1>1, <1>5 DEF SandboxInv, SandboxTypes
<1>8. ASSUME NEW x \in Boxes, box'[x] \in Live
      PROVE  Kept(x)' \/ (box[x] \in Live /\ (Kept(x) => Kept(x)'))
  <2>1. CASE x = b
    BY <1>7, <2>1 DEF Kept
  <2>2. CASE x # b
    BY <1>1, <1>3, <1>4, <1>7, <1>8, <2>2, SandboxAssumption DEF Kept
  <2>3. QED
    BY <2>1, <2>2
<1>9. Cardinality(Slots(pool)) \in Nat
  BY SlotsFinite DEF SandboxInv, SandboxTypes
<1>10. QED
  BY <1>1, <1>6, <1>8, <1>9, SlotsMove DEF SlotInv

\* Something has failed, so that only the bounds are at stake.
LEMMA FailedSlots ==
    ASSUME SandboxInv, SandboxInv', SlotInv, NEW a \in Calls, ConnectFails(a) \/ CreateFails(a)
    PROVE  SlotInv'
<1>1. /\ a \in Actors /\ at[a] \in {"connecting", "creating"} /\ mishap' = TRUE
      /\ UNCHANGED <<pool, cut>>
      /\ \E w \in {"looking", "idle"} : at' = [at EXCEPT ![a] = w]
  BY DEF ConnectFails, CreateFails, CallAt, CallOnly, Goto, Actors
<1>2. InProgress' = InProgress
  BY <1>1, ProgressMoves
<1>3. Cardinality(Slots(pool)) \in Nat
  BY SlotsFinite DEF SandboxInv, SandboxTypes
<1>4. QED
  BY <1>1, <1>2, <1>3, SlotsMove DEF SlotInv

LEMMA ReserveSlots ==
    ASSUME SandboxInv, SandboxInv', SlotInv, NEW a \in Actors, Reserve(a)
    PROVE  SlotInv'
<1>1. /\ at[a] = "releasing"
      /\ UNCHANGED <<box, session, hand, cut, drained, mishap>>
  BY DEF Reserve, Releases, ReleaseOnly
<1>2. /\ pool \in Seq(Entries) /\ Len(pool) \in Nat /\ Cardinality(Slots(pool)) \in Nat
      /\ IsFiniteSet(InProgress) /\ Cardinality(InProgress) \in Nat
  BY LenProperties, SlotsFinite, FS_CardinalityType DEF SandboxInv, SandboxTypes, SlotInv
<1>3. CASE Len(pool) < MaxPerKey /\ pool' = Append(pool, Reserved) /\ at' = [at EXCEPT ![a] = "pausing"]
  <2>1. /\ Cardinality(Slots(pool')) = Cardinality(Slots(pool)) + 1 /\ Len(pool') = Len(pool) + 1
        /\ \A x : Contains(pool, x) => Contains(pool', x)
    BY <1>2, <1>3, SlotsAppended DEF Entries
  <2>2. InProgress' = InProgress \cup {a} /\ a \notin InProgress
    BY <1>1, <1>3, ProgressMoves
  <2>3. IsFiniteSet(InProgress') /\ Cardinality(InProgress') = Cardinality(InProgress) + 1
    BY <1>2, <2>2, FS_AddElement
  <2>4. \A b \in Boxes : Kept(b) => Kept(b)'
    BY <1>1, <2>1 DEF Kept
  <2>5. Len(pool') <= MaxPerKey
    BY <1>2, <1>3, <2>1, SandboxAssumption
  <2>6. Cardinality(Slots(pool')) <= Cardinality(InProgress') + cut'
    BY <1>1, <1>2, <2>1, <2>3 DEF SlotInv
  <2>7. QED
    BY <1>1, <2>1, <2>3, <2>4, <2>5, <2>6 DEF SlotInv
<1>4. CASE pool' = pool /\ at' = [at EXCEPT ![a] = "killing"]
  <2>1. InProgress' = InProgress
    BY <1>1, <1>4, ProgressMoves
  <2>2. \A b \in Boxes : Kept(b) => Kept(b)'
    BY <1>1, <1>4 DEF Kept
  <2>3. QED
    BY <1>1, <1>2, <1>4, <2>1, <2>2, SlotsMove DEF SlotInv
<1>5. QED
  BY <1>3, <1>4 DEF Reserve, Goto

LEMMA PauseSlots ==
    ASSUME SandboxInv, SandboxInv', SlotInv, NEW a \in Actors, Pause(a)
    PROVE  SlotInv'
<1>1. /\ at[a] = "pausing" /\ at' = [at EXCEPT ![a] = "storing"]
      /\ UNCHANGED <<pool, session, hand, cut, drained>>
  BY DEF Pause, Releases, ReleaseOnly, Goto
<1>2. InProgress' = InProgress
  BY <1>1, ProgressMoves
<1>3. \A b \in Boxes : Kept(b) => Kept(b)'
  BY <1>1 DEF Kept
<1>4. ~mishap' => ~mishap /\ (box' = box \/ box' = [box EXCEPT ![hand[a]] = "paused"])
  BY DEF Pause, Becomes
<1>5. ~mishap' => \A b \in Boxes : box'[b] \in Live => Kept(b)' \/ box[b] \in Live
  <2>1. \A b \in Boxes : hand[a] = b => Kept(b)'
    BY <1>1 DEF Kept
  <2>2. QED
    BY <1>4, <2>1 DEF SandboxInv, SandboxTypes
<1>6. Cardinality(Slots(pool)) \in Nat
  BY SlotsFinite DEF SandboxInv, SandboxTypes
<1>7. QED
  BY <1>1, <1>2, <1>3, <1>4, <1>5, <1>6, SlotsMove DEF SlotInv

LEMMA EnterSlots ==
    ASSUME SandboxInv, SandboxInv', SlotInv, NEW a \in Actors, Enter(a)
    PROVE  SlotInv'
<1>1. /\ at[a] = "storing" /\ pool' = Entered(hand[a]) /\ hand' = [hand EXCEPT ![a] = NoBox]
      /\ UNCHANGED <<box, session, cut, drained, mishap>>
  BY DEF Enter, Releases, ReleaseOnly, Released, Hold
<1>2. \E w \in {"acquiring", "idle"} : at' = [at EXCEPT ![a] = w]
  BY DEF Enter, Released, Goto
<1>3. hand[a] \in Boxes
  BY <1>1 DEF SandboxInv, CallsFit, HandFits, EmptyHanded
<1>4. /\ pool \in Seq(Entries) /\ Cardinality(Slots(pool)) \in Nat /\ Cardinality(Slots(pool')) \in Nat
      /\ IsFiniteSet(InProgress) /\ Cardinality(InProgress) \in Nat /\ cut \in Nat
  BY SlotsFinite, FS_CardinalityType DEF SandboxInv, SandboxTypes, SlotInv
<1>5. /\ Len(pool') <= MaxPerKey
      /\ Contains(pool, Reserved) =>
            Cardinality(Slots(pool')) = Cardinality(Slots(pool)) - 1 /\ Contains(pool', hand[a])
      /\ ~Contains(pool, Reserved) => Cardinality(Slots(pool')) = 0
      /\ \A x \in Boxes : Contains(pool, x) => Contains(pool', x)
  BY <1>1, <1>3, <1>4, EnteredSlots DEF SlotInv
<1>6. InProgress' = InProgress \ {a} /\ a \in InProgress
  BY <1>1, <1>2, ProgressMoves
<1>7. /\ IsFiniteSet(InProgress') /\ Cardinality(InProgress') = Cardinality(InProgress) - 1
      /\ Cardinality(InProgress') \in Nat
  BY <1>4, <1>6, FS_RemoveElement, FS_CardinalityType
<1>8. Cardinality(Slots(pool')) <= Cardinality(InProgress') + cut'
  <2>1. CASE Contains(pool, Reserved)
    BY <1>1, <1>4, <1>5, <1>7, <2>1 DEF SlotInv
  <2>2. CASE ~Contains(pool, Reserved)
    BY <1>1, <1>4, <1>5, <1>7, <2>2
  <2>3. QED
    BY <2>1, <2>2
<1>9. ASSUME ~mishap', ~drained'
      PROVE  /\ Cardinality(Slots(pool')) = Cardinality(InProgress')
             /\ \A b \in Boxes : box'[b] \in Live => Kept(b)'
  <2>1. /\ Cardinality(Slots(pool)) = Cardinality(InProgress)
        /\ \A b \in Boxes : box[b] \in Live => Kept(b)
    BY <1>1, <1>9 DEF SlotInv
  <2>2. Contains(pool, Reserved)
    <3>1. Slots(pool) # {}
      <4>1. Cardinality(Slots(pool)) # 0
        BY <1>4, <1>7, <2>1
      <4>2. QED
        BY <4>1, FS_EmptySet
    <3>2. QED
      BY <3>1 DEF Slots, Contains
  <2>3. \A x \in Actors : x # a => hand'[x] = hand[x]
    BY <1>1 DEF SandboxInv, SandboxTypes
  <2>4. \A b \in Boxes : Kept(b) => Kept(b)'
    BY <1>1, <1>5, <2>2, <2>3 DEF Kept
  <2>5. QED
    BY <1>1, <1>4, <1>5, <1>7, <2>1, <2>2, <2>4
<1>10. QED
  BY <1>1, <1>4, <1>5, <1>7, <1>8, <1>9 DEF SlotInv

LEMMA KillSlots ==
    ASSUME SandboxInv, SandboxInv', SlotInv, NEW a \in Actors, Kill(a)
    PROVE  SlotInv'
<1>1. /\ at[a] = "killing" /\ hand' = [hand EXCEPT ![a] = NoBox]
      /\ UNCHANGED <<pool, session, cut, drained>>
  BY DEF Kill, Releases, ReleaseOnly, Released, Hold
<1>2. \E w \in {"acquiring", "idle"} : at' = [at EXCEPT ![a] = w]
  BY DEF Kill, Released, Goto
<1>3. InProgress' = InProgress
  BY <1>1, <1>2, ProgressMoves
<1>4. ~mishap' => ~mishap /\ box' = [box EXCEPT ![hand[a]] = "dead"]
  BY DEF Kill, Becomes
<1>5. \A x \in Actors : x # a => hand'[x] = hand[x]
  BY <1>1 DEF SandboxInv, SandboxTypes
<1>6. ~mishap' => \A b \in Boxes : box'[b] \in Live => box[b] \in Live /\ (Kept(b) => Kept(b)')
  <2>1. ASSUME ~mishap', NEW b \in Boxes, box'[b] \in Live PROVE box[b] \in Live /\ b # hand[a]
    BY <1>4, <2>1 DEF SandboxInv, SandboxTypes, Live
  <2>2. \A b \in Boxes : b # hand[a] /\ Kept(b) => Kept(b)'
    BY <1>1, <1>5 DEF Kept
  <2>3. QED
    BY <2>1, <2>2
<1>7. Cardinality(Slots(pool)) \in Nat
  BY SlotsFinite DEF SandboxInv, SandboxTypes
<1>8. QED
  BY <1>1, <1>3, <1>4, <1>6, <1>7, SlotsMove DEF SlotInv

LEMMA CleanupSlots ==
    ASSUME SandboxInv, SandboxInv', SlotInv, NEW a \in Cleaners, Cleanup(a)
    PROVE  SlotInv'
<1>1. PICK e \in Executors : a[1] = e /\ a \in Actors
  BY CallNames DEF Actors
<1>2. at[a] = "idle" /\ UNCHANGED <<box, pool, cut, drained, mishap>>
  BY DEF Cleanup
<1>3. hand[a] = NoBox
  BY <1>1, <1>2 DEF SandboxInv, CallsFit, HandFits, EmptyHanded
<1>4. CASE UNCHANGED <<session, hand, at>>
  <2>1. InProgress' = InProgress /\ \A b \in Boxes : Kept(b) => Kept(b)'
    BY <1>2, <1>4 DEF InProgress, Kept
  <2>2. Cardinality(Slots(pool)) \in Nat
    BY SlotsFinite DEF SandboxInv, SandboxTypes
  <2>3. QED
    BY <1>2, <2>1, <2>2, SlotsMove DEF SlotInv
<1>5. CASE /\ session' = [session EXCEPT ![e] = NoBox] /\ hand' = [hand EXCEPT ![a] = session[e]]
           /\ at' = [at EXCEPT ![a] = "releasing"]
  <2>1. InProgress' = InProgress
    BY <1>1, <1>2, <1>5, ProgressMoves
  <2>2. /\ hand'[a] = session[e] /\ \A x \in Actors : x # a => hand'[x] = hand[x]
        /\ \A f \in Executors : f # e => session'[f] = session[f]
    BY <1>1, <1>5 DEF SandboxInv, SandboxTypes
  <2>3. \A b \in Boxes : Kept(b) => Kept(b)'
    BY <1>1, <1>2, <1>3, <2>2, SandboxAssumption DEF Kept
  <2>4. Cardinality(Slots(pool)) \in Nat
    BY SlotsFinite DEF SandboxInv, SandboxTypes
  <2>5. QED
    BY <1>2, <2>1, <2>3, <2>4, SlotsMove DEF SlotInv
<1>6. QED
  BY <1>1, <1>4, <1>5 DEF Cleanup, Goto, Hold

LEMMA CancelledSlots ==
    ASSUME SandboxInv, SandboxInv', SlotInv, NEW a \in Actors, Cancelled(a)
    PROVE  SlotInv'
<1>1. /\ at' = [at EXCEPT ![a] = "idle"] /\ pool' = pool /\ mishap' = TRUE
      /\ cut' = IF at[a] \in {"pausing", "storing"} THEN cut + 1 ELSE cut
  BY DEF Cancelled, Goto
<1>2. /\ Cardinality(Slots(pool)) \in Nat
      /\ IsFiniteSet(InProgress) /\ Cardinality(InProgress) \in Nat /\ cut \in Nat
  BY SlotsFinite, FS_CardinalityType DEF SandboxInv, SandboxTypes, SlotInv
<1>3. CASE at[a] \in {"pausing", "storing"}
  <2>1. InProgress' = InProgress \ {a} /\ a \in InProgress
    <3>1. \E w \in {"idle"} : at' = [at EXCEPT ![a] = w]
      BY <1>1
    <3>2. QED
      BY <1>3, <3>1, ProgressMoves
  <2>2. IsFiniteSet(InProgress') /\ Cardinality(InProgress') = Cardinality(InProgress) - 1
    BY <1>2, <2>1, FS_RemoveElement
  <2>3. cut' = cut + 1
    BY <1>1, <1>3
  <2>4. Cardinality(Slots(pool')) <= Cardinality(InProgress') + cut'
    BY <1>1, <1>2, <2>2, <2>3 DEF SlotInv
  <2>5. QED
    BY <1>1, <1>2, <2>2, <2>3, <2>4 DEF SlotInv
<1>4. CASE at[a] \notin {"pausing", "storing"}
  <2>1. InProgress' = InProgress /\ cut' = cut
    BY <1>1, <1>4, ProgressMoves
  <2>2. QED
    BY <1>1, <1>2, <2>1, SlotsMove DEF SlotInv
<1>5. QED
  BY <1>3, <1>4

LEMMA OutsideSlots ==
    ASSUME SandboxInv, SandboxInv', SlotInv,
           Drain \/ (\E b \in Boxes : DrainKill(b) \/ Expire(b)) \/ UNCHANGED sandboxVars
    PROVE  SlotInv'
<1>1. InProgress' = InProgress /\ cut' = cut
  BY DEF Drain, DrainKill, Expire, sandboxVars, InProgress
<1>2. Cardinality(Slots(pool)) \in Nat
  BY SlotsFinite DEF SandboxInv, SandboxTypes
<1>3. CASE Drain
  <2>1. pool' = <<>> /\ drained' = TRUE
    BY <1>3 DEF Drain
  <2>2. Len(<<>>) = 0 /\ 1..0 = {}
    BY EmptySeq
  <2>3. Slots(pool') = {} /\ Len(pool') <= MaxPerKey
    BY <2>1, <2>2, SandboxAssumption DEF Slots
  <2>4. Cardinality(Slots(pool')) <= Cardinality(Slots(pool))
    BY <1>2, <2>3, FS_EmptySet
  <2>5. QED
    BY <1>1, <2>1, <2>3, <2>4, SlotsMove
<1>4. CASE (\E b \in Boxes : DrainKill(b) \/ Expire(b)) \/ UNCHANGED sandboxVars
  <2>1. /\ UNCHANGED <<pool, session, hand, drained>>
        /\ ~mishap' => ~mishap /\ (box' = box \/ \E b \in Boxes : box' = [box EXCEPT ![b] = "dead"])
    BY <1>4 DEF DrainKill, Expire, Becomes, sandboxVars
  <2>2. \A b \in Boxes : Kept(b) => Kept(b)'
    BY <2>1 DEF Kept
  <2>3. ~mishap' => \A b \in Boxes : box'[b] \in Live => box[b] \in Live
    BY <2>1 DEF SandboxInv, SandboxTypes, Live
  <2>4. QED
    BY <1>1, <1>2, <2>1, <2>2, <2>3, SlotsMove DEF SlotInv
<1>5. QED
  BY <1>3, <1>4

\* The list never outgrows max_per_key, each reservation is of a release in progress or of
\* one that was cancelled, and while nothing has gone wrong no sandbox is lost: a release
\* finds its reservation, whoever acquires and releases meanwhile (e2b_pool.py:64, :92).
THEOREM SandboxesPooled == SandboxSpec => []PoolKept
<1>1. SandboxInit => SandboxInv /\ SlotInv
  BY SandboxStarts, SlotsStart
<1>2. SandboxInv /\ SlotInv /\ [SandboxNext]_sandboxVars => (SandboxInv /\ SlotInv)'
  <2> SUFFICES ASSUME SandboxInv, SlotInv, [SandboxNext]_sandboxVars PROVE SandboxInv' /\ SlotInv'
    OBVIOUS
  <2>1. SandboxInv'
    BY SandboxSteps
  <2>2. ASSUME NEW a \in Calls, Call(a) \/ Borrow(a) \/ Work(a) PROVE SlotInv'
    BY <2>1, <2>2, CallSlots, PopSlots, AdoptSlots, FailedSlots DEF Borrow, Work
  <2>3. ASSUME NEW a \in Actors, GiveBack(a) \/ Cancelled(a) PROVE SlotInv'
    BY <2>1, <2>3, ReserveSlots, PauseSlots, EnterSlots, KillSlots, CancelledSlots DEF GiveBack
  <2>4. ASSUME NEW a \in Cleaners, Cleanup(a) PROVE SlotInv'
    BY <2>1, <2>4, CleanupSlots
  <2>5. CASE Drain \/ (\E b \in Boxes : DrainKill(b) \/ Expire(b)) \/ UNCHANGED sandboxVars
    BY <2>1, <2>5, OutsideSlots
  <2>6. QED
    BY <2>1, <2>2, <2>3, <2>4, <2>5 DEF SandboxNext
<1>3. SandboxInv /\ SlotInv => SlotsAccounted /\ NothingLost
  <2> SUFFICES ASSUME SandboxInv, SlotInv PROVE SlotsAccounted /\ NothingLost
    OBVIOUS
  <2>1. pool \in Seq(Entries) /\ DOMAIN pool = 1..Len(pool)
    BY DEF SandboxInv, SandboxTypes
  <2>2. PooledAt(Reserved) = Slots(pool)
    BY <2>1 DEF PooledAt, Slots
  <2>3. SlotsAccounted
    BY <2>2 DEF SlotInv, SlotsAccounted
  <2>4. ASSUME NEW b \in Boxes, Kept(b)
        PROVE  Holders(b) # {} \/ PooledAt(b) # {} \/ \E a \in Calls : hand[a] = b
    <3>1. CASE Contains(pool, b)
      BY <2>1, <3>1 DEF PooledAt, Contains
    <3>2. CASE \E e \in Executors : session[e] = b
      BY <3>2 DEF Holders
    <3>3. CASE \E a \in Actors : hand[a] = b
      <4>1. PICK a \in Actors : hand[a] = b
        BY <3>3
      <4>2. CASE a \in Cleaners
        <5>1. PICK e \in Executors : a = <<e, "clean">>
          BY <4>2, CallNames DEF CleanerOf
        <5>2. e \in Holders(b)
          BY <4>1, <5>1 DEF Holders
        <5>3. QED
          BY <5>2
      <4>3. QED
        BY <4>1, <4>2 DEF Actors
    <3>4. QED
      BY <2>4, <3>1, <3>2, <3>3 DEF Kept
  <2>5. NothingLost
    BY <2>4 DEF SlotInv, NothingLost, Live
  <2>6. QED
    BY <2>3, <2>5
<1>4. Exclusive /\ SlotsAccounted /\ NothingLost <=> PoolKept
  BY DEF PoolKept
<1>5. QED
  BY <1>1, <1>2, <1>3, <1>4, SandboxesExclusive, PTL DEF SandboxSpec

-----------------------------------------------------------------------------
(* The pool lends its sandboxes                                            *)

\* The three views of a sandbox that Lending has.
LEMMA ViewsAre ==
    ASSUME SandboxTypes, NEW b \in Boxes
    PROVE  /\ LentBoxes[b] = {e \in Executors : Has(e, b)}
           /\ b \in PooledBoxes <=> Contains(pool, b)
           /\ b \in CreatedBoxes <=> box[b] # "none"
<1>1. Holders(b) = {e \in Executors : Has(e, b)}
  BY DEF Holders, Has, CallOf, CleanerOf
<1>2. DOMAIN pool = 1..Len(pool)
  BY DEF SandboxTypes
<1>3. PooledAt(b) # {} <=> Contains(pool, b)
  BY <1>2 DEF PooledAt, Contains
<1>4. QED
  BY <1>1, <1>3 DEF LentBoxes, PooledBoxes, CreatedBoxes

LEMMA ViewsNext ==
    ASSUME SandboxTypes', NEW b \in Boxes
    PROVE  /\ LentBoxes'[b] = {e \in Executors : Has(e, b)'}
           /\ b \in PooledBoxes' <=> Contains(pool', b)
           /\ b \in CreatedBoxes' <=> box'[b] # "none"
<1>1. Holders(b)' = {e \in Executors : Has(e, b)'}
  BY DEF Holders, Has, CallOf, CleanerOf
<1>2. DOMAIN pool' = 1..Len(pool')
  BY DEF SandboxTypes
<1>3. PooledAt(b)' # {} <=> Contains(pool', b)
  BY <1>2 DEF PooledAt, Contains
<1>4. QED
  BY <1>1, <1>3 DEF LentBoxes, PooledBoxes, CreatedBoxes

\* A sandbox that goes where Passes lets it is lent, put back, retired, or stays.
LEMMA PassesLends ==
    ASSUME SandboxInv, SandboxInv', NEW b \in Boxes, Passes(b)
    PROVE  Loans!Stay(b) \/ Loans!Lend(b) \/ Loans!PutBack(b) \/ Loans!Retire(b)
<1>1. PICK now, next : now = {e \in Executors : Has(e, b)} /\ next = {e \in Executors : Has(e, b)'}
  OBVIOUS
<1>2. /\ LentBoxes[b] = now /\ LentBoxes'[b] = next
      /\ b \in PooledBoxes <=> Contains(pool, b)
      /\ b \in PooledBoxes' <=> Contains(pool', b)
      /\ b \in CreatedBoxes <=> box[b] # "none"
      /\ b \in CreatedBoxes' <=> box'[b] # "none"
  BY <1>1, ViewsAre, ViewsNext DEF SandboxInv
<1>3. InOnePlace(b) /\ InOnePlace(b)'
  BY DEF SandboxInv
<1>4. (now = {} \/ \E e \in Executors : now = {e}) /\ (now # {} => ~Contains(pool, b) /\ box[b] # "none")
  BY <1>1, <1>3 DEF InOnePlace
<1>5. (next = {} \/ \E e \in Executors : next = {e}) /\ (next # {} => ~Contains(pool', b) /\ box'[b] # "none")
  BY <1>1, <1>3 DEF InOnePlace
<1>6. Contains(pool', b) => box'[b] # "none"
  BY <1>3 DEF InOnePlace
<1>7. now # {} /\ next # {} => now = next
  BY <1>1, <1>4, <1>5 DEF Passes
<1>8. /\ box'[b] = "none" => box[b] = "none"
      /\ box[b] = "none" => ~Contains(pool', b)
      /\ box[b] # "none" /\ ~Contains(pool, b) /\ now = {} => ~Contains(pool', b) /\ next = {}
  BY <1>1 DEF Passes
<1>9. CASE next # {} /\ now # {}
  BY <1>2, <1>4, <1>5, <1>7, <1>8, <1>9 DEF Loans!Stay
<1>10. CASE next # {} /\ now = {}
  BY <1>2, <1>5, <1>8, <1>10 DEF Loans!Lend
<1>11. CASE next = {} /\ Contains(pool', b)
  <2>1. CASE now = {}
    BY <1>2, <1>6, <1>8, <1>11, <2>1 DEF Loans!Stay
  <2>2. CASE now # {}
    BY <1>2, <1>4, <1>6, <1>11, <2>2 DEF Loans!PutBack
  <2>3. QED
    BY <2>1, <2>2
<1>12. CASE next = {} /\ ~Contains(pool', b)
  <2>1. CASE box'[b] = "none"
    BY <1>2, <1>3, <1>4, <1>8, <1>12, <2>1 DEF Loans!Stay, InOnePlace
  <2>2. CASE box'[b] # "none"
    BY <1>2, <1>12, <2>2 DEF Loans!Retire
  <2>3. QED
    BY <2>1, <2>2
<1>13. QED
  BY <1>9, <1>10, <1>11, <1>12

LEMMA LendingSteps == SandboxInv /\ [SandboxNext]_sandboxVars => [Loans!LendingNext]_(Loans!lendingVars)
<1> SUFFICES ASSUME SandboxInv, [SandboxNext]_sandboxVars PROVE Loans!LendingNext
  OBVIOUS
<1>1. SandboxInv' /\ BoxesPass
  BY SandboxSteps
<1>2. \A b \in Boxes : Loans!Stay(b) \/ Loans!Lend(b) \/ Loans!PutBack(b) \/ Loans!Retire(b)
  BY <1>1, PassesLends DEF BoxesPass
<1>3. /\ CreatedBoxes' \subseteq Boxes /\ PooledBoxes' \subseteq Boxes
      /\ LentBoxes' \in [Boxes -> SUBSET Executors]
  BY DEF CreatedBoxes, PooledBoxes, LentBoxes, Holders
<1>4. QED
  BY <1>2, <1>3 DEF Loans!LendingNext

\* The tool executors and the pool keep what Lending promises, for any number of executors
\* and sandboxes: a sandbox is one executor's until that one has put it back, and what was
\* killed, drained, given up or lost in a cancelled step serves nobody again
\* (executor.py _get_sandbox_session, cleanup; e2b_pool.py acquire, release, drain).
THEOREM SandboxesLend == SandboxSpec => ImplementsLending
<1>1. ASSUME SandboxInit PROVE Loans!LendingInit
  <2>1. \A b \in Boxes : Holders(b) = {} /\ PooledAt(b) = {}
    BY <1>1, CallNames, SandboxAssumption DEF SandboxInit, Holders, PooledAt, CallOf, CleanerOf
  <2>2. CreatedBoxes = {} /\ PooledBoxes = {} /\ LentBoxes = [b \in Boxes |-> {}]
    BY <1>1, <2>1 DEF SandboxInit, CreatedBoxes, PooledBoxes, LentBoxes
  <2>3. QED
    BY <2>2 DEF Loans!LendingInit
<1>2. QED
  BY <1>1, LendingSteps, SandboxInvariant, PTL DEF SandboxSpec, ImplementsLending, Loans!LendingSpec
==============================================================================
