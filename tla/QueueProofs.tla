----------------------------- MODULE QueueProofs ----------------------------
(***************************************************************************)
(* Facts about the two queues of the firmware that the proofs about their  *)
(* users cite by name, for every size: the index arithmetic of ring_buf.c, *)
(* and what posting an event to the system loop and taking the oldest one  *)
(* do to the places of an event and to their number.                       *)
(***************************************************************************)
EXTENDS EventQueue, FiniteSetTheorems, TLAPS

(* The defining property of % for a buffer of n slots.                     *)
LEMMA ModDef ==
    ASSUME NEW n \in Nat \ {0}, NEW i \in Int
    PROVE  /\ i \div n \in Int
           /\ i = (n * (i \div n)) + (i % n)
           /\ i % n \in 0 .. n - 1
OBVIOUS

(* A multiple of the length that is not zero is at least as long.          *)
LEMMA MultipleIsLong ==
    ASSUME NEW n \in Nat \ {0}, NEW q \in Int, q >= 1
    PROVE  n * q >= n
OBVIOUS

(* Two indices less than a buffer apart live in different slots.           *)
LEMMA ResiduesDiffer ==
    ASSUME NEW n \in Nat \ {0}, NEW i \in Int, NEW j \in Int, i < j, j < i + n
    PROVE  i % n # j % n
<1> SUFFICES ASSUME i % n = j % n PROVE FALSE
    OBVIOUS
<1> DEFINE p == i \div n
           q == j \div n
<1>1. p \in Int /\ q \in Int
    BY ModDef
<1>2. i = (n * p) + (i % n) /\ j = (n * q) + (j % n) /\ i % n \in Int
    BY ModDef
<1> HIDE DEF p, q
<1>3. j - i = n * q - n * p
    BY <1>1, <1>2
<1>4. n * q - n * p = n * (q - p)
    BY <1>1
<1>5. CASE q - p >= 1
    BY <1>1, <1>3, <1>4, <1>5, MultipleIsLong
<1>6. CASE q - p <= 0
    BY <1>1, <1>3, <1>4, <1>6
<1> QED BY <1>1, <1>5, <1>6

(* A remainder in range is the remainder.                                  *)
LEMMA ResidueUnique ==
    ASSUME NEW n \in Nat \ {0}, NEW i \in Int, NEW q \in Int, NEW r \in 0 .. n - 1,
           i = (n * q) + r
    PROVE  i % n = r
<1> DEFINE p == i \div n
           s == i % n
<1>1. p \in Int /\ i = (n * p) + s /\ s \in 0 .. n - 1
    BY ModDef
<1> HIDE DEF p, s
<1>2. n * p - n * q = r - s
    BY <1>1
<1>3. n * p - n * q = n * (p - q) /\ n * q - n * p = n * (q - p)
    BY <1>1
<1>4. p - q < 1
    BY <1>1, <1>2, <1>3, MultipleIsLong
<1>5. q - p < 1
    BY <1>1, <1>2, <1>3, MultipleIsLong
<1>6. p = q
    BY <1>1, <1>4, <1>5
<1>7. s = r
    BY <1>1, <1>2, <1>6
<1> QED BY <1>7 DEF s

(* The slot after the slot of an index is the slot of the next index.      *)
LEMMA NextResidue ==
    ASSUME NEW n \in Nat, n >= 2, NEW i \in Int
    PROVE  ((i % n) + 1) % n = (i + 1) % n
<1> DEFINE p == i \div n
           s == i % n
<1>1. n \in Nat \ {0} /\ p \in Int /\ i = (n * p) + s /\ s \in 0 .. n - 1
    BY ModDef
<1> HIDE DEF p, s
<1>2. CASE s + 1 < n
  <2>1. (s + 1) % n = s + 1
      BY <1>1, <1>2
  <2>2. i + 1 = (n * p) + (s + 1) /\ s + 1 \in 0 .. n - 1
      BY <1>1, <1>2
  <2>3. (i + 1) % n = s + 1
      BY <1>1, <2>2, ResidueUnique
  <2> QED BY <2>1, <2>3 DEF s
<1>3. CASE s + 1 = n
  <2>1. (s + 1) % n = 0
      BY <1>1, <1>3, ResidueUnique
  <2>2. i + 1 = (n * (p + 1)) + 0 /\ 0 \in 0 .. n - 1 /\ p + 1 \in Int
      BY <1>1, <1>3
  <2>3. (i + 1) % n = 0
      BY <1>1, <2>2, ResidueUnique
  <2> QED BY <2>1, <2>3 DEF s
<1> QED BY <1>1, <1>2, <1>3

(* An event has finitely many places.                                     *)
LEMMA PostedFinite ==
    ASSUME NEW Events, NEW e, NEW q \in Seq(Events)
    PROVE  IsFiniteSet(Posted(e, q)) /\ Cardinality(Posted(e, q)) \in Nat
<1>1. IsFiniteSet(1 .. Len(q))
    BY FS_Interval
<1>2. Posted(e, q) \subseteq 1 .. Len(q)
    BY DEF Posted
<1> QED BY <1>1, <1>2, FS_Subset, FS_CardinalityType

(* Posting adds the new place, if the event is the one.                  *)
LEMMA PostedAppend ==
    ASSUME NEW Events, NEW e, NEW q \in Seq(Events),
           NEW x \in Events
    PROVE  /\ x = e => Posted(e, Append(q, x)) = Posted(e, q) \cup {Len(q) + 1}
           /\ x # e => Posted(e, Append(q, x)) = Posted(e, q)
    BY DEF Posted

(* Posting an event adds one to its number and nothing to the others.    *)
LEMMA CountAppend ==
    ASSUME NEW Events, NEW e, NEW q \in Seq(Events),
           NEW x \in Events
    PROVE  Cardinality(Posted(e, Append(q, x))) =
             Cardinality(Posted(e, q)) + (IF x = e THEN 1 ELSE 0)
<1>1. Len(q) + 1 \notin Posted(e, q)
    BY DEF Posted
<1>2. CASE x = e
  <2>1. Posted(e, Append(q, x)) = Posted(e, q) \cup {Len(q) + 1}
      BY <1>2, PostedAppend
  <2> QED BY <1>1, <1>2, <2>1, PostedFinite, FS_AddElement
<1>3. CASE x # e
  <2>1. Posted(e, Append(q, x)) = Posted(e, q)
      BY <1>3, PostedAppend
  <2> QED BY <1>3, <2>1, PostedFinite
<1> QED BY <1>2, <1>3

(* Taking the oldest event subtracts one from its number.                *)
LEMMA CountTail ==
    ASSUME NEW Events, NEW e, NEW q \in Seq(Events), q # <<>>
    PROVE  Cardinality(Posted(e, Tail(q))) =
             Cardinality(Posted(e, q)) - (IF Head(q) = e THEN 1 ELSE 0)
<1> DEFINE S == Posted(e, q) \ {1}
           T == Posted(e, Tail(q))
           f == [i \in S |-> i - 1]
<1>1. Len(q) \in Nat /\ Len(q) > 0 /\ Head(q) = q[1]
    OBVIOUS
<1>2. /\ Tail(q) \in Seq(Events) /\ Len(Tail(q)) = Len(q) - 1
      /\ \A i \in 1 .. Len(q) - 1 : Tail(q)[i] = q[i + 1]
    OBVIOUS
<1>3. f \in Bijection(S, T)
  <2>1. \A i \in S : f[i] \in T
      BY <1>1, <1>2 DEF Posted
  <2>2. \A i, j \in S : f[i] = f[j] => i = j
      BY <1>1 DEF Posted
  <2>3. \A k \in T : \E i \in S : f[i] = k
    <3> SUFFICES ASSUME NEW k \in T PROVE \E i \in S : f[i] = k
        OBVIOUS
    <3>1. k \in 1 .. Len(q) - 1 /\ q[k + 1] = e
        BY <1>1, <1>2 DEF Posted
    <3>2. k + 1 \in S
        BY <1>1, <3>1 DEF Posted
    <3> QED BY <3>1, <3>2
  <2>4. f \in [S -> T]
      BY <2>1
  <2> HIDE DEF f, S, T
  <2>5. f \in Injection(S, T)
      BY <2>2, <2>4 DEF Injection, IsInjective
  <2>6. f \in Surjection(S, T)
      BY <2>3, <2>4 DEF Surjection
  <2> QED BY <2>5, <2>6 DEF Bijection
<1>4. IsFiniteSet(S) /\ Cardinality(S) =
        IF 1 \in Posted(e, q) THEN Cardinality(Posted(e, q)) - 1
        ELSE Cardinality(Posted(e, q))
    BY PostedFinite, FS_RemoveElement
<1>5. Cardinality(T) = Cardinality(S)
    BY <1>3, <1>4, FS_Bijection DEF ExistsBijection
<1>6. 1 \in Posted(e, q) <=> Head(q) = e
    BY <1>1 DEF Posted
<1> QED BY <1>4, <1>5, <1>6, PostedFinite

(* An event that is neither the oldest nor behind it is not in the queue. *)
LEMMA NonePosted ==
    ASSUME NEW Events, NEW e, NEW q \in Seq(Events), q # <<>>,
           Head(q) # e, Posted(e, Tail(q)) = {}
    PROVE  Posted(e, q) = {}
<1>1. Len(q) \in Nat /\ Len(q) > 0 /\ Head(q) = q[1]
    OBVIOUS
<1>2. /\ Tail(q) \in Seq(Events) /\ Len(Tail(q)) = Len(q) - 1
      /\ \A i \in 1 .. Len(q) - 1 : Tail(q)[i] = q[i + 1]
    OBVIOUS
<1> SUFFICES ASSUME NEW i \in 1 .. Len(q), q[i] = e PROVE FALSE
    BY DEF Posted
<1>3. i # 1
    BY <1>1
<1>4. i - 1 \in 1 .. Len(q) - 1 /\ Tail(q)[i - 1] = e
    BY <1>1, <1>2, <1>3
<1>5. i - 1 \in Posted(e, Tail(q))
    BY <1>1, <1>2, <1>4 DEF Posted
<1> QED BY <1>5
=============================================================================
