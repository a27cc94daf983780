-------------------------- MODULE EventQueueProofs --------------------------
(***************************************************************************)
(* The safety of the event manager, for every number of descriptors, every *)
(* set of clients and every delay and period.                              *)
(***************************************************************************)
EXTENDS EventQueueHistory, EventList, FiniteSetTheorems, WellFoundedInduction, TLAPS

\* Only periodic clients have periodic events.
KindsAgree ==
    \A s \in Slots : active[s] =>
        /\ client[s] \in Clients
        /\ loop_clock[s] # 0 <=> client[s] \in Periodic

\* reset() leaves no one-shot event behind it; only printers add new ones, and
\* no device is reset before the event manager is.
ResetProgress ==
    pc = "reset" =>
        /\ \A s \in Slots :
             s < scan /\ active[s] => loop_clock[s] # 0 \/ client[s] \in Forgetting
        /\ scan < MAX_EVENT => unreset = {Owner[c] : c \in Holders}

IInv ==
    /\ TypeOK
    /\ ListsPartitionSlots
    /\ FireOrdered
    /\ NeverLate
    /\ QuiescentAtTarget
    /\ KindsAgree
    /\ IdsMatchEvents
    /\ ResetProgress
-----------------------------------------------------------------------------
(* What linking and unlinking an element does to a list: InsertAt,         *)
(* RemoveAt, Tail and pushing.                                             *)

(* The elements of a concatenation. *)
LEMMA ConcatIndex ==
    ASSUME NEW S, NEW s \in Seq(S), NEW t \in Seq(S)
    PROVE /\ s \o t \in Seq(S) /\ Len(s \o t) = Len(s) + Len(t)
          /\ \A i \in 1 .. Len(s) + Len(t) : (s \o t)[i] = IF i <= Len(s) THEN s[i] ELSE t[i - Len(s)]
  OBVIOUS
(* The elements of three concatenated lists. *)
LEMMA Splice ==
    ASSUME NEW S, NEW a \in Seq(S), NEW m \in Seq(S), NEW b \in Seq(S)
    PROVE  /\ a \o m \o b \in Seq(S)
           /\ Len(a \o m \o b) = Len(a) + Len(m) + Len(b)
           /\ \A i \in 1 .. Len(a) + Len(m) + Len(b) :
                (a \o m \o b)[i] =
                    IF i <= Len(a) THEN a[i] ELSE IF i <= Len(a) + Len(m) THEN m[i - Len(a)] ELSE b[i - Len(a) - Len(m)]
<1> DEFINE am == a \o m
<1>1. am \in Seq(S) /\ Len(am) = Len(a) + Len(m) 
      /\ \A i \in 1 .. Len(a) + Len(m) : am[i] = IF i <= Len(a) THEN a[i] ELSE m[i - Len(a)]
  OBVIOUS
<1> HIDE DEF am
<1>2. am \o b \in Seq(S) /\ Len(am \o b) = Len(am) + Len(b) 
      /\ \A i \in 1 .. Len(am) + Len(b) : (am \o b)[i] = IF i <= Len(am) THEN am[i] ELSE b[i - Len(am)]
  <2>1. am \in Seq(S) BY <1>1
  <2> QED BY <2>1, ConcatIndex, Zenon
<1>3. Len(a) \in Nat /\ Len(m) \in Nat /\ Len(b) \in Nat
  OBVIOUS
<1>4. ASSUME NEW i \in 1 .. Len(a) + Len(m) + Len(b)
      PROVE (am \o b)[i] = IF i <= Len(a) THEN a[i] ELSE IF i <= Len(a) + Len(m) THEN m[i - Len(a)] ELSE b[i - Len(a) - Len(m)]
  <2>1. CASE i <= Len(am)
    <3>1. (am \o b)[i] = am[i] /\ i \in 1 .. Len(a) + Len(m)
      BY <1>1, <1>2, <1>3, <2>1
    <3> QED BY <1>1, <1>3, <2>1, <3>1
  <2>2. CASE i > Len(am)
    <3>1. (am \o b)[i] = b[i - Len(am)] /\ i - Len(am) = i - Len(a) - Len(m) /\ ~(i <= Len(a)) /\ ~(i <= Len(a) + Len(m))
      BY <1>1, <1>2, <1>3, <2>2
    <3> QED BY <3>1
  <2> QED BY <1>1, <1>3, <2>1, <2>2
<1>5. am \o b \in Seq(S) /\ Len(am \o b) = Len(a) + Len(m) + Len(b)
  BY <1>1, <1>2, <1>3
<1> QED BY <1>4, <1>5 DEF am
(* InsertAt(s, p, e) shifts the elements from position p on. *)
LEMMA InsertAtProperties ==
    ASSUME NEW S, NEW s \in Seq(S), NEW p \in 1 .. Len(s) + 1, NEW e \in S
    PROVE  /\ InsertAt(s, p, e) \in Seq(S)
           /\ Len(InsertAt(s, p, e)) = Len(s) + 1
           /\ \A i \in 1 .. Len(s) + 1 :
                InsertAt(s, p, e)[i] =
                    IF i < p THEN s[i] ELSE IF i = p THEN e ELSE s[i - 1]
<1> DEFINE a == SubSeq(s, 1, p - 1)
           b == SubSeq(s, p, Len(s))
           m == <<e>>
<1>1. a \in Seq(S) /\ Len(a) = p-1 /\ \A i \in 1 .. p-1 : a[i]=s[i]
  OBVIOUS
<1>2. b \in Seq(S) /\ Len(b) = Len(s)-p+1 /\ \A i \in 1 .. Len(s)-p+1 : b[i]=s[p+i-1]
  OBVIOUS
<1>3. m \in Seq(S) /\ Len(m) = 1 /\ m[1] = e
  OBVIOUS
<1>4. InsertAt(s, p, e) = a \o m \o b
  BY DEF InsertAt
<1>5. Len(s) \in Nat /\ p \in Nat OBVIOUS
<1> HIDE DEF a, b, m
<1>6. /\ a \o m \o b \in Seq(S)
           /\ Len(a \o m \o b) = Len(a) + Len(m) + Len(b)
           /\ \A i \in 1 .. Len(a) + Len(m) + Len(b) :
                (a \o m \o b)[i] =
                    IF i <= Len(a) THEN a[i] ELSE IF i <= Len(a) + Len(m) THEN m[i - Len(a)] ELSE b[i - Len(a) - Len(m)]
  <2>1. a \in Seq(S) /\ m \in Seq(S) /\ b \in Seq(S)
    BY <1>1, <1>2, <1>3

  <2> QED BY <2>1, Splice
<1>7. ASSUME NEW i \in 1 .. Len(s) + 1
      PROVE (a \o m \o b)[i] = IF i < p THEN s[i] ELSE IF i = p THEN e ELSE s[i - 1]
  <2>0. i \in 1 .. Len(a) + Len(m) + Len(b)
    BY <1>1, <1>2, <1>3, <1>5
  <2>1. CASE i < p
    BY <2>0, <2>1, <1>1, <1>5, <1>6
  <2>2. CASE i = p
    <3>1. i - Len(a) = 1 /\ ~(i <= Len(a)) /\ i <= Len(a) + Len(m)
      BY <2>2, <1>1, <1>3, <1>5
    <3> QED BY <2>0, <2>2, <3>1, <1>3, <1>6
  <2>3. CASE i > p
    <3>1. i - Len(a) - Len(m) = i - p /\ i - p \in 1 .. Len(s) - p + 1 /\ p + (i - p) - 1 = i - 1 /\ ~(i <= Len(a)) /\ ~(i <= Len(a) + Len(m))
      BY <2>3, <1>1, <1>3, <1>5
    <3>2. (a \o m \o b)[i] = b[i - Len(a) - Len(m)]
      BY <2>0, <3>1, <1>6
    <3>3. b[i - p] = s[p + (i - p) - 1]
      BY <3>1, <1>2
    <3>4. ~(i < p) /\ i # p
      BY <2>3, <1>5
    <3> QED BY <3>1, <3>2, <3>3, <3>4
  <2>4. i < p \/ i = p \/ i > p
    BY <1>5
  <2> QED BY <2>1, <2>2, <2>3, <2>4
<1>8. Len(a) + Len(m) + Len(b) = Len(s) + 1
  BY <1>1, <1>2, <1>3, <1>5
<1> QED BY <1>4, <1>6, <1>7, <1>8

(* RemoveAt(s, p) closes the gap at position p. *)
LEMMA RemoveAtProperties ==
    ASSUME NEW S, NEW s \in Seq(S), NEW p \in 1 .. Len(s)
    PROVE  /\ RemoveAt(s, p) \in Seq(S)
           /\ Len(RemoveAt(s, p)) = Len(s) - 1
           /\ \A i \in 1 .. Len(s) - 1 :
                RemoveAt(s, p)[i] = IF i < p THEN s[i] ELSE s[i + 1]
<1> DEFINE a == SubSeq(s, 1, p - 1)
           b == SubSeq(s, p + 1, Len(s))
<1>1. a \in Seq(S) /\ Len(a) = p - 1 /\ \A i \in 1 .. p - 1 : a[i] = s[i]
  OBVIOUS
<1>2. b \in Seq(S) /\ Len(b) = Len(s) - p /\ \A i \in 1 .. Len(s) - p : b[i] = s[p + i]
  OBVIOUS
<1>3. RemoveAt(s, p) = a \o b
  BY DEF RemoveAt
<1>4. Len(s) \in Nat /\ p \in Nat
  OBVIOUS
<1> HIDE DEF a, b
<1>5. /\ a \o b \in Seq(S) /\ Len(a \o b) = Len(a) + Len(b)
      /\ \A i \in 1 .. Len(a) + Len(b) :
            (a \o b)[i] = IF i <= Len(a) THEN a[i] ELSE b[i - Len(a)]
  <2>1. a \in Seq(S) /\ b \in Seq(S)
    BY <1>1, <1>2
  <2> QED BY <2>1, ConcatIndex
<1>6. ASSUME NEW i \in 1 .. Len(s) - 1
      PROVE (a \o b)[i] = IF i < p THEN s[i] ELSE s[i + 1]
  <2>0. i \in 1 .. Len(a) + Len(b)
    BY <1>1, <1>2, <1>4
  <2>1. CASE i < p
    BY <2>0, <2>1, <1>1, <1>4, <1>5
  <2>2. CASE ~(i < p)
    <3>1. i - Len(a) = i - (p - 1) /\ i - (p - 1) \in 1 .. Len(s) - p /\ ~(i <= Len(a))
      BY <2>2, <1>1, <1>4
    <3>2. (a \o b)[i] = b[i - (p - 1)]
      BY <2>0, <3>1, <1>5
    <3>3. b[i - (p - 1)] = s[p + (i - (p - 1))] /\ p + (i - (p - 1)) = i + 1
      BY <3>1, <1>2, <1>4
    <3> QED BY <2>2, <3>2, <3>3
  <2> QED BY <2>1, <2>2
<1>7. Len(a) + Len(b) = Len(s) - 1
  BY <1>1, <1>2, <1>4
<1> QED BY <1>3, <1>5, <1>6, <1>7

(* Linking a new element into a list without duplicates. *)
LEMMA InsertAtRange ==
    ASSUME NEW S, NEW s \in Seq(S), NEW p \in 1 .. Len(s) + 1, NEW e \in S,
           IsInjective(s), e \notin ToSet(s)
    PROVE  /\ IsInjective(InsertAt(s, p, e))
           /\ ToSet(InsertAt(s, p, e)) = ToSet(s) \cup {e}
<1> DEFINE r == InsertAt(s, p, e)
<1>0. Len(s) \in Nat /\ p \in Nat /\ DOMAIN s = 1 .. Len(s)
  OBVIOUS
<1>r. /\ r \in Seq(S)
      /\ Len(r) = Len(s) + 1
      /\ \A i \in 1 .. Len(s) + 1 :
           r[i] = IF i < p THEN s[i] ELSE IF i = p THEN e ELSE s[i - 1]
  <2>1. r \in Seq(S)
    BY InsertAtProperties
  <2>2. Len(r) = Len(s) + 1
    BY InsertAtProperties
  <2>3. ASSUME NEW i \in 1 .. Len(s) + 1
        PROVE  r[i] = IF i < p THEN s[i] ELSE IF i = p THEN e ELSE s[i - 1]
    BY InsertAtProperties
  <2> QED BY <2>1, <2>2, <2>3
<1> HIDE DEF r
<1>1. /\ r \in Seq(S) /\ Len(r) = Len(s) + 1 /\ DOMAIN r = 1 .. Len(s) + 1
      /\ \A i \in 1 .. Len(s) + 1 : r[i] = IF i < p THEN s[i] ELSE IF i = p THEN e ELSE s[i - 1]
  BY <1>r
<1>2. \A i, j \in 1 .. Len(s) : s[i] = s[j] => i = j
  BY <1>0 DEF IsInjective
<1>3. \A i \in 1 .. Len(s) : s[i] # e
  BY <1>0 DEF ToSet
<1>4. ASSUME NEW i \in 1 .. Len(s) + 1, NEW j \in 1 .. Len(s) + 1, r[i] = r[j]
      PROVE i = j
  <2> DEFINE f(k) == IF k < p THEN k ELSE k - 1
  <2>1. \A k \in 1 .. Len(s) + 1 : k # p => f(k) \in 1 .. Len(s) /\ r[k] = s[f(k)]
    BY <1>0, <1>1
  <2>2. r[p] = e
    BY <1>0, <1>1
  <2>3. i = p <=> j = p
    <3> HIDE DEF f
    <3> QED BY <1>3, <1>4, <2>1, <2>2
  <2>4. i # p => f(i) = f(j)
    <3> HIDE DEF f
    <3> QED BY <1>2, <1>4, <2>1, <2>3
  <2> QED BY <2>3, <2>4, <1>0
<1>5. IsInjective(r)
  BY <1>1, <1>4 DEF IsInjective
<1>6. ASSUME NEW x \in ToSet(s) \cup {e} PROVE x \in ToSet(r)
  <2>1. CASE x = e
    BY <2>1, <1>0, <1>1 DEF ToSet
  <2>2. CASE x # e
    <3>1. PICK i \in 1 .. Len(s) : s[i] = x
      BY <2>2, <1>0 DEF ToSet
    <3>2. CASE i < p
      BY <3>1, <3>2, <1>0, <1>1 DEF ToSet
    <3>3. CASE ~(i < p)
      <4>1. i + 1 \in 1 .. Len(s) + 1 /\ r[i + 1] = s[(i + 1) - 1] /\ (i + 1) - 1 = i
        BY <3>3, <1>0, <1>1
      <4> QED BY <3>1, <4>1, <1>1 DEF ToSet
    <3> QED BY <3>2, <3>3
  <2> QED BY <2>1, <2>2
<1>7. ASSUME NEW x \in ToSet(r) PROVE x \in ToSet(s) \cup {e}
  <2>1. PICK i \in 1 .. Len(s) + 1 : r[i] = x
    BY <1>1 DEF ToSet
  <2>2. CASE i < p
    BY <2>1, <2>2, <1>0, <1>1 DEF ToSet
  <2>3. CASE i = p
    BY <2>1, <2>3, <1>0, <1>1
  <2>4. CASE i > p
    <3>1. i - 1 \in 1 .. Len(s) /\ r[i] = s[i - 1]
      BY <2>4, <1>0, <1>1
    <3> QED BY <2>1, <3>1, <1>0 DEF ToSet
  <2> QED BY <1>0, <2>2, <2>3, <2>4
<1> QED BY <1>5, <1>6, <1>7 DEF r

(* Unlinking an element from a list without duplicates. *)
LEMMA RemoveAtRange ==
    ASSUME NEW S, NEW s \in Seq(S), NEW p \in 1 .. Len(s), IsInjective(s)
    PROVE  /\ IsInjective(RemoveAt(s, p))
           /\ ToSet(RemoveAt(s, p)) = ToSet(s) \ {s[p]}
<1> DEFINE r == RemoveAt(s, p)
<1>0. Len(s) \in Nat /\ p \in Nat /\ DOMAIN s = 1 .. Len(s)
  OBVIOUS
<1>r. /\ r \in Seq(S) /\ Len(r) = Len(s) - 1
      /\ \A i \in 1 .. Len(s) - 1 : r[i] = IF i < p THEN s[i] ELSE s[i + 1]
  BY RemoveAtProperties, Zenon
<1> HIDE DEF r
<1>1. /\ r \in Seq(S) /\ Len(r) = Len(s) - 1 /\ DOMAIN r = 1 .. Len(s) - 1
      /\ \A i \in 1 .. Len(s) - 1 : r[i] = IF i < p THEN s[i] ELSE s[i + 1]
  BY <1>r
<1>2. \A i, j \in 1 .. Len(s) : s[i] = s[j] => i = j
  BY <1>0 DEF IsInjective
<1>3. ASSUME NEW i \in 1 .. Len(s) - 1, NEW j \in 1 .. Len(s) - 1, r[i] = r[j]
      PROVE i = j
  <2> DEFINE f(k) == IF k < p THEN k ELSE k + 1
  <2>1. \A k \in 1 .. Len(s) - 1 : f(k) \in 1 .. Len(s) /\ r[k] = s[f(k)]
    BY <1>0, <1>1
  <2>2. f(i) = f(j)
    <3> HIDE DEF f
    <3> QED BY <1>2, <1>3, <2>1
  <2> QED BY <2>2, <1>0
<1>4. IsInjective(r)
  BY <1>1, <1>3 DEF IsInjective
<1>5. ASSUME NEW x \in ToSet(s) \ {s[p]} PROVE x \in ToSet(r)
  <2>1. PICK i \in 1 .. Len(s) : s[i] = x /\ i # p
    BY <1>0 DEF ToSet
  <2>2. CASE i < p
    <3>1. i \in 1 .. Len(s) - 1 /\ r[i] = s[i]
      BY <2>2, <1>0, <1>1
    <3> QED BY <2>1, <3>1, <1>1 DEF ToSet
  <2>3. CASE ~(i < p)
    <3>1. i - 1 \in 1 .. Len(s) - 1 /\ ~(i - 1 < p) /\ (i - 1) + 1 = i
      BY <2>1, <2>3, <1>0
    <3>2. r[i - 1] = s[i]
      BY <3>1, <1>1
    <3> QED BY <2>1, <3>1, <3>2, <1>1 DEF ToSet
  <2> QED BY <2>2, <2>3
<1>6. ASSUME NEW x \in ToSet(r) PROVE x \in ToSet(s) \ {s[p]}
  <2>1. PICK i \in 1 .. Len(s) - 1 : r[i] = x
    BY <1>1 DEF ToSet
  <2>2. CASE i < p
    <3>1. i \in 1 .. Len(s) /\ i # p /\ r[i] = s[i]
      BY <2>2, <1>0, <1>1
    <3> QED BY <2>1, <3>1, <1>0, <1>2 DEF ToSet
  <2>3. CASE ~(i < p)
    <3>1. i + 1 \in 1 .. Len(s) /\ i + 1 # p /\ r[i] = s[i + 1]
      BY <2>3, <1>0, <1>1
    <3> QED BY <2>1, <3>1, <1>0, <1>2 DEF ToSet
  <2> QED BY <2>2, <2>3
<1> QED BY <1>4, <1>5, <1>6 DEF r

(* Taking the head off a list without duplicates. *)
LEMMA TailRange ==
    ASSUME NEW S, NEW s \in Seq(S), s # <<>>, IsInjective(s)
    PROVE  /\ Head(s) \in S /\ Head(s) = s[1] /\ Head(s) \in ToSet(s)
           /\ Tail(s) \in Seq(S) /\ Len(Tail(s)) = Len(s) - 1 /\ Len(s) \in Nat \ {0}
           /\ \A i \in 1 .. Len(s) - 1 : Tail(s)[i] = s[i + 1]
           /\ IsInjective(Tail(s))
           /\ ToSet(Tail(s)) = ToSet(s) \ {Head(s)}
<1>0. Len(s) \in Nat \ {0} /\ DOMAIN s = 1 .. Len(s) /\ Head(s) = s[1] /\ s[1] \in S
  OBVIOUS
<1>1. /\ Tail(s) \in Seq(S) /\ Len(Tail(s)) = Len(s) - 1 /\ DOMAIN Tail(s) = 1 .. Len(s) - 1
      /\ \A i \in 1 .. Len(s) - 1 : Tail(s)[i] = s[i + 1]
  OBVIOUS
<1>2. \A i, j \in 1 .. Len(s) : s[i] = s[j] => i = j
  BY <1>0 DEF IsInjective
<1>3. IsInjective(Tail(s))
  <2>1. ASSUME NEW i \in 1 .. Len(s) - 1, NEW j \in 1 .. Len(s) - 1, Tail(s)[i] = Tail(s)[j]
        PROVE i = j
    <3>1. i + 1 \in 1 .. Len(s) /\ j + 1 \in 1 .. Len(s) /\ s[i + 1] = s[j + 1]
      BY <1>0, <1>1, <2>1
    <3>2. i + 1 = j + 1
      BY <1>2, <3>1
    <3> QED BY <3>2
  <2> QED BY <1>1, <2>1 DEF IsInjective
<1>4. ASSUME NEW x \in ToSet(s) \ {Head(s)} PROVE x \in ToSet(Tail(s))
  <2>1. PICK i \in 1 .. Len(s) : s[i] = x /\ i # 1
    BY <1>0 DEF ToSet
  <2>2. i - 1 \in 1 .. Len(s) - 1 /\ (i - 1) + 1 = i
    BY <2>1, <1>0
  <2>3. Tail(s)[i - 1] = s[i]
    BY <2>2, <1>1
  <2> QED BY <2>1, <2>2, <2>3, <1>1 DEF ToSet
<1>5. ASSUME NEW x \in ToSet(Tail(s)) PROVE x \in ToSet(s) \ {Head(s)}
  <2>1. PICK i \in 1 .. Len(s) - 1 : Tail(s)[i] = x
    BY <1>1 DEF ToSet
  <2>2. i + 1 \in 1 .. Len(s) /\ i + 1 # 1 /\ s[i + 1] = x
    BY <2>1, <1>0, <1>1
  <2> QED BY <2>2, <1>0, <1>2 DEF ToSet
<1>6. Head(s) \in ToSet(s)
  BY <1>0 DEF ToSet
<1> QED BY <1>0, <1>1, <1>3, <1>4, <1>5, <1>6

(* Pushing a new element on a stack without duplicates. *)
LEMMA PushRange ==
    ASSUME NEW S, NEW s \in Seq(S), NEW e \in S, IsInjective(s), e \notin ToSet(s)
    PROVE  /\ <<e>> \o s \in Seq(S)
           /\ IsInjective(<<e>> \o s)
           /\ ToSet(<<e>> \o s) = ToSet(s) \cup {e}
<1> DEFINE r == <<e>> \o s
<1>0. Len(s) \in Nat /\ DOMAIN s = 1 .. Len(s)
  OBVIOUS
<1>1. /\ r \in Seq(S) /\ DOMAIN r = 1 .. Len(s) + 1
      /\ \A i \in 1 .. Len(s) + 1 : r[i] = IF i = 1 THEN e ELSE s[i - 1]
  OBVIOUS
<1> HIDE DEF r
<1>2. \A i, j \in 1 .. Len(s) : s[i] = s[j] => i = j
  BY <1>0 DEF IsInjective
<1>3. \A i \in 1 .. Len(s) : s[i] # e
  BY <1>0 DEF ToSet
<1>4. ASSUME NEW i \in 1 .. Len(s) + 1, NEW j \in 1 .. Len(s) + 1, r[i] = r[j]
      PROVE i = j
  BY SMTT(30), <1>0, <1>1, <1>2, <1>3, <1>4
<1>5. IsInjective(r)
  BY <1>1, <1>4 DEF IsInjective
<1>6. ASSUME NEW x \in ToSet(s) \cup {e} PROVE x \in ToSet(r)
  <2>1. CASE x = e
    BY <2>1, <1>0, <1>1 DEF ToSet
  <2>2. CASE x # e
    <3>1. PICK i \in 1 .. Len(s) : s[i] = x
      BY <2>2, <1>0 DEF ToSet
    <3>2. i + 1 \in 1 .. Len(s) + 1 /\ i + 1 # 1 /\ (i + 1) - 1 = i
      BY <1>0
    <3>3. r[i + 1] = x
      BY <3>1, <3>2, <1>1
    <3> QED BY <3>2, <3>3, <1>1 DEF ToSet
  <2> QED BY <2>1, <2>2
<1>7. ASSUME NEW x \in ToSet(r) PROVE x \in ToSet(s) \cup {e}
  <2>1. PICK i \in 1 .. Len(s) + 1 : r[i] = x
    BY <1>1 DEF ToSet
  <2>2. CASE i = 1
    BY <2>1, <2>2, <1>1, <1>0
  <2>3. CASE i # 1
    <3>1. i - 1 \in 1 .. Len(s) /\ r[i] = s[i - 1]
      BY <2>3, <1>0, <1>1
    <3> QED BY <2>1, <3>1, <1>0 DEF ToSet
  <2> QED BY <2>2, <2>3
<1> QED BY <1>1, <1>5, <1>6, <1>7 DEF r
-----------------------------------------------------------------------------
(* Linking an element where insert_event() does keeps a list sorted. *)
LEMMA InsertKeepsOrder ==
    ASSUME NEW S, NEW list \in Seq(S), NEW ex \in [S -> Nat], NEW s \in S,
           NEW p \in 1 .. Len(list) + 1
    PROVE  /\ \A i, j \in 1 .. Len(list) : i < j => ex[list[i]] <= ex[list[j]]
           /\ \A i \in 1 .. p - 1 : ex[list[i]] <= ex[s]
           /\ p <= Len(list) => ex[list[p]] > ex[s]
           =>
           \A i, j \in 1 .. Len(InsertAt(list, p, s)) :
                i < j => ex[InsertAt(list, p, s)[i]] <= ex[InsertAt(list, p, s)[j]]
<1> DEFINE r == InsertAt(list, p, s)
<1>0. Len(list) \in Nat /\ p \in Nat /\ ex[s] \in Nat
      /\ \A i \in 1 .. Len(list) : list[i] \in S /\ ex[list[i]] \in Nat
  OBVIOUS
<1>1. /\ r \in Seq(S) /\ Len(r) = Len(list) + 1
      /\ \A i \in 1 .. Len(list) + 1 :
            r[i] = IF i < p THEN list[i] ELSE IF i = p THEN s ELSE list[i - 1]
  BY InsertAtProperties
<1> HIDE DEF r
<1>s. SUFFICES
        ASSUME \A i, j \in 1 .. Len(list) : i < j => ex[list[i]] <= ex[list[j]],
               \A i \in 1 .. p - 1 : ex[list[i]] <= ex[s],
               p <= Len(list) => ex[list[p]] > ex[s]
        PROVE  \A i, j \in 1 .. Len(r) : i < j => ex[r[i]] <= ex[r[j]]
  BY DEF r
<1>2. ASSUME NEW i \in 1 .. Len(list), i >= p PROVE ex[s] <= ex[list[i]]
  <2>1. p \in 1 .. Len(list) /\ ex[list[p]] > ex[s]
    BY <1>0, <1>2, <1>s
  <2>2. ex[list[p]] <= ex[list[i]]
    BY <1>0, <1>2, <1>s, <2>1
  <2> QED BY <2>1, <2>2, <1>0
<1>3. ASSUME NEW i \in 1 .. Len(list) + 1, NEW j \in 1 .. Len(list) + 1, i < j
      PROVE ex[r[i]] <= ex[r[j]]
  <2>1. CASE j < p
    <3>1. r[i] = list[i] /\ r[j] = list[j] /\ i \in 1 .. Len(list) /\ j \in 1 .. Len(list)
      BY SMTT(30), <1>0, <1>1, <1>3, <2>1
    <3> QED BY <3>1, <1>3, <1>s
  <2>2. CASE j = p
    <3>1. r[i] = list[i] /\ r[j] = s /\ i \in 1 .. p - 1
      BY <1>0, <1>1, <1>3, <2>2
    <3> QED BY <3>1, <1>s
  <2>3. CASE j > p
    <3>1. r[j] = list[j - 1] /\ j - 1 \in 1 .. Len(list) /\ j - 1 >= p
      BY <1>0, <1>1, <1>3, <2>3
    <3>2. CASE i < p
      <4>1. r[i] = list[i] /\ i \in 1 .. Len(list) /\ i < j - 1
        BY <1>0, <1>1, <1>3, <3>2, <3>1
      <4> QED BY <3>1, <4>1, <1>s
    <3>3. CASE i = p
      <4>1. r[i] = s
        BY <1>1, <3>3
      <4> QED BY <3>1, <4>1, <1>2
    <3>4. CASE i > p
      <4>1. r[i] = list[i - 1] /\ i - 1 \in 1 .. Len(list) /\ i - 1 < j - 1
        BY <1>0, <1>1, <1>3, <3>4
      <4> QED BY <3>1, <4>1, <1>s
    <3> QED BY <1>0, <3>2, <3>3, <3>4
  <2> QED BY <1>0, <2>1, <2>2, <2>3
<1> QED BY <1>1, <1>3

(* Unlinking an element keeps a list sorted. *)
LEMMA RemoveKeepsOrder ==
    ASSUME NEW S, NEW list \in Seq(S), NEW ex \in [S -> Nat], NEW p \in 1 .. Len(list),
           \A i, j \in 1 .. Len(list) : i < j => ex[list[i]] <= ex[list[j]]
    PROVE  \A i, j \in 1 .. Len(RemoveAt(list, p)) :
                i < j => ex[RemoveAt(list, p)[i]] <= ex[RemoveAt(list, p)[j]]
<1> DEFINE r == RemoveAt(list, p)
           f(k) == IF k < p THEN k ELSE k + 1
<1>0. Len(list) \in Nat /\ p \in Nat
  OBVIOUS
<1>1. Len(r) = Len(list) - 1
      /\ \A i \in 1 .. Len(list) - 1 : r[i] = IF i < p THEN list[i] ELSE list[i + 1]
  BY RemoveAtProperties
<1> HIDE DEF r
<1>2. \A i \in 1 .. Len(r) : f(i) \in 1 .. Len(list) /\ r[i] = list[f(i)]
  BY <1>0, <1>1
<1>3. \A i, j \in 1 .. Len(r) : i < j => f(i) < f(j)
  BY <1>0, <1>1
<1> HIDE DEF f
<1> QED BY <1>2, <1>3 DEF r
-----------------------------------------------------------------------------
(* Every registered event is at some position of a sorted fire list. *)
LEMMA HeadIsEarliest ==
    ASSUME TypeOK, ListsPartitionSlots, FireOrdered, fire # <<>>
    PROVE  /\ Head(fire) \in Slots /\ active[Head(fire)]
           /\ \A s \in Slots : active[s] => expired_clock[Head(fire)] <= expired_clock[s]
<1>0. Len(fire) \in Nat \ {0} /\ DOMAIN fire = 1 .. Len(fire) /\ Head(fire) = fire[1]
      /\ fire[1] \in Slots
  BY DEF TypeOK
<1>1. fire[1] \in ToSet(fire)
  BY <1>0 DEF ToSet
<1>2. ASSUME NEW s \in Slots, active[s] PROVE expired_clock[fire[1]] <= expired_clock[s]
  <2>1. s \in ToSet(fire)
    BY <1>2 DEF ListsPartitionSlots
  <2>2. PICK i \in 1 .. Len(fire) : fire[i] = s
    BY <2>1, <1>0 DEF ToSet
  <2>3. CASE i = 1
    BY <2>2, <2>3, <1>0 DEF TypeOK
  <2>4. CASE i # 1
    BY <2>2, <2>4, <1>0 DEF FireOrdered
  <2> QED BY <2>3, <2>4
<1> QED BY <1>0, <1>1, <1>2 DEF ListsPartitionSlots

(* The slots are natural numbers, hence no slot is the id None. *)
LEMMA SlotFacts == Slots \subseteq Nat /\ None \notin Slots /\ MAX_EVENT \in Nat \ {0}
  BY SizeAssumption DEF Slots, None

(* Releasing a registered slot moves it from one list to the other. *)
LEMMA ReleaseStep ==
    ASSUME TypeOK, ListsPartitionSlots, FireOrdered,
           NEW s \in Slots, active[s], Release(s), expired_clock' = expired_clock
    PROVE  /\ fire' \in Seq(Slots) /\ free' \in Seq(Slots)
           /\ active' = [active EXCEPT ![s] = FALSE] /\ active' \in [Slots -> BOOLEAN]
           /\ ListsPartitionSlots'
           /\ FireOrdered'
<1>0. fire \in Seq(Slots) /\ free \in Seq(Slots) /\ active \in [Slots -> BOOLEAN]
      /\ expired_clock \in [Slots -> Nat]
  BY DEF TypeOK
<1>1. PICK p \in 1 .. Len(fire) : fire[p] = s /\ fire' = RemoveAt(fire, p)
  BY DEF Release
<1>2. free' = <<s>> \o free /\ active' = [active EXCEPT ![s] = FALSE]
  BY DEF Release
<1>3. /\ IsInjective(fire) /\ ToSet(fire) = {t \in Slots : active[t]}
      /\ IsInjective(free) /\ ToSet(free) = {t \in Slots : ~active[t]}
  BY DEF ListsPartitionSlots
<1>4. fire' \in Seq(Slots)
  BY <1>0, <1>1, RemoveAtProperties
<1>5. IsInjective(fire') /\ ToSet(fire') = ToSet(fire) \ {s}
  BY <1>0, <1>1, <1>3, RemoveAtRange
<1>6. free' \in Seq(Slots) /\ IsInjective(free') /\ ToSet(free') = ToSet(free) \cup {s}
  <2>1. s \notin ToSet(free)
    BY <1>3
  <2> QED BY <2>1, <1>0, <1>2, <1>3, PushRange
<1>7. {t \in Slots : active'[t]} = {t \in Slots : active[t]} \ {s}
      /\ {t \in Slots : ~active'[t]} = {t \in Slots : ~active[t]} \cup {s}
  BY <1>0, <1>2
<1>8. ListsPartitionSlots'
  BY <1>3, <1>5, <1>6, <1>7 DEF ListsPartitionSlots
<1>9. FireOrdered'
  <2>1. \A i, j \in 1 .. Len(fire) : i < j => expired_clock[fire[i]] <= expired_clock[fire[j]]
    BY DEF FireOrdered
  <2>2. \A i, j \in 1 .. Len(fire') : i < j => expired_clock[fire'[i]] <= expired_clock[fire'[j]]
    BY <2>1, <1>0, <1>1, RemoveKeepsOrder
  <2> QED BY <2>2 DEF FireOrdered
<1> QED BY <1>0, <1>2, <1>4, <1>6, <1>8, <1>9

(* Linking a slot that is on neither list, with the expiry it gets. *)
LEMMA LinkStep ==
    ASSUME NEW list \in Seq(Slots), NEW s \in Slots, NEW expiry \in Nat,
           NEW p \in 1 .. Len(list) + 1,
           NEW ex \in [Slots -> Nat], expired_clock \in [Slots -> Nat],
           IsInjective(list), s \notin ToSet(list),
           \A i, j \in 1 .. Len(list) : i < j => expired_clock[list[i]] <= expired_clock[list[j]],
           ex = [expired_clock EXCEPT ![s] = expiry],
           InsertPosition(list, expiry, p)
    PROVE  /\ InsertAt(list, p, s) \in Seq(Slots)
           /\ IsInjective(InsertAt(list, p, s))
           /\ ToSet(InsertAt(list, p, s)) = ToSet(list) \cup {s}
           /\ \A i, j \in 1 .. Len(InsertAt(list, p, s)) :
                i < j => ex[InsertAt(list, p, s)[i]] <= ex[InsertAt(list, p, s)[j]]
<1>0. Len(list) \in Nat /\ p \in Nat /\ DOMAIN list = 1 .. Len(list)
      /\ \A i \in 1 .. Len(list) : list[i] \in Slots
  OBVIOUS
<1>1. \A i \in 1 .. Len(list) : ex[list[i]] = expired_clock[list[i]]
  BY <1>0 DEF ToSet
<1>2. ex[s] = expiry
  OBVIOUS
<1>3. \A i, j \in 1 .. Len(list) : i < j => ex[list[i]] <= ex[list[j]]
  BY <1>1
<1>4. \A i \in 1 .. p - 1 : ex[list[i]] <= ex[s]
  BY <1>0, <1>1, <1>2 DEF InsertPosition
<1>5. p <= Len(list) => ex[list[p]] > ex[s]
  BY <1>0, <1>1, <1>2 DEF InsertPosition
<1>6. \A i, j \in 1 .. Len(InsertAt(list, p, s)) :
            i < j => ex[InsertAt(list, p, s)[i]] <= ex[InsertAt(list, p, s)[j]]
  BY <1>3, <1>4, <1>5, InsertKeepsOrder
<1>7. InsertAt(list, p, s) \in Seq(Slots)
  BY InsertAtProperties
<1>8. /\ IsInjective(InsertAt(list, p, s))
      /\ ToSet(InsertAt(list, p, s)) = ToSet(list) \cup {s}
  BY InsertAtRange
<1> QED BY <1>6, <1>7, <1>8
-----------------------------------------------------------------------------
(* Init satisfies the invariant. *)
LEMMA InitIInv == Init => IInv
<1> SUFFICES ASSUME Init PROVE IInv
  OBVIOUS
<1> USE DEF Init
<1>1. TypeOK
  <2>1. free \in Seq(Slots)
    <3>1. \A i \in 1 .. MAX_EVENT : i - 1 \in Slots
      BY SizeAssumption DEF Slots
    <3> QED BY <3>1, SizeAssumption
  <2>2. scan \in 0 .. MAX_EVENT
    BY SizeAssumption
  <2> QED BY <2>1, <2>2 DEF TypeOK
<1>2. ListsPartitionSlots
  <2>1. IsInjective(fire) /\ ToSet(fire) = {}
    BY DEF IsInjective, ToSet
  <2>2. DOMAIN free = 1 .. MAX_EVENT /\ \A i \in 1 .. MAX_EVENT : free[i] = i - 1
    OBVIOUS
  <2>3. IsInjective(free)
    BY <2>2, SizeAssumption DEF IsInjective
  <2>4. ToSet(free) = Slots
    <3>1. ASSUME NEW s \in Slots PROVE s \in ToSet(free)
      <4>1. s + 1 \in 1 .. MAX_EVENT /\ (s + 1) - 1 = s
        BY SizeAssumption DEF Slots
      <4> QED BY <4>1, <2>2 DEF ToSet
    <3>2. ASSUME NEW s \in ToSet(free) PROVE s \in Slots
      BY <2>2, SizeAssumption DEF ToSet, Slots
    <3> QED BY <3>1, <3>2
  <2> QED BY <2>1, <2>3, <2>4 DEF ListsPartitionSlots
<1>3. FireOrdered
  BY DEF FireOrdered
<1>4. NeverLate /\ QuiescentAtTarget /\ KindsAgree /\ IdsMatchEvents /\ ResetProgress
  BY DEF NeverLate, QuiescentAtTarget, KindsAgree, IdsMatchEvents, HeldIdsNameEvents,
       EventsAreHeld, ResetProgress
<1> QED BY <1>1, <1>2, <1>3, <1>4 DEF IInv

(* Registering an event, also when no descriptor is free. *)
LEMMA RegisterStep ==
    ASSUME IInv, NEW c \in Clients, NEW clock \in Nat, NEW loop \in Nat, NEW accum \in Nat,
           loop # 0 <=> c \in Periodic, Register(c, clock, loop, accum)
    PROVE  IInv'
<1>0. /\ TypeOK /\ ListsPartitionSlots /\ FireOrdered /\ NeverLate /\ QuiescentAtTarget
      /\ KindsAgree /\ IdsMatchEvents /\ ResetProgress
  BY DEF IInv
<1>1. CASE free = <<>>
  <2>1. UNCHANGED vars
    BY <1>1 DEF Register, vars, descriptors, lists, resetting
  <2> QED BY <2>1, <1>0 DEF IInv, TypeOK, ListsPartitionSlots, FireOrdered, NeverLate,
             QuiescentAtTarget, KindsAgree, IdsMatchEvents, HeldIdsNameEvents,
             EventsAreHeld, ResetProgress, MayBeStale, vars
<1>2. CASE free # <<>>
  <2> DEFINE s == Head(free)
             expiry == event_clocks + clock
  <2>1. /\ free' = Tail(free)
        /\ client' = [client EXCEPT ![s] = c]
        /\ expired_clock' = [expired_clock EXCEPT ![s] = expiry]
        /\ loop_clock' = [loop_clock EXCEPT ![s] = loop]
        /\ accum_clocks' = [accum_clocks EXCEPT ![s] = accum]
        /\ active' = [active EXCEPT ![s] = TRUE]
        /\ \E p \in 1 .. Len(fire) + 1 :
             InsertPosition(fire, expiry, p) /\ fire' = InsertAt(fire, p, s)
        /\ register_id' =
             IF c \in Holders THEN [register_id EXCEPT ![c] = s] ELSE register_id
        /\ UNCHANGED <<event_clocks, target, pc, scan, unreset>>
        /\ pc \in {"run", "callback"} \/ (c \in Forgetting /\ Owner[c] \notin unreset)
        /\ c \in Holders => register_id[c] = None
    BY <1>2 DEF Register, MayRegister, DeviceCodeRuns, resetting
  <2>2. /\ IsInjective(fire) /\ ToSet(fire) = {t \in Slots : active[t]}
        /\ IsInjective(free) /\ ToSet(free) = {t \in Slots : ~active[t]}
        /\ fire \in Seq(Slots) /\ free \in Seq(Slots)
    BY <1>0 DEF ListsPartitionSlots, TypeOK
  <2>3. /\ s \in Slots /\ s \in ToSet(free)
        /\ Tail(free) \in Seq(Slots) /\ IsInjective(Tail(free))
        /\ ToSet(Tail(free)) = ToSet(free) \ {s}
    BY <1>2, <2>2, TailRange
  <2>4. ~active[s] /\ s \notin ToSet(fire)
    BY <2>2, <2>3
  <2>5. expiry \in Nat /\ expired_clock \in [Slots -> Nat]
    BY <1>0 DEF TypeOK
  <2> HIDE DEF s, expiry
  <2>6. expired_clock' \in [Slots -> Nat]
    BY <2>1, <2>3, <2>5
  <2>7. PICK p \in 1 .. Len(fire) + 1 :
            InsertPosition(fire, expiry, p) /\ fire' = InsertAt(fire, p, s)
    BY <2>1
  <2>8. \A i, j \in 1 .. Len(fire) : i < j => expired_clock[fire[i]] <= expired_clock[fire[j]]
    BY <1>0 DEF FireOrdered
  <2>9. /\ fire' \in Seq(Slots) /\ IsInjective(fire') /\ ToSet(fire') = ToSet(fire) \cup {s}
        /\ \A i, j \in 1 .. Len(fire') :
             i < j => expired_clock'[fire'[i]] <= expired_clock'[fire'[j]]
    BY <2>1, <2>2, <2>3, <2>4, <2>5, <2>6, <2>7, <2>8, LinkStep
  <2>10. TypeOK'
    BY <1>0, <2>1, <2>3, <2>6, <2>9 DEF TypeOK, Holders
  <2>11. ListsPartitionSlots'
    <3>1. {t \in Slots : active'[t]} = {t \in Slots : active[t]} \cup {s}
          /\ {t \in Slots : ~active'[t]} = {t \in Slots : ~active[t]} \ {s}
      BY <1>0, <2>1, <2>3 DEF TypeOK
    <3> QED BY <3>1, <2>1, <2>2, <2>3, <2>9 DEF ListsPartitionSlots
  <2>12. FireOrdered'
    BY <2>9 DEF FireOrdered
  <2>13. NeverLate'
    <3>1. event_clocks \in Nat /\ expiry >= event_clocks
      BY <1>0 DEF TypeOK, expiry
    <3> QED BY <3>1, <1>0, <2>1, <2>3, <2>5 DEF NeverLate, TypeOK
  <2>14. QuiescentAtTarget' /\ ResetProgress'
    <3>1. QuiescentAtTarget'
      BY <1>0, <2>1 DEF QuiescentAtTarget
    <3>2. ASSUME NEW t \in Slots, pc = "reset", t < scan, active'[t]
          PROVE  loop_clock'[t] # 0 \/ client'[t] \in Forgetting
      <4>1. CASE t = s
        <5>1. client'[t] = c
          BY <4>1, <1>0, <2>1 DEF TypeOK
        <5> QED BY <5>1, <3>2, <2>1
      <4>2. CASE t # s
        <5>1. client'[t] = client[t] /\ loop_clock'[t] = loop_clock[t] /\ active[t]
          BY <4>2, <3>2, <1>0, <2>1 DEF TypeOK
        <5> QED BY <5>1, <3>2, <1>0 DEF ResetProgress
      <4> QED BY <4>1, <4>2
    <3>3. pc' = "reset" /\ scan' < MAX_EVENT => unreset' = {Owner[d] : d \in Holders}
      BY <1>0, <2>1 DEF ResetProgress
    <3> QED BY <3>1, <3>2, <3>3, <2>1 DEF ResetProgress
  <2>15. KindsAgree'
    <3>1. ASSUME NEW t \in Slots, active'[t]
          PROVE  client'[t] \in Clients /\ (loop_clock'[t] # 0 <=> client'[t] \in Periodic)
      <4>1. CASE t = s
        <5>1. client'[t] = c /\ loop_clock'[t] = loop
          BY <4>1, <1>0, <2>1 DEF TypeOK
        <5> QED BY <5>1
      <4>2. CASE t # s
        <5>1. client'[t] = client[t] /\ loop_clock'[t] = loop_clock[t] /\ active[t]
          BY <4>2, <3>1, <1>0, <2>1 DEF TypeOK
        <5> QED BY <5>1, <1>0 DEF KindsAgree
      <4> QED BY <4>1, <4>2
    <3> QED BY <3>1 DEF KindsAgree
  <2>16. s # None
    BY <2>3, SlotFacts
  <2>17. ASSUME NEW d \in Holders
         PROVE  \/ register_id[d] = None
                \/ active[register_id[d]] /\ client[register_id[d]] = d /\ register_id[d] # s
                \/ MayBeStale(d)
    <3>1. \/ register_id[d] = None
          \/ active[register_id[d]] /\ client[register_id[d]] = d
          \/ MayBeStale(d)
      BY <1>0 DEF IdsMatchEvents, HeldIdsNameEvents
    <3> QED BY <3>1, <2>4
  <2>18. HeldIdsNameEvents'
    <3>1. ASSUME NEW d \in Holders
          PROVE  \/ register_id'[d] = None
                 \/ active'[register_id'[d]] /\ client'[register_id'[d]] = d
                 \/ MayBeStale(d)
      <4>1. CASE c = d
        <5>1. register_id'[d] = s /\ active'[s] /\ client'[s] = d
          BY <4>1, <1>0, <2>1, <2>3 DEF TypeOK
        <5> QED BY <5>1
      <4>2. CASE c # d
        <5>1. register_id'[d] = register_id[d] /\ register_id[d] \in Slots \cup {None}
          BY <4>2, <1>0, <2>1 DEF TypeOK
        <5>2. CASE register_id[d] = None
          BY <5>1, <5>2
        <5>3. CASE register_id[d] # None /\ ~MayBeStale(d)
          <6> DEFINE t == register_id[d]
          <6>1. t \in Slots /\ t # s /\ active[t] /\ client[t] = d
            BY <5>1, <5>3, <2>17
          <6>2. active'[t] = active[t] /\ client'[t] = client[t]
            BY <6>1, <1>0, <2>1 DEF TypeOK
          <6> QED BY <5>1, <6>1, <6>2
        <5> QED BY <5>2, <5>3
      <4> QED BY <4>1, <4>2
    <3>3. \A d \in Holders : MayBeStale(d)' <=> MayBeStale(d)
      BY <2>1 DEF MayBeStale
    <3> QED BY <3>1, <3>3 DEF HeldIdsNameEvents
  <2>19. EventsAreHeld'
    <3>1. ASSUME NEW t \in Slots, active'[t], client'[t] \in Holders \ Forgetting
          PROVE  register_id'[client'[t]] = t
      <4>1. CASE t = s
        <5>1. client'[t] = c
          BY <4>1, <1>0, <2>1 DEF TypeOK
        <5> QED BY <5>1, <4>1, <3>1, <1>0, <2>1 DEF TypeOK
      <4>2. CASE t # s
        <5>1. active[t] /\ client'[t] = client[t]
          BY <4>2, <3>1, <1>0, <2>1 DEF TypeOK
        <5>2. register_id[client[t]] = t
          BY <5>1, <3>1, <1>0 DEF IdsMatchEvents, EventsAreHeld
        <5>3. t # None
          BY SlotFacts
        <5>4. client[t] # c
          BY <5>1, <5>2, <5>3, <3>1, <2>1
        <5> QED BY <5>1, <5>2, <5>4, <3>1, <1>0, <2>1 DEF TypeOK
      <4> QED BY <4>1, <4>2
    <3> QED BY <3>1 DEF EventsAreHeld
  <2>20. IdsMatchEvents'
    BY <2>18, <2>19 DEF IdsMatchEvents
  <2> QED BY <2>10, <2>11, <2>12, <2>13, <2>14, <2>15, <2>20 DEF IInv
<1> QED BY <1>1, <1>2

(* cancel_event() finds the device's own event, or none: a stale id that    *)
(* names another one belongs to a client that is alone in its device.      *)
LEMMA CancelsItsOwn ==
    ASSUME IInv, NEW c \in Holders, CancelEvent(c),
           IsOwner(c, client[register_id[c]]), active[register_id[c]]
    PROVE  client[register_id[c]] = c
<1>1. pc = "reset" => c \in Periodic
  BY DEF CancelEvent, MayCancel, DeviceCodeRuns, DevicesReset
<1>2. register_id[c] # None
  BY DEF CancelEvent
<1>3. CASE c \in Latching
  BY <1>3, HabitAssumption DEF IsOwner
<1>4. CASE c \notin Latching
  BY <1>1, <1>2, <1>4 DEF IInv, IdsMatchEvents, HeldIdsNameEvents, MayBeStale
<1> QED BY <1>3, <1>4

(* Cancelling an event by its id, stale or not. *)
LEMMA CancelStep ==
    ASSUME IInv, NEW c \in Holders, CancelEvent(c)
    PROVE  IInv'
<1>0. /\ TypeOK /\ ListsPartitionSlots /\ FireOrdered /\ NeverLate /\ QuiescentAtTarget
      /\ KindsAgree /\ HeldIdsNameEvents /\ EventsAreHeld /\ ResetProgress
  BY DEF IInv, IdsMatchEvents
<1> DEFINE s == register_id[c]
<1>1. /\ s # None
      /\ IF IsOwner(c, client[s]) /\ active[s] THEN Release(s) ELSE UNCHANGED <<active, lists>>
      /\ \/ register_id' = [register_id EXCEPT ![c] = None]
         \/ c \in Latching /\ register_id' = register_id
      /\ UNCHANGED <<client, expired_clock, loop_clock, accum_clocks, event_clocks,
                     target, pc, scan, unreset>>
  BY DEF CancelEvent, resetting
<1>2. s \in Slots
  BY <1>0, <1>1 DEF TypeOK
<1>3. IsOwner(c, client[s]) /\ active[s] => client[s] = c
  BY CancelsItsOwn
<1> HIDE DEF s
<1>4. \A d \in Holders : d # c => register_id'[d] = register_id[d]
  BY <1>0, <1>1 DEF TypeOK
<1>5. register_id'[c] = None \/ c \in Latching
  BY <1>0, <1>1 DEF TypeOK
<1>6. \A d : MayBeStale(d)' <=> MayBeStale(d)
  BY <1>1 DEF MayBeStale
<1>7. register_id' \in [Holders -> Slots \cup {None}]
  BY <1>0, <1>1 DEF TypeOK
<1>8. CASE IsOwner(c, client[s]) /\ active[s]
  <2>1. Release(s) /\ active[s] /\ client[s] = c
    BY <1>1, <1>3, <1>8
  <2>2. /\ fire' \in Seq(Slots) /\ free' \in Seq(Slots)
        /\ active' = [active EXCEPT ![s] = FALSE] /\ active' \in [Slots -> BOOLEAN]
        /\ ListsPartitionSlots' /\ FireOrdered'
    BY <1>0, <1>1, <1>2, <2>1, ReleaseStep
  <2>3. TypeOK'
    BY <1>0, <1>1, <1>7, <2>2 DEF TypeOK
  <2>4. \A t \in Slots : active'[t] <=> active[t] /\ t # s
    BY <1>0, <1>2, <2>2 DEF TypeOK
  <2>5. NeverLate' /\ QuiescentAtTarget' /\ KindsAgree' /\ ResetProgress'
    BY <1>0, <1>1, <2>4 DEF NeverLate, QuiescentAtTarget, KindsAgree, ResetProgress
  <2>6. HeldIdsNameEvents'
    <3>1. ASSUME NEW d \in Holders
          PROVE  \/ register_id'[d] = None
                 \/ active'[register_id'[d]] /\ client'[register_id'[d]] = d
                 \/ MayBeStale(d)
      <4>1. CASE d = c
        BY <4>1, <1>5 DEF MayBeStale
      <4>2. CASE d # c
        <5> DEFINE t == register_id[d]
        <5>1. register_id'[d] = t /\ t \in Slots \cup {None}
          BY <4>2, <1>0, <1>4 DEF TypeOK
        <5>2. t = None \/ (active[t] /\ client[t] = d) \/ MayBeStale(d)
          BY <1>0 DEF HeldIdsNameEvents
        <5>3. CASE t # None /\ ~MayBeStale(d)
          <6>1. t # s /\ t \in Slots /\ active[t] /\ client[t] = d
            BY <5>1, <5>2, <5>3, <2>1, <4>2
          <6>2. active'[t] /\ client'[t] = d
            BY <6>1, <1>1, <2>4
          <6> QED BY <6>2, <5>1
        <5> QED BY <5>1, <5>3
      <4> QED BY <4>1, <4>2
    <3> QED BY <3>1, <1>6 DEF HeldIdsNameEvents
  <2>7. EventsAreHeld'
    <3>1. ASSUME NEW t \in Slots, active'[t], client'[t] \in Holders \ Forgetting
          PROVE  register_id'[client'[t]] = t
      <4>1. active[t] /\ t # s /\ client'[t] = client[t]
        BY <3>1, <1>1, <2>4
      <4>2. register_id[client[t]] = t
        BY <4>1, <3>1, <1>0 DEF EventsAreHeld
      <4>3. client[t] # c
        BY <4>1, <4>2 DEF s
      <4> QED BY <4>1, <4>2, <4>3, <3>1, <1>4
    <3> QED BY <3>1 DEF EventsAreHeld
  <2> QED BY <2>2, <2>3, <2>5, <2>6, <2>7 DEF IInv, IdsMatchEvents
<1>9. CASE ~(IsOwner(c, client[s]) /\ active[s])
  <2>1. UNCHANGED <<active, fire, free>>
    BY <1>1, <1>9 DEF lists
  <2>2. /\ TypeOK' /\ ListsPartitionSlots' /\ FireOrdered' /\ NeverLate' /\ QuiescentAtTarget'
        /\ KindsAgree' /\ ResetProgress'
    BY <1>0, <1>1, <1>7, <2>1 DEF TypeOK, ListsPartitionSlots, FireOrdered, NeverLate,
       QuiescentAtTarget, KindsAgree, ResetProgress
  <2>3. HeldIdsNameEvents'
    <3>1. ASSUME NEW d \in Holders
          PROVE  \/ register_id'[d] = None
                 \/ active'[register_id'[d]] /\ client'[register_id'[d]] = d
                 \/ MayBeStale(d)
      <4>1. CASE d = c
        BY <4>1, <1>5 DEF MayBeStale
      <4>2. CASE d # c
        BY <4>2, <1>0, <1>1, <1>4, <2>1 DEF HeldIdsNameEvents
      <4> QED BY <4>1, <4>2
    <3> QED BY <3>1, <1>6 DEF HeldIdsNameEvents
  <2>4. EventsAreHeld'
    <3>1. ASSUME NEW t \in Slots, active[t], client[t] \in Holders \ Forgetting
          PROVE  register_id'[client[t]] = t
      <4>1. register_id[client[t]] = t
        BY <3>1, <1>0 DEF EventsAreHeld
      <4>2. CASE client[t] = c
        <5>1. t = s
          BY <4>1, <4>2 DEF s
        <5>2. IsOwner(c, client[s])
          BY <5>1, <4>2 DEF IsOwner, Holders
        <5> QED BY <5>1, <5>2, <3>1, <1>9
      <4>3. CASE client[t] # c
        BY <4>1, <4>3, <3>1, <1>4
      <4> QED BY <4>2, <4>3
    <3> QED BY <3>1, <1>1, <2>1 DEF EventsAreHeld
  <2> QED BY <2>2, <2>3, <2>4 DEF IInv, IdsMatchEvents
<1> QED BY <1>8, <1>9

(* A printer forgets an id. *)
LEMMA ForgetStep ==
    ASSUME IInv, NEW c \in Holders, ForgetId(c)
    PROVE  IInv'
<1>0. /\ TypeOK /\ ListsPartitionSlots /\ FireOrdered /\ NeverLate /\ QuiescentAtTarget
      /\ KindsAgree /\ HeldIdsNameEvents /\ EventsAreHeld /\ ResetProgress
  BY DEF IInv, IdsMatchEvents
<1>1. /\ c \in Forgetting
      /\ register_id' = [register_id EXCEPT ![c] = None]
      /\ UNCHANGED <<client, expired_clock, loop_clock, accum_clocks, active, fire, free,
                     event_clocks, target, pc, scan, unreset>>
  BY DEF ForgetId, descriptors, lists, resetting
<1>2. /\ TypeOK' /\ ListsPartitionSlots' /\ FireOrdered' /\ NeverLate' /\ QuiescentAtTarget'
      /\ KindsAgree' /\ ResetProgress'
  BY <1>0, <1>1 DEF TypeOK, ListsPartitionSlots, FireOrdered, NeverLate, QuiescentAtTarget,
     KindsAgree, ResetProgress
<1>3. \A d \in Holders : register_id'[d] = IF d = c THEN None ELSE register_id[d]
  BY <1>0, <1>1 DEF TypeOK
<1>4. HeldIdsNameEvents'
  <2>1. \A d : MayBeStale(d)' <=> MayBeStale(d)
    BY <1>1 DEF MayBeStale
  <2>2. ASSUME NEW d \in Holders
        PROVE  \/ register_id'[d] = None
               \/ active'[register_id'[d]] /\ client'[register_id'[d]] = d
               \/ MayBeStale(d)
    BY <1>0, <1>1, <1>3 DEF HeldIdsNameEvents
  <2> QED BY <2>1, <2>2 DEF HeldIdsNameEvents
<1>5. EventsAreHeld'
  BY <1>0, <1>1, <1>3 DEF EventsAreHeld
<1> QED BY <1>2, <1>4, <1>5 DEF IInv, IdsMatchEvents

(* What a division by Scale yields. *)
LEMMA ScaleDivision ==
    ASSUME NEW n \in Nat
    PROVE  n \div Scale \in Nat /\ n % Scale \in Nat
  BY DEF Scale

(* The callback of a periodic event. *)
LEMMA FireLoopStep ==
    ASSUME IInv, FireLoop
    PROVE  IInv'
<1>0. /\ TypeOK /\ ListsPartitionSlots /\ FireOrdered /\ NeverLate /\ QuiescentAtTarget
      /\ KindsAgree /\ HeldIdsNameEvents /\ EventsAreHeld /\ ResetProgress
  BY DEF IInv, IdsMatchEvents
<1> DEFINE s == Head(fire)
           total == accum_clocks[s] + loop_clock[s]
           next == expired_clock[s] + total \div Scale
<1>1. /\ pc = "update" /\ fire # <<>> /\ expired_clock[s] <= target
      /\ loop_clock[s] # 0
      /\ accum_clocks' = [accum_clocks EXCEPT ![s] = total % Scale]
      /\ expired_clock' = [expired_clock EXCEPT ![s] = next]
      /\ \E p \in 1 .. Len(fire) :
           InsertPosition(Tail(fire), next, p) /\ fire' = InsertAt(Tail(fire), p, s)
      /\ event_clocks' = expired_clock[s]
      /\ pc' = "callback"
      /\ UNCHANGED <<client, loop_clock, active, free, target, register_id, scan, unreset>>
  BY DEF FireLoop, Due, resetting
<1>2. /\ s \in Slots /\ active[s]
      /\ \A t \in Slots : active[t] => expired_clock[s] <= expired_clock[t]
  BY <1>0, <1>1, HeadIsEarliest
<1>3. /\ IsInjective(fire) /\ ToSet(fire) = {t \in Slots : active[t]} /\ fire \in Seq(Slots)
  BY <1>0 DEF ListsPartitionSlots, TypeOK
<1>4. /\ s = fire[1] /\ s \in ToSet(fire)
      /\ Tail(fire) \in Seq(Slots) /\ Len(Tail(fire)) = Len(fire) - 1 /\ Len(fire) \in Nat \ {0}
      /\ \A i \in 1 .. Len(fire) - 1 : Tail(fire)[i] = fire[i + 1]
      /\ IsInjective(Tail(fire)) /\ ToSet(Tail(fire)) = ToSet(fire) \ {s}
  BY <1>1, <1>3, TailRange
<1>5. /\ total \in Nat /\ expired_clock[s] \in Nat /\ next \in Nat /\ total % Scale \in Nat
      /\ next >= expired_clock[s]
  <2>1. total \in Nat /\ expired_clock[s] \in Nat
    BY <1>0, <1>2 DEF TypeOK
  <2>2. total \div Scale \in Nat /\ total % Scale \in Nat
    BY <2>1, ScaleDivision
  <2> QED BY <2>1, <2>2
<1> HIDE DEF s, total, next
<1>6. PICK p \in 1 .. Len(Tail(fire)) + 1 :
          InsertPosition(Tail(fire), next, p) /\ fire' = InsertAt(Tail(fire), p, s)
  BY <1>1, <1>4
<1>7. expired_clock \in [Slots -> Nat] /\ expired_clock' \in [Slots -> Nat]
  BY <1>0, <1>1, <1>2, <1>5 DEF TypeOK
<1>8. \A i, j \in 1 .. Len(Tail(fire)) :
        i < j => expired_clock[Tail(fire)[i]] <= expired_clock[Tail(fire)[j]]
  <2>1. ASSUME NEW i \in 1 .. Len(Tail(fire)), NEW j \in 1 .. Len(Tail(fire)), i < j
        PROVE  expired_clock[Tail(fire)[i]] <= expired_clock[Tail(fire)[j]]
    <3>1. /\ i + 1 \in 1 .. Len(fire) /\ j + 1 \in 1 .. Len(fire) /\ i + 1 < j + 1
          /\ Tail(fire)[i] = fire[i + 1] /\ Tail(fire)[j] = fire[j + 1]
      BY <2>1, <1>4
    <3> QED BY <3>1, <1>0 DEF FireOrdered
  <2> QED BY <2>1
<1>9. s \notin ToSet(Tail(fire))
  BY <1>4
<1>10. /\ fire' \in Seq(Slots) /\ IsInjective(fire') /\ ToSet(fire') = ToSet(Tail(fire)) \cup {s}
       /\ \A i, j \in 1 .. Len(fire') :
            i < j => expired_clock'[fire'[i]] <= expired_clock'[fire'[j]]
  <2>1. expired_clock' = [expired_clock EXCEPT ![s] = next]
    BY <1>1
  <2>2. Tail(fire) \in Seq(Slots) /\ IsInjective(Tail(fire)) /\ s \in Slots /\ next \in Nat
    BY <1>2, <1>4, <1>5
  <2> QED BY <2>1, <2>2, <1>6, <1>7, <1>8, <1>9, LinkStep
<1>11. TypeOK'
  BY <1>0, <1>1, <1>2, <1>5, <1>7, <1>10 DEF TypeOK
<1>12. ListsPartitionSlots'
  BY <1>0, <1>1, <1>4, <1>10 DEF ListsPartitionSlots
<1>13. FireOrdered'
  BY <1>10 DEF FireOrdered
<1>14. NeverLate'
  <2>1. ASSUME NEW t \in Slots, active'[t] PROVE event_clocks' <= expired_clock'[t]
    <3>1. CASE t = s
      BY <3>1, <1>1, <1>2, <1>5, <1>7
    <3>2. CASE t # s
      BY <3>2, <2>1, <1>1, <1>2, <1>7
    <3> QED BY <3>1, <3>2
  <2> QED BY <2>1, <1>1 DEF NeverLate
<1>15. QuiescentAtTarget' /\ KindsAgree' /\ ResetProgress'
  BY <1>0, <1>1 DEF QuiescentAtTarget, KindsAgree, ResetProgress
<1>16. pc # "reset"
  BY <1>1
<1>17. HeldIdsNameEvents' /\ EventsAreHeld'
  BY <1>0, <1>1, <1>16 DEF HeldIdsNameEvents, EventsAreHeld, MayBeStale
<1> QED BY <1>11, <1>12, <1>13, <1>14, <1>15, <1>17 DEF IInv, IdsMatchEvents

(* The callback of an event that fires once. *)
LEMMA FireOnceStep ==
    ASSUME IInv, FireOnce
    PROVE  IInv'
<1>0. /\ TypeOK /\ ListsPartitionSlots /\ FireOrdered /\ NeverLate /\ QuiescentAtTarget
      /\ KindsAgree /\ HeldIdsNameEvents /\ EventsAreHeld /\ ResetProgress
  BY DEF IInv, IdsMatchEvents
<1> DEFINE s == Head(fire)
<1>1. /\ pc = "update" /\ fire # <<>> /\ expired_clock[s] <= target
      /\ active' = [active EXCEPT ![s] = FALSE]
      /\ fire' = Tail(fire)
      /\ free' = <<s>> \o free
      /\ event_clocks' = expired_clock[s]
      /\ register_id' = IF client[s] \in Holders
                        THEN [register_id EXCEPT ![client[s]] = None] ELSE register_id
      /\ pc' = "callback"
      /\ UNCHANGED <<client, expired_clock, loop_clock, accum_clocks, target, scan, unreset>>
  BY DEF FireOnce, Due, resetting
<1>2. /\ s \in Slots /\ active[s]
      /\ \A t \in Slots : active[t] => expired_clock[s] <= expired_clock[t]
  BY <1>0, <1>1, HeadIsEarliest
<1>3. /\ IsInjective(fire) /\ ToSet(fire) = {t \in Slots : active[t]} /\ fire \in Seq(Slots)
      /\ IsInjective(free) /\ ToSet(free) = {t \in Slots : ~active[t]} /\ free \in Seq(Slots)
  BY <1>0 DEF ListsPartitionSlots, TypeOK
<1>4. /\ Tail(fire) \in Seq(Slots) /\ Len(Tail(fire)) = Len(fire) - 1 /\ Len(fire) \in Nat \ {0}
      /\ \A i \in 1 .. Len(fire) - 1 : Tail(fire)[i] = fire[i + 1]
      /\ IsInjective(Tail(fire)) /\ ToSet(Tail(fire)) = ToSet(fire) \ {s}
  BY <1>1, <1>3, TailRange
<1>5. /\ <<s>> \o free \in Seq(Slots) /\ IsInjective(<<s>> \o free)
      /\ ToSet(<<s>> \o free) = ToSet(free) \cup {s}
  <2>1. s \notin ToSet(free)
    BY <1>2, <1>3
  <2> QED BY <2>1, <1>2, <1>3, PushRange
<1> HIDE DEF s
<1>6. \A t \in Slots : active'[t] <=> active[t] /\ t # s
  BY <1>0, <1>1, <1>2 DEF TypeOK
<1>7. TypeOK'
  BY <1>0, <1>1, <1>2, <1>4, <1>5 DEF TypeOK
<1>8. ListsPartitionSlots'
  <2>1. {t \in Slots : active'[t]} = ToSet(fire) \ {s}
        /\ {t \in Slots : ~active'[t]} = ToSet(free) \cup {s}
    BY <1>2, <1>3, <1>6
  <2> QED BY <2>1, <1>1, <1>4, <1>5 DEF ListsPartitionSlots
<1>9. FireOrdered'
  <2>1. ASSUME NEW i \in 1 .. Len(fire'), NEW j \in 1 .. Len(fire'), i < j
        PROVE  expired_clock'[fire'[i]] <= expired_clock'[fire'[j]]
    <3>1. /\ i + 1 \in 1 .. Len(fire) /\ j + 1 \in 1 .. Len(fire) /\ i + 1 < j + 1
          /\ fire'[i] = fire[i + 1] /\ fire'[j] = fire[j + 1]
      BY <2>1, <1>1, <1>4
    <3> QED BY <3>1, <1>0, <1>1 DEF FireOrdered
  <2> QED BY <2>1 DEF FireOrdered
<1>10. NeverLate' /\ QuiescentAtTarget' /\ KindsAgree' /\ ResetProgress'
  BY <1>0, <1>1, <1>2, <1>6 DEF NeverLate, QuiescentAtTarget, KindsAgree, ResetProgress
<1>11. pc # "reset"
  BY <1>1
<1>12. HeldIdsNameEvents'
  <2>1. ASSUME NEW d \in Holders
        PROVE  \/ register_id'[d] = None
               \/ active'[register_id'[d]] /\ client'[register_id'[d]] = d
               \/ d \in Latching
    <3>1. CASE d = client[s]
      BY <3>1, <1>0, <1>1 DEF TypeOK
    <3>2. CASE d # client[s]
      <4> DEFINE t == register_id[d]
      <4>1. register_id'[d] = t /\ t \in Slots \cup {None}
        BY <3>2, <1>0, <1>1 DEF TypeOK
      <4>2. \/ t = None
            \/ active[t] /\ client[t] = d
            \/ d \in Latching
        BY <1>0, <1>11 DEF HeldIdsNameEvents, MayBeStale
      <4>3. CASE t # None /\ d \notin Latching
        <5>1. t # s /\ t \in Slots /\ active[t] /\ client[t] = d
          BY <4>1, <4>2, <4>3, <3>2
        <5>2. active'[t] /\ client'[t] = d
          BY <5>1, <1>1, <1>6
        <5> QED BY <5>2, <4>1
      <4> QED BY <4>1, <4>3
    <3> QED BY <3>1, <3>2
  <2> QED BY <2>1 DEF HeldIdsNameEvents, MayBeStale
<1>13. EventsAreHeld'
  <2>1. ASSUME NEW t \in Slots, active'[t], client'[t] \in Holders \ Forgetting
        PROVE  register_id'[client'[t]] = t
    <3>1. active[t] /\ t # s /\ client'[t] = client[t]
      BY <2>1, <1>1, <1>6
    <3>2. register_id[client[t]] = t
      BY <3>1, <2>1, <1>0 DEF EventsAreHeld
    <3>3. client[s] \in Holders \ Forgetting => register_id[client[s]] = s
      BY <1>0, <1>2 DEF EventsAreHeld
    <3>4. client[t] # client[s]
      BY <3>1, <3>2, <3>3, <2>1
    <3> QED BY <3>1, <3>2, <3>4, <2>1, <1>0, <1>1 DEF TypeOK
  <2> QED BY <2>1 DEF EventsAreHeld
<1> QED BY <1>7, <1>8, <1>9, <1>10, <1>12, <1>13 DEF IInv, IdsMatchEvents

(* The beginning and the end of an update_event(), and the return of a     *)
(* callback into it.                                                       *)
LEMMA UpdateStep ==
    ASSUME IInv, BeginUpdate \/ CallbackReturns \/ EndUpdate
    PROVE  IInv'
<1>0. /\ TypeOK /\ ListsPartitionSlots /\ FireOrdered /\ NeverLate /\ QuiescentAtTarget
      /\ KindsAgree /\ HeldIdsNameEvents /\ EventsAreHeld /\ ResetProgress
  BY DEF IInv, IdsMatchEvents
<1>1. /\ pc \in {"run", "update", "callback"} /\ pc' \in {"run", "update"}
      /\ UNCHANGED <<client, expired_clock, loop_clock, accum_clocks, active, fire, free,
                     register_id, scan, unreset>>
  BY DEF BeginUpdate, CallbackReturns, EndUpdate, descriptors, lists, resetting
<1>2. /\ target' \in Nat /\ event_clocks' \in Nat /\ event_clocks' <= target'
      /\ pc' = "run" => event_clocks' = target'
      /\ \A s \in Slots : active[s] => event_clocks' <= expired_clock[s]
  <2>1. CASE BeginUpdate
    <3>1. PICK clock \in 1 .. MaxClock : target' = event_clocks + clock
      BY <2>1 DEF BeginUpdate
    <3>2. event_clocks' = event_clocks /\ pc' = "update" /\ event_clocks \in Nat
      BY <2>1, <1>0 DEF BeginUpdate, TypeOK
    <3> QED BY <3>1, <3>2, <1>0 DEF NeverLate
  <2>2. CASE CallbackReturns
    BY <2>2, <1>0 DEF CallbackReturns, TypeOK, NeverLate
  <2>3. CASE EndUpdate
    <3>1. event_clocks' = target /\ target' = target /\ target \in Nat /\ ~Due
      BY <2>3, <1>0 DEF EndUpdate, TypeOK
    <3>2. ASSUME NEW s \in Slots, active[s] PROVE target <= expired_clock[s]
      <4>1. fire # <<>>
        <5>1. s \in ToSet(fire)
          BY <3>2, <1>0 DEF ListsPartitionSlots
        <5> QED BY <5>1 DEF ToSet
      <4>2. Head(fire) \in Slots /\ expired_clock[Head(fire)] <= expired_clock[s]
        BY <4>1, <3>2, <1>0, HeadIsEarliest
      <4>3. ~(expired_clock[Head(fire)] <= target)
        BY <3>1, <4>1 DEF Due
      <4>4. expired_clock[Head(fire)] \in Nat /\ expired_clock[s] \in Nat
        BY <4>2, <1>0 DEF TypeOK
      <4> QED BY <3>1, <4>2, <4>3, <4>4
    <3> QED BY <3>1, <3>2
  <2> QED BY <2>1, <2>2, <2>3
<1>3. TypeOK'
  BY <1>0, <1>1, <1>2 DEF TypeOK
<1>4. ListsPartitionSlots' /\ FireOrdered' /\ KindsAgree' /\ EventsAreHeld'
  BY <1>0, <1>1 DEF ListsPartitionSlots, FireOrdered, KindsAgree, EventsAreHeld
<1>5. NeverLate' /\ QuiescentAtTarget' /\ ResetProgress'
  BY <1>1, <1>2 DEF NeverLate, QuiescentAtTarget, ResetProgress
<1>6. HeldIdsNameEvents'
  <2>1. pc # "reset"
    BY <1>1
  <2> QED BY <2>1, <1>0, <1>1 DEF HeldIdsNameEvents, MayBeStale
<1> QED BY <1>3, <1>4, <1>5, <1>6 DEF IInv, IdsMatchEvents

(* VM::reset(). *)
LEMMA ResetStep ==
    ASSUME IInv, BeginReset \/ ResetSlot \/ EndReset
    PROVE  IInv'
<1>0. /\ TypeOK /\ ListsPartitionSlots /\ FireOrdered /\ NeverLate /\ QuiescentAtTarget
      /\ KindsAgree /\ HeldIdsNameEvents /\ EventsAreHeld /\ ResetProgress
  BY DEF IInv, IdsMatchEvents
<1>1. CASE BeginReset
  <2>1. /\ pc = "run" /\ pc' = "reset" /\ scan' = 0 /\ unreset' = {Owner[c] : c \in Holders}
        /\ UNCHANGED <<client, expired_clock, loop_clock, accum_clocks, active, fire, free,
                       event_clocks, target, register_id>>
    BY <1>1 DEF BeginReset, descriptors, lists
  <2>2. TypeOK'
    BY <1>0, <2>1, SizeAssumption, ClientAssumption DEF TypeOK, Holders
  <2>3. ResetProgress'
    BY <2>1, SlotFacts DEF ResetProgress
  <2>4. ListsPartitionSlots' /\ FireOrdered' /\ KindsAgree' /\ EventsAreHeld'
    BY <1>0, <2>1 DEF ListsPartitionSlots, FireOrdered, KindsAgree, EventsAreHeld
  <2>5. NeverLate' /\ QuiescentAtTarget'
    BY <1>0, <2>1 DEF NeverLate, QuiescentAtTarget
  <2>6. HeldIdsNameEvents'
    <3>1. pc # "reset"
      BY <2>1
    <3> QED BY <3>1, <1>0, <2>1 DEF HeldIdsNameEvents, MayBeStale
  <2> QED BY <2>2, <2>3, <2>4, <2>5, <2>6 DEF IInv, IdsMatchEvents
<1>2. CASE ResetSlot
  <2>1. /\ pc = "reset" /\ scan < MAX_EVENT /\ scan' = scan + 1
        /\ UNCHANGED <<client, expired_clock, loop_clock, accum_clocks, event_clocks, target,
                       register_id, pc, unreset>>
    BY <1>2 DEF ResetSlot
  <2>2. scan \in Slots /\ scan \in Nat /\ scan' \in 0 .. MAX_EVENT
    BY <1>0, <2>1, SizeAssumption DEF TypeOK, Slots
  <2>3. scan' < MAX_EVENT => unreset' = {Owner[c] : c \in Holders}
    BY <1>0, <2>1 DEF ResetProgress
  <2>4. \A d \in Holders : MayBeStale(d)' <=> MayBeStale(d)
    BY <2>1 DEF MayBeStale
  <2>5. \A d \in Holders : ~MayBeStale(d) => d \in Periodic
    BY <1>0, <2>1 DEF MayBeStale, ResetProgress
  <2>6. CASE active[scan] /\ loop_clock[scan] = 0
    <3>1. Release(scan)
      BY <1>2, <2>6 DEF ResetSlot
    <3>2. /\ fire' \in Seq(Slots) /\ free' \in Seq(Slots)
          /\ active' = [active EXCEPT ![scan] = FALSE] /\ active' \in [Slots -> BOOLEAN]
          /\ ListsPartitionSlots' /\ FireOrdered'
      BY <1>0, <2>1, <2>2, <2>6, <3>1, ReleaseStep
    <3>3. \A t \in Slots : active'[t] <=> active[t] /\ t # scan
      BY <1>0, <2>2, <3>2 DEF TypeOK
    <3>4. TypeOK'
      BY <1>0, <2>1, <2>2, <3>2 DEF TypeOK
    <3>5. NeverLate' /\ QuiescentAtTarget' /\ KindsAgree' /\ EventsAreHeld'
      BY <1>0, <2>1, <3>3 DEF NeverLate, QuiescentAtTarget, KindsAgree, EventsAreHeld
    <3>6. ResetProgress'
      <4>1. ASSUME NEW t \in Slots, t < scan', active'[t]
            PROVE  loop_clock'[t] # 0 \/ client'[t] \in Forgetting
        <5>1. t < scan /\ active[t]
          BY <4>1, <2>1, <2>2, <3>3, SlotFacts
        <5> QED BY <5>1, <1>0, <2>1 DEF ResetProgress
      <4> QED BY <4>1, <2>3 DEF ResetProgress
    <3>7. HeldIdsNameEvents'
      <4>1. ASSUME NEW d \in Holders, register_id[d] # None, ~MayBeStale(d)
            PROVE  active'[register_id[d]] /\ client[register_id[d]] = d
        <5>1. active[register_id[d]] /\ client[register_id[d]] = d
          BY <4>1, <1>0 DEF HeldIdsNameEvents
        <5>2. register_id[d] \in Slots
          BY <4>1, <1>0 DEF TypeOK
        <5>3. loop_clock[register_id[d]] # 0
          BY <4>1, <5>1, <5>2, <2>5, <1>0 DEF KindsAgree
        <5> QED BY <5>1, <5>2, <5>3, <2>6, <3>3
      <4> QED BY <4>1, <2>1, <2>4 DEF HeldIdsNameEvents
    <3> QED BY <3>2, <3>4, <3>5, <3>6, <3>7 DEF IInv, IdsMatchEvents
  <2>7. CASE ~(active[scan] /\ loop_clock[scan] = 0)
    <3>1. UNCHANGED <<active, fire, free>>
      BY <1>2, <2>7 DEF ResetSlot, lists
    <3>2. TypeOK'
      BY <1>0, <2>1, <2>2, <3>1 DEF TypeOK
    <3>3. ListsPartitionSlots' /\ FireOrdered' /\ NeverLate' /\ QuiescentAtTarget' /\ KindsAgree'
          /\ EventsAreHeld'
      BY <1>0, <2>1, <3>1 DEF ListsPartitionSlots, FireOrdered, NeverLate, QuiescentAtTarget,
         KindsAgree, EventsAreHeld
    <3>4. ResetProgress'
      <4>1. ASSUME NEW t \in Slots, t < scan', active'[t]
            PROVE  loop_clock'[t] # 0 \/ client'[t] \in Forgetting
        <5>1. active[t] /\ (t < scan \/ t = scan)
          BY <4>1, <2>1, <2>2, <3>1, SlotFacts
        <5> QED BY <5>1, <1>0, <2>1, <2>7 DEF ResetProgress
      <4> QED BY <4>1, <2>3 DEF ResetProgress
    <3>5. HeldIdsNameEvents'
      BY <1>0, <2>1, <2>4, <3>1 DEF HeldIdsNameEvents
    <3> QED BY <3>2, <3>3, <3>4, <3>5 DEF IInv, IdsMatchEvents
  <2> QED BY <2>6, <2>7
<1>3. CASE EndReset
  <2>1. /\ pc = "reset" /\ unreset = {} /\ pc' = "run"
        /\ UNCHANGED <<client, expired_clock, loop_clock, accum_clocks, active, fire, free,
                       event_clocks, target, register_id, scan, unreset>>
    BY <1>3 DEF EndReset, DevicesReset, descriptors, lists, resetting
  <2>2. /\ TypeOK' /\ ListsPartitionSlots' /\ FireOrdered' /\ NeverLate' /\ QuiescentAtTarget'
        /\ KindsAgree' /\ EventsAreHeld' /\ ResetProgress'
    BY <1>0, <2>1 DEF TypeOK, ListsPartitionSlots, FireOrdered, NeverLate, QuiescentAtTarget,
       KindsAgree, EventsAreHeld, ResetProgress
  <2>3. HeldIdsNameEvents'
    BY <1>0, <2>1 DEF HeldIdsNameEvents, MayBeStale
  <2> QED BY <2>2, <2>3 DEF IInv, IdsMatchEvents
<1> QED BY <1>1, <1>2, <1>3

(* The reset() of a device. *)
LEMMA ResetDeviceStep ==
    ASSUME IInv, NEW d \in Devices, ResetDevice(d)
    PROVE  IInv'
<1>0. /\ TypeOK /\ ListsPartitionSlots /\ FireOrdered /\ NeverLate /\ QuiescentAtTarget
      /\ KindsAgree /\ HeldIdsNameEvents /\ EventsAreHeld /\ ResetProgress
  BY DEF IInv, IdsMatchEvents
<1>1. /\ pc = "reset" /\ scan = MAX_EVENT /\ unreset' = unreset \ {d}
      /\ \A c \in Holders :
            register_id'[c] = IF Owner[c] # d \/ c \in Periodic THEN register_id[c] ELSE None
      /\ UNCHANGED <<client, expired_clock, loop_clock, accum_clocks, active, fire, free,
                     event_clocks, target, pc, scan>>
  BY DEF ResetDevice, DevicesReset, descriptors, lists
<1>2. register_id' \in [Holders -> Slots \cup {None}]
  BY <1>0 DEF ResetDevice, TypeOK
<1>3. /\ TypeOK' /\ ListsPartitionSlots' /\ FireOrdered' /\ NeverLate' /\ QuiescentAtTarget'
      /\ KindsAgree'
  BY <1>0, <1>1, <1>2 DEF TypeOK, ListsPartitionSlots, FireOrdered, NeverLate,
     QuiescentAtTarget, KindsAgree
<1>4. ResetProgress'
  BY <1>0, <1>1, SlotFacts DEF ResetProgress
<1>5. HeldIdsNameEvents'
  <2>1. ASSUME NEW c \in Holders, register_id'[c] # None, ~MayBeStale(c)'
        PROVE  active[register_id'[c]] /\ client[register_id'[c]] = c
    <3>1. register_id'[c] = register_id[c] /\ (Owner[c] # d \/ c \in Periodic)
      BY <2>1, <1>1
    <3>2. ~MayBeStale(c)
      BY <2>1, <3>1, <1>1 DEF MayBeStale
    <3> QED BY <2>1, <3>1, <3>2, <1>0 DEF HeldIdsNameEvents
  <2> QED BY <2>1, <1>1 DEF HeldIdsNameEvents
<1>6. EventsAreHeld'
  <2>1. ASSUME NEW s \in Slots, active[s], client[s] \in Holders \ Forgetting
        PROVE  register_id'[client[s]] = s
    <3>1. s < scan
      BY <1>1, SizeAssumption DEF Slots
    <3>2. client[s] \in Periodic
      BY <2>1, <3>1, <1>0, <1>1 DEF ResetProgress, KindsAgree
    <3>3. register_id[client[s]] = s
      BY <2>1, <1>0 DEF EventsAreHeld
    <3> QED BY <2>1, <3>2, <3>3, <1>1
  <2> QED BY <2>1, <1>1 DEF EventsAreHeld
<1> QED BY <1>3, <1>4, <1>5, <1>6 DEF IInv, IdsMatchEvents

(* Every step of the event manager keeps the invariant. *)
LEMMA NextIInv == IInv /\ [Next]_vars => IInv'
<1> SUFFICES ASSUME IInv, [Next]_vars PROVE IInv'
  OBVIOUS
<1>1. ASSUME NEW c \in Clients, RegisterEvent(c) PROVE IInv'
  <2>1. CASE c \notin Periodic
    <3>1. PICK clock \in Clocks : Register(c, clock, 0, 0)
      BY <1>1, <2>1 DEF RegisterEvent
    <3>2. clock \in Nat
      BY ClockAssumption
    <3> QED BY <2>1, <3>1, <3>2, RegisterStep
  <2>2. CASE c \in Periodic
    <3>1. PICK loop \in LoopClocks : Register(c, loop \div Scale, loop, loop % Scale)
      BY <1>1, <2>2 DEF RegisterEvent
    <3>2. loop \in Nat \ {0}
      BY ClockAssumption
    <3>3. loop \div Scale \in Nat /\ loop % Scale \in Nat
      BY <3>2, ScaleDivision
    <3> QED BY <2>2, <3>1, <3>2, <3>3, RegisterStep
  <2> QED BY <2>1, <2>2
<1>2. ASSUME NEW c \in Clients, RegisterEventByClock(c) PROVE IInv'
  <2>1. PICK clock \in Clocks :
            \/ c \notin Periodic /\ Register(c, clock, 0, 0)
            \/ c \in Periodic /\ clock # 0 /\ Register(c, clock, clock * Scale, 0)
    BY <1>2 DEF RegisterEventByClock
  <2>2. clock \in Nat
    BY ClockAssumption
  <2>3. CASE c \notin Periodic
    BY <2>1, <2>2, <2>3, RegisterStep
  <2>4. CASE c \in Periodic
    <3>1. clock * Scale \in Nat /\ clock * Scale # 0
      BY <2>1, <2>2, <2>4 DEF Scale
    <3> QED BY <2>1, <2>2, <2>4, <3>1, RegisterStep
  <2> QED BY <2>3, <2>4
<1>3. ASSUME NEW c \in Holders, CancelEvent(c) PROVE IInv'
  BY <1>3, CancelStep
<1>4. CASE BeginUpdate \/ CallbackReturns \/ EndUpdate
  BY <1>4, UpdateStep
<1>5. CASE FireLoop
  BY <1>5, FireLoopStep
<1>6. CASE FireOnce
  BY <1>6, FireOnceStep
<1>7. CASE BeginReset \/ ResetSlot \/ EndReset
  BY <1>7, ResetStep
<1>8. ASSUME NEW c \in Holders, ForgetId(c) PROVE IInv'
  BY <1>8, ForgetStep
<1>9. ASSUME NEW d \in Devices, ResetDevice(d) PROVE IInv'
  BY <1>9, ResetDeviceStep
<1>10. CASE UNCHANGED vars
  BY <1>10 DEF vars, IInv, TypeOK, ListsPartitionSlots, FireOrdered, NeverLate, QuiescentAtTarget,
     KindsAgree, IdsMatchEvents, HeldIdsNameEvents, EventsAreHeld, ResetProgress, MayBeStale
<1> QED BY <1>1, <1>2, <1>3, <1>4, <1>5, <1>6, <1>7, <1>8, <1>9, <1>10 DEF Next

(* Every reachable state satisfies the inductive invariant. *)
LEMMA InvariantHolds == Spec => []IInv
<1> QED BY InitIInv, NextIInv, PTL DEF Spec
-----------------------------------------------------------------------------
(***************************************************************************)
(* The variables of the event manager keep their types.                    *)
(***************************************************************************)
THEOREM TypeCorrect == Spec => []TypeOK
<1>1. IInv => TypeOK
  BY DEF IInv
<1> QED BY <1>1, InvariantHolds, PTL

(***************************************************************************)
(* No sequence of operations corrupts the lists: each descriptor is on     *)
(* exactly one of them, once.                                              *)
(***************************************************************************)
THEOREM ListsNeverCorrupt == Spec => []ListsPartitionSlots
<1>1. IInv => ListsPartitionSlots
  BY DEF IInv
<1> QED BY <1>1, InvariantHolds, PTL

(***************************************************************************)
(* update_event() keeps the fire list sorted, leaves no event behind the   *)
(* clock, and leaves the clock exactly at the target it was given, whatever*)
(* its callbacks registered and cancelled.                                 *)
(***************************************************************************)
THEOREM UpdateIsExact == Spec => []EventsOnTime
<1>1. IInv => EventsOnTime
  BY DEF IInv, EventsOnTime
<1> QED BY <1>1, InvariantHolds, PTL

(***************************************************************************)
(* The ids that devices hold and the events that are registered match.     *)
(***************************************************************************)
THEOREM IdsNeverStale == Spec => []IdsMatchEvents
<1>1. IInv => IdsMatchEvents
  BY DEF IInv
<1> QED BY <1>1, InvariantHolds, PTL
-----------------------------------------------------------------------------
(* The clock in one step. *)
LEMMA ClockStep ==
    ASSUME IInv, [Next]_vars
    PROVE  /\ event_clocks <= event_clocks'
           /\ \A s \in Slots :
                active[s] /\ expired_clock[s] < event_clocks' => event_clocks' = event_clocks
<1>0. /\ TypeOK /\ ListsPartitionSlots /\ FireOrdered /\ NeverLate
      /\ event_clocks \in Nat /\ target \in Nat /\ expired_clock \in [Slots -> Nat]
  BY DEF IInv, TypeOK
<1>1. CASE event_clocks' = event_clocks
  BY <1>0, <1>1
<1>2. CASE FireLoop \/ FireOnce
  <2>1. fire # <<>> /\ event_clocks' = expired_clock[Head(fire)]
    BY <1>2 DEF FireLoop, FireOnce, Due
  <2>2. /\ Head(fire) \in Slots /\ active[Head(fire)]
        /\ \A s \in Slots : active[s] => expired_clock[Head(fire)] <= expired_clock[s]
    BY <1>0, <2>1, HeadIsEarliest
  <2>3. event_clocks <= event_clocks'
    BY <1>0, <2>1, <2>2 DEF NeverLate
  <2> QED BY <1>0, <2>1, <2>2, <2>3
<1>3. CASE EndUpdate
  <2>1. event_clocks' = target /\ ~Due
    BY <1>3 DEF EndUpdate
  <2>2. ASSUME NEW s \in Slots, active[s] PROVE ~(expired_clock[s] < target)
    <3>1. fire # <<>>
      <4>1. s \in ToSet(fire)
        BY <2>2, <1>0 DEF ListsPartitionSlots
      <4> QED BY <4>1 DEF ToSet
    <3>2. Head(fire) \in Slots /\ expired_clock[Head(fire)] <= expired_clock[s]
      BY <3>1, <2>2, <1>0, HeadIsEarliest
    <3>3. ~(expired_clock[Head(fire)] <= target)
      BY <2>1, <3>1 DEF Due
    <3> QED BY <1>0, <3>2, <3>3
  <2>3. event_clocks <= target
    BY <1>0 DEF NeverLate
  <2> QED BY <2>1, <2>2, <2>3
<1>4. ASSUME NEW c \in Clients, RegisterEvent(c) \/ RegisterEventByClock(c)
      PROVE  event_clocks' = event_clocks
  BY <1>4 DEF RegisterEvent, RegisterEventByClock, Register
<1>5. ASSUME NEW c \in Holders, CancelEvent(c) \/ ForgetId(c)
      PROVE  event_clocks' = event_clocks
  BY <1>5 DEF CancelEvent, ForgetId
<1>6. BeginUpdate \/ CallbackReturns \/ BeginReset \/ ResetSlot \/ EndReset
        \/ (\E d \in Devices : ResetDevice(d))
        => event_clocks' = event_clocks
  BY DEF BeginUpdate, CallbackReturns, BeginReset, ResetSlot, EndReset, ResetDevice
<1>7. UNCHANGED vars => event_clocks' = event_clocks
  BY DEF vars
<1> QED BY <1>1, <1>2, <1>3, <1>4, <1>5, <1>6, <1>7 DEF Next

(***************************************************************************)
(* The machine clock never runs back and jumps over no event.              *)
(***************************************************************************)
THEOREM ClockNeverSkips == Spec => ClockJumpsOverNothing
<1>1. IInv /\ [Next]_vars =>
        [/\ event_clocks <= event_clocks'
         /\ \A s \in Slots :
              active[s] /\ expired_clock[s] < event_clocks' => event_clocks' = event_clocks]_vars
  BY ClockStep
<1> QED BY <1>1, InvariantHolds, PTL DEF Spec, ClockJumpsOverNothing

(* Who ends a registration, in one step. *)
LEMMA RemovalStep ==
    ASSUME IInv, [Next]_vars, NEW s \in Slots
    PROVE  LeavesLegally(s)
<1>0. /\ TypeOK /\ HeldIdsNameEvents /\ active \in [Slots -> BOOLEAN]
  BY DEF IInv, IdsMatchEvents, TypeOK
<1> SUFFICES ASSUME active[s], ~active'[s]
             PROVE  \/ event_clocks' = expired_clock[s] /\ pc' = "callback"
                    \/ Cancelled(s)
                    \/ pc = "reset" /\ loop_clock[s] = 0
  BY DEF LeavesLegally
<1>1. CASE FireOnce
  <2>1. active' = [active EXCEPT ![Head(fire)] = FALSE] /\ pc' = "callback"
        /\ event_clocks' = expired_clock[Head(fire)]
    BY <1>1 DEF FireOnce
  <2>2. s = Head(fire)
    BY <1>0, <2>1
  <2> QED BY <2>1, <2>2
<1>2. ASSUME NEW c \in Holders, CancelEvent(c) PROVE Cancelled(s)
  <2>1. CASE IsOwner(c, client[register_id[c]]) /\ active[register_id[c]]
    <3>1. Release(register_id[c])
      BY <1>2, <2>1 DEF CancelEvent
    <3>2. s = register_id[c]
      BY <1>0, <3>1 DEF Release
    <3>3. client[s] = c
      BY <1>2, <2>1, <3>2, CancelsItsOwn
    <3>4. register_id'[c] = None \/ c \in Latching
      BY <1>0, <1>2 DEF CancelEvent, TypeOK
    <3> QED BY <3>2, <3>3, <3>4 DEF Cancelled
  <2>2. CASE ~(IsOwner(c, client[register_id[c]]) /\ active[register_id[c]])
    BY <1>2, <2>2 DEF CancelEvent
  <2> QED BY <2>1, <2>2
<1>3. CASE ResetSlot
  <2>1. CASE active[scan] /\ loop_clock[scan] = 0
    <3>1. active' = [active EXCEPT ![scan] = FALSE] /\ pc = "reset"
      BY <1>3, <2>1 DEF ResetSlot, Release
    <3>2. s = scan
      BY <1>0, <3>1
    <3> QED BY <2>1, <3>1, <3>2
  <2>2. CASE ~(active[scan] /\ loop_clock[scan] = 0)
    BY <1>3, <2>2 DEF ResetSlot
  <2> QED BY <2>1, <2>2
<1>4. ASSUME NEW c \in Clients, NEW clock, NEW loop, NEW accum, Register(c, clock, loop, accum)
      PROVE  FALSE
  <2>1. CASE free = <<>>
    BY <1>4, <2>1 DEF Register, descriptors
  <2>2. CASE free # <<>>
    <3>1. active' = [active EXCEPT ![Head(free)] = TRUE]
      BY <1>4, <2>2 DEF Register
    <3> QED BY <3>1, <1>0
  <2> QED BY <2>1, <2>2
<1>5. ASSUME NEW c \in Clients, RegisterEvent(c) \/ RegisterEventByClock(c) PROVE FALSE
  BY <1>4, <1>5 DEF RegisterEvent, RegisterEventByClock
<1>6. ASSUME FireLoop \/ BeginUpdate \/ CallbackReturns \/ EndUpdate \/ BeginReset \/ EndReset
      PROVE  FALSE
  BY <1>6 DEF FireLoop, BeginUpdate, CallbackReturns, EndUpdate, BeginReset, EndReset, descriptors
<1>7. ASSUME (\E c \in Holders : ForgetId(c)) \/ (\E d \in Devices : ResetDevice(d))
      PROVE  FALSE
  BY <1>7 DEF ForgetId, ResetDevice, descriptors
<1>8. UNCHANGED vars => FALSE
  BY DEF vars
<1> QED BY <1>1, <1>2, <1>3, <1>5, <1>6, <1>7, <1>8 DEF Next

(***************************************************************************)
(* Only its own time, its own holder or a reset ends a registration.       *)
(***************************************************************************)
THEOREM RemovalsAreLegal == Spec => OnlyLegalRemovals
<1>1. IInv /\ [Next]_vars => [\A s \in Slots : LeavesLegally(s)]_vars
  BY RemovalStep
<1> QED BY <1>1, InvariantHolds, PTL DEF Spec, OnlyLegalRemovals
-----------------------------------------------------------------------------
(* The refinement: HSpec implements Timers. *)

\* a is before b on a list.
Before(list, a, b) == \E i, j \in 1 .. Len(list) : i < j /\ list[i] = a /\ list[j] = b

(* Appending puts an element after all others. *)
LEMMA AppendOrder ==
    ASSUME NEW S, NEW s \in Seq(S), NEW e \in S, IsInjective(s), e \notin ToSet(s)
    PROVE  /\ Append(s, e) \in Seq(S)
           /\ IsInjective(Append(s, e))
           /\ ToSet(Append(s, e)) = ToSet(s) \cup {e}
           /\ \A a, b : Before(s, a, b) => Before(Append(s, e), a, b)
           /\ \A a \in ToSet(s) : Before(Append(s, e), a, e)
<1> DEFINE r == Append(s, e)
<1>0. Len(s) \in Nat /\ DOMAIN s = 1 .. Len(s)
  OBVIOUS
<1>1. /\ r \in Seq(S) /\ Len(r) = Len(s) + 1 /\ DOMAIN r = 1 .. Len(s) + 1
      /\ \A i \in 1 .. Len(s) : r[i] = s[i]
      /\ r[Len(s) + 1] = e
  OBVIOUS
<1> HIDE DEF r
<1>2. \A i \in 1 .. Len(s) + 1 : i \in 1 .. Len(s) \/ i = Len(s) + 1
  BY <1>0
<1>3. /\ \A i, j \in 1 .. Len(s) : s[i] = s[j] => i = j
      /\ \A i \in 1 .. Len(s) : s[i] # e
  BY <1>0 DEF IsInjective, ToSet
<1>4. IsInjective(r)
  BY <1>1, <1>2, <1>3 DEF IsInjective
<1>5. ToSet(r) = ToSet(s) \cup {e}
  <2>1. \A i \in 1 .. Len(s) : i \in 1 .. Len(s) + 1
    BY <1>0
  <2>2. Len(s) + 1 \in 1 .. Len(s) + 1
    BY <1>0
  <2> QED
    BY <1>0, <1>1, <1>2, <2>1, <2>2 DEF ToSet
<1>6. ASSUME NEW a, NEW b, Before(s, a, b) PROVE Before(r, a, b)
  <2>1. PICK i, j \in 1 .. Len(s) : i < j /\ s[i] = a /\ s[j] = b
    BY <1>6 DEF Before
  <2>2. i \in 1 .. Len(r) /\ j \in 1 .. Len(r)
    BY <1>0, <1>1
  <2> QED
    BY <1>1, <2>1, <2>2 DEF Before
<1>7. ASSUME NEW a \in ToSet(s) PROVE Before(r, a, e)
  <2>1. PICK i \in 1 .. Len(s) : s[i] = a
    BY <1>0 DEF ToSet
  <2>2. i \in 1 .. Len(r) /\ Len(s) + 1 \in 1 .. Len(r) /\ i < Len(s) + 1
    BY <1>0, <1>1
  <2> QED
    BY <1>1, <2>1, <2>2 DEF Before
<1> QED
  BY <1>1, <1>4, <1>5, <1>6, <1>7 DEF r

(* Unlinking keeps the order of the others. *)
LEMMA RemoveOrder ==
    ASSUME NEW S, NEW s \in Seq(S), NEW p \in 1 .. Len(s), IsInjective(s)
    PROVE  \A a, b : Before(RemoveAt(s, p), a, b) <=> Before(s, a, b) /\ a # s[p] /\ b # s[p]
<1> DEFINE r == RemoveAt(s, p)
           f(k) == IF k < p THEN k ELSE k + 1
           g(k) == IF k < p THEN k ELSE k - 1
<1>0. Len(s) \in Nat /\ p \in Nat /\ DOMAIN s = 1 .. Len(s)
  OBVIOUS
<1>1. /\ Len(r) = Len(s) - 1
      /\ \A i \in 1 .. Len(s) - 1 : r[i] = IF i < p THEN s[i] ELSE s[i + 1]
  BY RemoveAtProperties, Zenon
<1> HIDE DEF r
<1>2. \A i, j \in 1 .. Len(s) : s[i] = s[j] => i = j
  BY <1>0 DEF IsInjective
<1>3. \A i \in 1 .. Len(r) : f(i) \in 1 .. Len(s) /\ f(i) # p /\ r[i] = s[f(i)]
  BY <1>0, <1>1
<1>4. \A i, j \in 1 .. Len(r) : i < j => f(i) < f(j)
  BY <1>0, <1>1
<1>5. \A k \in 1 .. Len(s) : k # p => g(k) \in 1 .. Len(r) /\ f(g(k)) = k
  BY <1>0, <1>1
<1>6. \A i, j \in 1 .. Len(s) : i # p /\ j # p /\ i < j => g(i) < g(j)
  BY <1>0, <1>1
<1> HIDE DEF f, g
<1>7. ASSUME NEW a, NEW b, Before(r, a, b) PROVE Before(s, a, b) /\ a # s[p] /\ b # s[p]
  <2>1. PICK i, j \in 1 .. Len(r) : i < j /\ r[i] = a /\ r[j] = b
    BY <1>7 DEF Before
  <2> QED
    BY <1>2, <1>3, <1>4, <2>1 DEF Before
<1>8. ASSUME NEW a, NEW b, Before(s, a, b), a # s[p], b # s[p] PROVE Before(r, a, b)
  <2>1. PICK i, j \in 1 .. Len(s) : i < j /\ s[i] = a /\ s[j] = b
    BY <1>8 DEF Before
  <2>2. i # p /\ j # p
    BY <1>8, <2>1
  <2>3. g(i) \in 1 .. Len(r) /\ g(j) \in 1 .. Len(r) /\ g(i) < g(j)
    BY <1>5, <1>6, <2>1, <2>2
  <2>4. r[g(i)] = a /\ r[g(j)] = b
    BY <1>3, <1>5, <2>1, <2>2, <2>3
  <2> QED
    BY <2>3, <2>4 DEF Before
<1> QED
  BY <1>7, <1>8 DEF r

(* Taking the head off keeps the order of the others, which it preceded. *)
LEMMA TailOrder ==
    ASSUME NEW S, NEW s \in Seq(S), s # <<>>, IsInjective(s)
    PROVE  /\ \A a, b : Before(Tail(s), a, b) => Before(s, a, b)
           /\ \A a \in ToSet(s) : a # Head(s) => Before(s, Head(s), a)
<1>1. /\ Len(s) \in Nat \ {0} /\ DOMAIN s = 1 .. Len(s) /\ Head(s) = s[1]
      /\ Len(Tail(s)) = Len(s) - 1
      /\ \A i \in 1 .. Len(s) - 1 : Tail(s)[i] = s[i + 1]
  OBVIOUS
<1>2. ASSUME NEW a, NEW b, Before(Tail(s), a, b) PROVE Before(s, a, b)
  <2>1. PICK i, j \in 1 .. Len(s) - 1 : i < j /\ Tail(s)[i] = a /\ Tail(s)[j] = b
    BY <1>1, <1>2 DEF Before
  <2>2. i + 1 \in 1 .. Len(s) /\ j + 1 \in 1 .. Len(s) /\ i + 1 < j + 1
    BY <1>1, <2>1
  <2> QED
    BY <1>1, <2>1, <2>2 DEF Before
<1>3. ASSUME NEW a \in ToSet(s), a # Head(s) PROVE Before(s, Head(s), a)
  <2>1. PICK i \in 1 .. Len(s) : s[i] = a
    BY <1>1 DEF ToSet
  <2>2. 1 \in 1 .. Len(s) /\ 1 < i
    BY <1>1, <1>3, <2>1
  <2> QED
    BY <1>1, <2>1, <2>2 DEF Before
<1> QED
  BY <1>2, <1>3

(* Where insert_event() links an element, it follows those that expire as  *)
(* early, and precedes those that expire later.                            *)
LEMMA InsertOrder ==
    ASSUME NEW list \in Seq(Slots), NEW s \in Slots, NEW expiry \in Nat,
           NEW p \in 1 .. Len(list) + 1, expired_clock \in [Slots -> Nat],
           IsInjective(list), s \notin ToSet(list),
           \A i, j \in 1 .. Len(list) : i < j => expired_clock[list[i]] <= expired_clock[list[j]],
           InsertPosition(list, expiry, p)
    PROVE  \A a, b : Before(InsertAt(list, p, s), a, b) =>
             \/ a # s /\ b # s /\ Before(list, a, b)
             \/ a # s /\ b = s /\ a \in ToSet(list)
             \/ a = s /\ b # s /\ b \in ToSet(list) /\ expiry < expired_clock[b]
<1> DEFINE r == InsertAt(list, p, s)
           g(k) == IF k < p THEN k ELSE k - 1
<1>0. /\ Len(list) \in Nat /\ p \in Nat /\ DOMAIN list = 1 .. Len(list)
      /\ \A i \in 1 .. Len(list) : list[i] \in Slots /\ expired_clock[list[i]] \in Nat
  OBVIOUS
<1>1. /\ Len(r) = Len(list) + 1
      /\ \A i \in 1 .. Len(list) + 1 :
            r[i] = IF i < p THEN list[i] ELSE IF i = p THEN s ELSE list[i - 1]
  BY InsertAtProperties, SMTT(30)
<1> HIDE DEF r
<1>2. \A i \in 1 .. Len(r) : i # p => g(i) \in 1 .. Len(list) /\ r[i] = list[g(i)]
  BY <1>0, <1>1
<1>3. r[p] = s
  BY <1>0, <1>1
<1>4. \A i, j \in 1 .. Len(r) : i # p /\ j # p /\ i < j => g(i) < g(j)
  BY <1>0, <1>1
<1>5. \A i \in 1 .. Len(r) : p < i => g(i) >= p
  BY <1>0, <1>1
<1>6. \A i \in 1 .. Len(list) : list[i] # s /\ list[i] \in ToSet(list)
  BY <1>0 DEF ToSet
<1>7. \A i \in 1 .. Len(list) : i >= p => expiry < expired_clock[list[i]]
  <2> SUFFICES ASSUME NEW i \in 1 .. Len(list), i >= p PROVE expiry < expired_clock[list[i]]
    OBVIOUS
  <2>1. p \in 1 .. Len(list) /\ expired_clock[list[p]] > expiry
    BY <1>0 DEF InsertPosition
  <2>2. i = p \/ expired_clock[list[p]] <= expired_clock[list[i]]
    BY <1>0, <2>1
  <2> QED
    BY <1>0, <2>1, <2>2
<1> HIDE DEF g
<1> SUFFICES ASSUME NEW a, NEW b, Before(r, a, b)
             PROVE  \/ a # s /\ b # s /\ Before(list, a, b)
                    \/ a # s /\ b = s /\ a \in ToSet(list)
                    \/ a = s /\ b # s /\ b \in ToSet(list) /\ expiry < expired_clock[b]
  BY DEF r
<1>8. PICK i, j \in 1 .. Len(r) : i < j /\ r[i] = a /\ r[j] = b
  BY DEF Before
<1>9. CASE i # p /\ j # p
  BY <1>2, <1>4, <1>6, <1>8, <1>9 DEF Before
<1>10. CASE j = p
  <2>1. i # p
    BY <1>0, <1>8, <1>10
  <2> QED
    BY <1>2, <1>3, <1>6, <1>8, <1>10, <2>1
<1>11. CASE i = p
  <2>1. j # p /\ p < j
    BY <1>0, <1>8, <1>11
  <2> QED
    BY <1>2, <1>3, <1>5, <1>6, <1>7, <1>8, <1>11, <2>1
<1> QED
  BY <1>9, <1>10, <1>11

Live == {s \in Slots : active[s]}

\* What the history records, and what the expiries are exact to.
InsertedAreLive ==
    inserted \in Seq(Slots) /\ IsInjective(inserted) /\ ToSet(inserted) = Live
FireOrderKept ==
    \A a, b \in Slots :
        Before(fire, a, b) /\ expired_clock[a] = expired_clock[b] => Before(inserted, a, b)
RemaindersSmall == \A s \in Slots : active[s] => accum_clocks[s] < Scale

HInv == InsertedAreLive /\ FireOrderKept /\ RemaindersSmall

LEMMA InitHInv == HInit => HInv
BY DEF HInit, Init, HInv, InsertedAreLive, FireOrderKept, RemaindersSmall, Before, IsInjective,
       ToSet, Live

\* The timers of the mapping.
LEMMA TimersFacts ==
    /\ DOMAIN TimersOfEvents = Live
    /\ \A s \in Live : TimersOfEvents[s] = [due |-> expired_clock[s] * Scale + accum_clocks[s],
                                            period |-> loop_clock[s],
                                            client |-> client[s]]
BY DEF TimersOfEvents, Live

\* A timer expires at the clock of its event.
LEMMA ClockOfEvent ==
    ASSUME TypeOK, RemaindersSmall, NEW s \in Live
    PROVE  Abstract!ClockOf(s) = expired_clock[s]
<1>1. Abstract!ClockOf(s) = (expired_clock[s] * Scale + accum_clocks[s]) \div Scale
  BY TimersFacts DEF Abstract!ClockOf
<1>2. expired_clock[s] \in Nat /\ accum_clocks[s] \in Nat /\ accum_clocks[s] < Scale
  BY DEF TypeOK, RemaindersSmall, Live
<1>3. \A n, r \in Nat : r < 1024 => (n * 1024 + r) \div 1024 = n
  OBVIOUS
<1> QED
  BY <1>1, <1>2, <1>3 DEF Scale

(* Registering starts a timer. *)
LEMMA RegisterStarts ==
    ASSUME IInv, IInv', HInv, HNext,
           NEW c \in Clients, NEW clock \in Nat, NEW loop \in Nat, NEW accum \in Nat,
           accum < Scale, Register(c, clock, loop, accum)
    PROVE  /\ HInv'
           /\ \/ UNCHANGED historyVars
              \/ \E t \in Slots : Abstract!Start(t, c, clock * Scale + accum, loop)
<1>0. TypeOK /\ ListsPartitionSlots /\ FireOrdered /\ InsertedAreLive /\ FireOrderKept
      /\ RemaindersSmall
  BY DEF IInv, HInv
<1>a. ~FireLoop
  BY DEF Register, MayRegister, DeviceCodeRuns, DevicesReset, FireLoop
<1>1. CASE free = <<>>
  <2>1. UNCHANGED vars
    BY <1>1 DEF Register, vars, descriptors, lists, resetting
  <2>2. UNCHANGED inserted
    BY <1>a, <2>1 DEF HNext, Added, Taken, vars
  <2> QED
    BY <1>0, <2>1, <2>2 DEF vars, historyVars, HInv, InsertedAreLive, FireOrderKept,
                            RemaindersSmall, Live
<1>2. CASE free # <<>>
  <2>1. PICK s : s = Head(free)
    OBVIOUS
  <2>2. /\ s \in Slots /\ ~active[s]
    BY <1>0, <1>2, <2>1, TailRange DEF ListsPartitionSlots, TypeOK
  <2>3. /\ client' = [client EXCEPT ![s] = c]
        /\ expired_clock' = [expired_clock EXCEPT ![s] = event_clocks + clock]
        /\ loop_clock' = [loop_clock EXCEPT ![s] = loop]
        /\ accum_clocks' = [accum_clocks EXCEPT ![s] = accum]
        /\ active' = [active EXCEPT ![s] = TRUE]
        /\ UNCHANGED <<event_clocks, target>>
    BY <1>2, <2>1 DEF Register
  <2>4. PICK p \in 1 .. Len(fire) + 1 :
            InsertPosition(fire, event_clocks + clock, p) /\ fire' = InsertAt(fire, p, s)
    BY <1>2, <2>1 DEF Register
  <2>5. Added = {s} /\ Taken = {} /\ Live' = Live \cup {s}
    BY <1>0, <2>2, <2>3 DEF TypeOK, Added, Taken, Live
  <2>6. inserted' = Append(inserted, s)
    BY <1>a, <2>5 DEF HNext
  <2>7. /\ inserted \in Seq(Slots) /\ IsInjective(inserted) /\ s \notin ToSet(inserted)
        /\ ToSet(inserted) = Live
    BY <1>0, <2>2 DEF InsertedAreLive, Live
  <2>8. /\ inserted' \in Seq(Slots) /\ IsInjective(inserted')
        /\ ToSet(inserted') = ToSet(inserted) \cup {s}
        /\ \A a, b : Before(inserted, a, b) => Before(inserted', a, b)
        /\ \A a \in ToSet(inserted) : Before(inserted', a, s)
    BY <2>2, <2>6, <2>7, AppendOrder
  <2>9. InsertedAreLive'
    BY <2>5, <2>7, <2>8 DEF InsertedAreLive
  <2>10. /\ fire \in Seq(Slots) /\ IsInjective(fire) /\ ToSet(fire) = Live
         /\ event_clocks + clock \in Nat /\ expired_clock \in [Slots -> Nat]
         /\ \A i, j \in 1 .. Len(fire) : i < j => expired_clock[fire[i]] <= expired_clock[fire[j]]
    BY <1>0 DEF ListsPartitionSlots, TypeOK, Live, FireOrdered
  <2>11. \A a, b : Before(fire', a, b) =>
             \/ a # s /\ b # s /\ Before(fire, a, b)
             \/ a # s /\ b = s /\ a \in ToSet(fire)
             \/ a = s /\ b # s /\ b \in ToSet(fire) /\ event_clocks + clock < expired_clock[b]
    <3>1. s \notin ToSet(fire)
      BY <2>7, <2>10
    <3> QED
      BY <2>2, <2>4, <2>10, <3>1, InsertOrder
  <2>12. FireOrderKept'
    <3> SUFFICES ASSUME NEW a \in Slots, NEW b \in Slots, Before(fire', a, b),
                        expired_clock'[a] = expired_clock'[b]
                 PROVE  Before(inserted', a, b)
      BY DEF FireOrderKept
    <3>1. CASE a # s /\ b # s /\ Before(fire, a, b)
      <4>1. expired_clock[a] = expired_clock[b]
        BY <2>3, <2>10, <3>1
      <4> QED
        BY <1>0, <2>8, <3>1, <4>1 DEF FireOrderKept
    <3>2. CASE a # s /\ b = s /\ a \in ToSet(fire)
      BY <2>7, <2>8, <2>10, <3>2
    <3>3. CASE a = s /\ b # s /\ event_clocks + clock < expired_clock[b]
      BY <2>2, <2>3, <2>10, <3>3
    <3> QED
      BY <2>11, <3>1, <3>2, <3>3
  <2>13. RemaindersSmall'
    BY <1>0, <2>2, <2>3 DEF RemaindersSmall, TypeOK
  <2>14. Abstract!Start(s, c, clock * Scale + accum, loop)
    <3>1. s \notin DOMAIN TimersOfEvents
      BY <2>2, TimersFacts DEF Live
    <3> DEFINE r == [due |-> event_clocks * Scale + (clock * Scale + accum),
                     period |-> loop, client |-> c]
               T(u) == [due |-> expired_clock'[u] * Scale + accum_clocks'[u],
                        period |-> loop_clock'[u], client |-> client'[u]]
    <3>2. TimersOfEvents' = [u \in Live' |-> T(u)]
      BY DEF TimersOfEvents, Live
    <3>3. Live' = DOMAIN TimersOfEvents \cup {s}
      BY <2>5, TimersFacts
    <3>4. T(s) = r
      <4>1. event_clocks \in Nat
        BY <1>0 DEF TypeOK
      <4>2. (event_clocks + clock) * Scale + accum = event_clocks * Scale + (clock * Scale + accum)
        BY <4>1 DEF Scale
      <4>3. /\ expired_clock'[s] = event_clocks + clock /\ accum_clocks'[s] = accum
            /\ loop_clock'[s] = loop /\ client'[s] = c
        BY <1>0, <2>2, <2>3 DEF TypeOK
      <4> QED
        BY <4>2, <4>3
    <3>5. \A u \in Live : u # s => T(u) = TimersOfEvents[u]
      BY <1>0, <2>3, TimersFacts DEF TypeOK, Live
    <3>6. TimersOfEvents' = Abstract!With(s, r)
      <4> HIDE DEF T, r
      <4>1. \A u \in Live' : T(u) = IF u = s THEN r ELSE TimersOfEvents[u]
        BY <2>5, <3>4, <3>5
      <4> QED
        BY <3>2, <3>3, <4>1, Zenon DEF Abstract!With
    <3> QED
      BY <2>3, <2>6, <3>1, <3>6 DEF Abstract!Start
  <2> QED
    BY <2>2, <2>9, <2>12, <2>13, <2>14 DEF HInv
<1> QED
  BY <1>1, <1>2

(* Taking an event off the list, wherever it is, takes it from the history *)
(* and stops its timer.                                                    *)
LEMMA TakingOff ==
    ASSUME TypeOK, ListsPartitionSlots, HInv, HNext, ~FireLoop,
           NEW s \in Slots, active[s], NEW p \in 1 .. Len(fire), fire[p] = s,
           fire' = RemoveAt(fire, p), active' = [active EXCEPT ![s] = FALSE],
           UNCHANGED <<client, expired_clock, loop_clock, accum_clocks>>
    PROVE  /\ HInv'
           /\ s \in DOMAIN TimersOfEvents
           /\ TimersOfEvents' = Abstract!Without(s)
           /\ \E i \in 1 .. Len(inserted) :
                inserted[i] = s /\ inserted' = RemoveAt(inserted, i)
<1>1. Added = {} /\ Taken = {s} /\ Live' = Live \ {s}
  BY DEF TypeOK, Added, Taken, Live
<1>2. PICK i \in 1 .. Len(inserted) : inserted[i] = s /\ inserted' = RemoveAt(inserted, i)
  BY <1>1 DEF HNext
<1>3. /\ inserted \in Seq(Slots) /\ IsInjective(inserted) /\ ToSet(inserted) = Live
      /\ fire \in Seq(Slots) /\ IsInjective(fire)
  BY DEF HInv, InsertedAreLive, ListsPartitionSlots, TypeOK
<1>4. InsertedAreLive'
  <2>1. inserted' \in Seq(Slots)
    BY <1>2, <1>3, RemoveAtProperties
  <2>2. IsInjective(inserted') /\ ToSet(inserted') = ToSet(inserted) \ {s}
    BY <1>2, <1>3, RemoveAtRange
  <2> QED
    BY <1>1, <1>3, <2>1, <2>2 DEF InsertedAreLive
<1>5. FireOrderKept'
  <2>1. \A a, b : Before(fire', a, b) <=> Before(fire, a, b) /\ a # s /\ b # s
    BY <1>3, RemoveOrder
  <2>2. \A a, b : Before(inserted', a, b) <=> Before(inserted, a, b) /\ a # s /\ b # s
    BY <1>2, <1>3, RemoveOrder
  <2> QED
    BY <2>1, <2>2 DEF HInv, FireOrderKept
<1>6. RemaindersSmall'
  BY DEF HInv, RemaindersSmall, TypeOK
<1>7. TimersOfEvents' = Abstract!Without(s)
  <2> DEFINE T(u) == [due |-> expired_clock[u] * Scale + accum_clocks[u],
                      period |-> loop_clock[u], client |-> client[u]]
  <2>1. TimersOfEvents' = [u \in Live' |-> T(u)]
    BY DEF TimersOfEvents, Live
  <2>2. \A u \in Live : T(u) = TimersOfEvents[u]
    BY TimersFacts
  <2>3. Live' = DOMAIN TimersOfEvents \ {s}
    BY <1>1, TimersFacts
  <2> HIDE DEF T
  <2>4. \A u \in Live' : T(u) = TimersOfEvents[u]
    BY <1>1, <2>2
  <2> QED
    BY <2>1, <2>3, <2>4, Zenon DEF Abstract!Without
<1> QED
  BY <1>2, <1>4, <1>5, <1>6, <1>7, TimersFacts DEF HInv, Live

(* Timers has its instance of SequencesExt. *)
LEMMA SameRemoveAt == \A list, i : Abstract!RemoveAt(list, i) = RemoveAt(list, i)
BY DEF Abstract!RemoveAt, RemoveAt

(* Cancelling stops the timer. *)
LEMMA ReleaseStops ==
    ASSUME TypeOK, ListsPartitionSlots, HInv, HNext, ~FireLoop, NEW s \in Slots, active[s],
           Release(s),
           UNCHANGED <<client, expired_clock, loop_clock, accum_clocks, event_clocks, target>>
    PROVE  HInv' /\ Abstract!Stop(s)
<1>1. PICK p \in 1 .. Len(fire) : fire[p] = s /\ fire' = RemoveAt(fire, p)
  BY DEF Release
<1>2. active' = [active EXCEPT ![s] = FALSE]
  BY DEF Release
<1>3. /\ HInv' /\ s \in DOMAIN TimersOfEvents /\ TimersOfEvents' = Abstract!Without(s)
      /\ \E i \in 1 .. Len(inserted) : inserted[i] = s /\ inserted' = RemoveAt(inserted, i)
  BY <1>1, <1>2, TakingOff
<1> QED
  BY <1>3, SameRemoveAt, Zenon DEF Abstract!Stop

(* The head of the fire list is the timer that expires next. *)
LEMMA HeadIsNext ==
    ASSUME IInv, HInv, Due, NEW i \in 1 .. Len(inserted), inserted[i] = Head(fire)
    PROVE  /\ Head(fire) \in Live
           /\ Abstract!IsNext(i)
           /\ Abstract!ClockOf(Head(fire)) = expired_clock[Head(fire)]
           /\ Abstract!ClockOf(Head(fire)) <= target
<1>0. TypeOK /\ ListsPartitionSlots /\ FireOrdered /\ RemaindersSmall /\ InsertedAreLive
      /\ FireOrderKept /\ fire # <<>> /\ expired_clock[Head(fire)] <= target
  BY DEF IInv, HInv, Due
<1>1. /\ Head(fire) \in Live
      /\ \A s \in Live : expired_clock[Head(fire)] <= expired_clock[s]
  BY <1>0, HeadIsEarliest DEF Live
<1>2. /\ inserted \in Seq(Slots) /\ Len(inserted) \in Nat
      /\ \A j \in 1 .. Len(inserted) : inserted[j] \in Live
      /\ \A j, k \in 1 .. Len(inserted) : inserted[j] = inserted[k] => j = k
  BY <1>0 DEF InsertedAreLive, IsInjective, ToSet
<1>3. \A s \in Live : Abstract!ClockOf(s) = expired_clock[s] /\ expired_clock[s] \in Nat
  BY <1>0, ClockOfEvent DEF Live, TypeOK
<1>4. ASSUME NEW j \in 1 .. Len(inserted), j < i
      PROVE  expired_clock[Head(fire)] # expired_clock[inserted[j]]
  <2>1. inserted[j] # Head(fire) /\ inserted[j] \in Live /\ j # i
    BY <1>2, <1>4
  <2>2. fire \in Seq(Slots) /\ IsInjective(fire) /\ inserted[j] \in ToSet(fire)
    BY <1>0, <2>1 DEF ListsPartitionSlots, TypeOK, Live
  <2>3. Before(fire, Head(fire), inserted[j])
    BY <1>0, <2>1, <2>2, TailOrder
  <2>4. ~Before(inserted, Head(fire), inserted[j])
    BY <1>2, <1>4 DEF Before
  <2>5. Head(fire) \in Slots /\ inserted[j] \in Slots
    BY <1>1, <2>1 DEF Live
  <2> QED
    BY <1>0, <2>3, <2>4, <2>5 DEF FireOrderKept
<1>5. ASSUME NEW j \in 1 .. Len(inserted)
      PROVE  /\ Abstract!ClockOf(inserted[i]) <= Abstract!ClockOf(inserted[j])
             /\ j < i => Abstract!ClockOf(inserted[i]) < Abstract!ClockOf(inserted[j])
  <2>1. /\ Abstract!ClockOf(inserted[i]) = expired_clock[Head(fire)]
        /\ Abstract!ClockOf(inserted[j]) = expired_clock[inserted[j]]
        /\ expired_clock[Head(fire)] \in Nat /\ expired_clock[inserted[j]] \in Nat
        /\ expired_clock[Head(fire)] <= expired_clock[inserted[j]]
    BY <1>1, <1>2, <1>3
  <2> QED
    BY <1>4, <2>1
<1>6. Abstract!IsNext(i)
  BY <1>5 DEF Abstract!IsNext
<1> QED
  BY <1>0, <1>1, <1>3, <1>6

(* An event that fires once is a timer that expires for good. *)
LEMMA FireOnceExpires ==
    ASSUME IInv, HInv, HNext, FireOnce
    PROVE  HInv' /\ Abstract!Expire
<1>0. TypeOK /\ ListsPartitionSlots /\ FireOrdered /\ Due /\ fire # <<>>
  BY DEF IInv, FireOnce, Due
<1>1. PICK s : s = Head(fire)
  OBVIOUS
<1>2. /\ s \in Slots /\ active[s]
  BY <1>0, <1>1, HeadIsEarliest
<1>3. /\ loop_clock[s] = 0 /\ event_clocks' = expired_clock[s] /\ UNCHANGED target
      /\ active' = [active EXCEPT ![s] = FALSE] /\ fire' = Tail(fire)
      /\ UNCHANGED <<client, expired_clock, loop_clock, accum_clocks>>
  BY <1>1 DEF FireOnce
<1>4. 1 \in 1 .. Len(fire) /\ fire[1] = s /\ fire' = RemoveAt(fire, 1)
  <2>1. fire \in Seq(Slots) /\ Len(fire) \in Nat /\ Len(fire) >= 1
    BY <1>0 DEF TypeOK
  <2>2. RemoveAt(fire, 1) = Tail(fire)
    <3>1. SubSeq(fire, 1, 0) = <<>> /\ SubSeq(fire, 2, Len(fire)) = Tail(fire)
          /\ Tail(fire) \in Seq(Slots)
      BY <2>1
    <3>2. <<>> \o Tail(fire) = Tail(fire)
      BY <3>1
    <3> QED
      BY <3>1, <3>2 DEF RemoveAt
  <2> QED
    BY <1>1, <1>3, <2>1, <2>2
<1>5. ~FireLoop
  BY <1>1, <1>3 DEF FireLoop
<1>6. /\ HInv' /\ TimersOfEvents' = Abstract!Without(s)
      /\ \E i \in 1 .. Len(inserted) : inserted[i] = s /\ inserted' = RemoveAt(inserted, i)
  BY <1>0, <1>2, <1>3, <1>4, <1>5, TakingOff
<1>7. PICK i \in 1 .. Len(inserted) : inserted[i] = s /\ inserted' = RemoveAt(inserted, i)
  BY <1>6
<1>8. /\ s \in Live /\ Abstract!IsNext(i) /\ Abstract!ClockOf(s) = expired_clock[s]
      /\ Abstract!ClockOf(s) <= target
  BY <1>0, <1>1, <1>7, HeadIsNext
<1>9. TimersOfEvents[s].period = 0
  BY <1>3, <1>8, TimersFacts
<1>10. /\ Abstract!IsNext(i) /\ Abstract!ClockOf(inserted[i]) <= target
       /\ event_clocks' = Abstract!ClockOf(inserted[i])
       /\ TimersOfEvents[inserted[i]].period = 0 /\ TimersOfEvents' = Abstract!Without(inserted[i])
       /\ inserted' = RemoveAt(inserted, i) /\ UNCHANGED target
  BY <1>3, <1>6, <1>7, <1>8, <1>9
<1> QED
  BY <1>6, <1>10, SameRemoveAt, Zenon DEF Abstract!Expire

(* A periodic event is a timer that expires and starts again: the division *)
(* into clocks and remainder keeps its due time exact.                     *)
LEMMA FireLoopExpires ==
    ASSUME IInv, HInv, HNext, FireLoop
    PROVE  HInv' /\ Abstract!Expire
<1>0. TypeOK /\ ListsPartitionSlots /\ FireOrdered /\ Due /\ fire # <<>>
      /\ InsertedAreLive /\ FireOrderKept /\ RemaindersSmall
  BY DEF IInv, HInv, FireLoop, Due
<1>1. PICK s : s = Head(fire)
  OBVIOUS
<1>2. s \in Slots /\ active[s] /\ s \in Live
  BY <1>0, <1>1, HeadIsEarliest DEF Live
<1>3. PICK total, next :
        /\ total = accum_clocks[s] + loop_clock[s]
        /\ next = expired_clock[s] + total \div Scale
  OBVIOUS
<1>4. /\ loop_clock[s] # 0
      /\ accum_clocks' = [accum_clocks EXCEPT ![s] = total % Scale]
      /\ expired_clock' = [expired_clock EXCEPT ![s] = next]
      /\ event_clocks' = expired_clock[s]
      /\ UNCHANGED <<client, loop_clock, active, target>>
      /\ \E p \in 1 .. Len(fire) :
           InsertPosition(Tail(fire), next, p) /\ fire' = InsertAt(Tail(fire), p, s)
  BY <1>1, <1>3 DEF FireLoop
<1>5. /\ accum_clocks[s] \in Nat /\ loop_clock[s] \in Nat /\ expired_clock[s] \in Nat
      /\ expired_clock \in [Slots -> Nat] /\ accum_clocks \in [Slots -> Nat]
      /\ client \in [Slots -> Clients \cup {NoClient}] /\ loop_clock \in [Slots -> Nat]
  BY <1>0, <1>2 DEF TypeOK
<1>6. /\ total \in Nat /\ next \in Nat /\ total % Scale \in Nat /\ total % Scale < Scale
      /\ next * Scale + (total % Scale) = expired_clock[s] * Scale + accum_clocks[s] + loop_clock[s]
  <2>1. total \in Nat
    BY <1>3, <1>5
  <2>2. PICK quotient, remainder :
          quotient = total \div 1024 /\ remainder = total % 1024
    OBVIOUS
  <2>3. quotient \in Nat /\ remainder \in Nat /\ remainder < 1024
    BY <2>1, <2>2
  <2>4. quotient * 1024 + remainder = total
    BY <2>1, <2>2
  <2>5. next = expired_clock[s] + quotient
    BY <1>3, <2>2 DEF Scale
  <2>6. next * 1024 + remainder = expired_clock[s] * 1024 + accum_clocks[s] + loop_clock[s]
    BY <1>3, <1>5, <2>3, <2>4, <2>5
  <2>7. next \in Nat
    BY <1>5, <2>3, <2>5
  <2>8. total % Scale = remainder
    BY <2>2 DEF Scale
  <2>9. next * Scale + remainder = expired_clock[s] * Scale + accum_clocks[s] + loop_clock[s]
        /\ remainder < Scale
    BY <2>3, <2>6 DEF Scale
  <2> QED
    BY <2>1, <2>3, <2>7, <2>8, <2>9
<1>7. Live' = Live
  BY <1>4 DEF Live
<1>8. PICK i \in 1 .. Len(inserted) :
        inserted[i] = s /\ inserted' = Append(RemoveAt(inserted, i), s)
  BY <1>1 DEF HNext
<1> DEFINE rest == RemoveAt(inserted, i)
<1>9. inserted \in Seq(Slots) /\ IsInjective(inserted) /\ ToSet(inserted) = Live
  BY <1>0 DEF InsertedAreLive
<1>10. /\ rest \in Seq(Slots) /\ IsInjective(rest) /\ ToSet(rest) = Live \ {s}
       /\ \A a, b : Before(rest, a, b) <=> Before(inserted, a, b) /\ a # s /\ b # s
  BY <1>8, <1>9, RemoveAtProperties, RemoveAtRange, RemoveOrder
<1> HIDE DEF rest
<1>11. /\ inserted' \in Seq(Slots) /\ IsInjective(inserted') /\ ToSet(inserted') = Live
       /\ \A a, b : Before(rest, a, b) => Before(inserted', a, b)
       /\ \A a \in Live \ {s} : Before(inserted', a, s)
  <2>1. inserted' = Append(rest, s)
    BY <1>8 DEF rest
  <2>2. s \notin ToSet(rest) /\ s \in Slots /\ Live = ToSet(rest) \cup {s}
    BY <1>2, <1>10
  <2>3. /\ Append(rest, s) \in Seq(Slots)
        /\ IsInjective(Append(rest, s))
        /\ ToSet(Append(rest, s)) = ToSet(rest) \cup {s}
        /\ \A a, b : Before(rest, a, b) => Before(Append(rest, s), a, b)
        /\ \A a \in ToSet(rest) : Before(Append(rest, s), a, s)
    BY <1>10, <2>2, AppendOrder
  <2> QED
    BY <1>10, <2>1, <2>2, <2>3
<1>12. InsertedAreLive'
  BY <1>7, <1>11 DEF InsertedAreLive
<1>13. FireOrderKept'
  <2>1. PICK p \in 1 .. Len(fire) :
          InsertPosition(Tail(fire), next, p) /\ fire' = InsertAt(Tail(fire), p, s)
    BY <1>4
  <2>2. fire \in Seq(Slots) /\ IsInjective(fire) /\ ToSet(fire) = Live
    BY <1>0 DEF ListsPartitionSlots, TypeOK, Live
  <2>3. /\ Tail(fire) \in Seq(Slots) /\ IsInjective(Tail(fire)) /\ ToSet(Tail(fire)) = Live \ {s}
        /\ Len(Tail(fire)) = Len(fire) - 1 /\ Len(fire) \in Nat
        /\ \A k \in 1 .. Len(fire) - 1 : Tail(fire)[k] = fire[k + 1]
    BY <1>0, <1>1, <2>2, TailRange
  <2>4. \A a, b : Before(Tail(fire), a, b) => Before(fire, a, b)
    BY <1>0, <2>2, TailOrder
  <2>5. \A k, l \in 1 .. Len(Tail(fire)) :
          k < l => expired_clock[Tail(fire)[k]] <= expired_clock[Tail(fire)[l]]
    BY <1>0, <2>3 DEF FireOrdered
  <2>6. \A a, b : Before(fire', a, b) =>
             \/ a # s /\ b # s /\ Before(Tail(fire), a, b)
             \/ a # s /\ b = s /\ a \in ToSet(Tail(fire))
             \/ a = s /\ b # s /\ b \in ToSet(Tail(fire)) /\ next < expired_clock[b]
    <3>1. s \notin ToSet(Tail(fire)) /\ p \in 1 .. Len(Tail(fire)) + 1
      BY <2>3
    <3> QED
      BY <1>2, <1>5, <1>6, <2>1, <2>3, <2>5, <3>1, InsertOrder
  <2> SUFFICES ASSUME NEW a \in Slots, NEW b \in Slots, Before(fire', a, b),
                      expired_clock'[a] = expired_clock'[b]
               PROVE  Before(inserted', a, b)
    BY DEF FireOrderKept
  <2>7. CASE a # s /\ b # s /\ Before(Tail(fire), a, b)
    <3>1. expired_clock[a] = expired_clock[b] /\ Before(fire, a, b)
      BY <1>4, <1>5, <2>4, <2>7
    <3> QED
      BY <1>0, <1>10, <1>11, <2>7, <3>1 DEF FireOrderKept
  <2>8. CASE a # s /\ b = s /\ a \in ToSet(Tail(fire))
    BY <1>11, <2>3, <2>8
  <2>9. CASE a = s /\ b # s /\ next < expired_clock[b]
    BY <1>2, <1>4, <1>5, <1>6, <2>9
  <2> QED
    BY <2>6, <2>7, <2>8, <2>9
<1>14. RemaindersSmall'
  BY <1>0, <1>4, <1>5, <1>6 DEF RemaindersSmall
<1>15. /\ Abstract!IsNext(i) /\ Abstract!ClockOf(s) = expired_clock[s]
       /\ Abstract!ClockOf(s) <= target
  BY <1>0, <1>1, <1>8, HeadIsNext
<1>16. TimersOfEvents' =
         [TimersOfEvents EXCEPT ![s].due = TimersOfEvents[s].due + TimersOfEvents[s].period]
  <2> DEFINE T(u) == [due |-> expired_clock'[u] * Scale + accum_clocks'[u],
                      period |-> loop_clock'[u], client |-> client'[u]]
             r == [TimersOfEvents[s] EXCEPT !.due = TimersOfEvents[s].due + TimersOfEvents[s].period]
  <2>1. TimersOfEvents' = [u \in Live |-> T(u)]
    BY <1>7 DEF TimersOfEvents, Live
  <2>2. T(s) = r
    <3>1. /\ expired_clock'[s] = next /\ accum_clocks'[s] = total % Scale
          /\ loop_clock'[s] = loop_clock[s] /\ client'[s] = client[s]
      BY <1>2, <1>4, <1>5
    <3>2. TimersOfEvents[s] = [due |-> expired_clock[s] * Scale + accum_clocks[s],
                               period |-> loop_clock[s], client |-> client[s]]
      BY <1>2, TimersFacts
    <3>3. r = [due |-> expired_clock[s] * Scale + accum_clocks[s] + loop_clock[s],
               period |-> loop_clock[s], client |-> client[s]]
      BY <3>2
    <3>4. T(s) = [due |-> next * Scale + (total % Scale),
                  period |-> loop_clock[s], client |-> client[s]]
      BY <3>1, Zenon
    <3> HIDE DEF T, r
    <3> QED
      BY <1>6, <3>3, <3>4, Zenon
  <2>3. \A u \in Live : u # s => T(u) = TimersOfEvents[u]
    BY <1>4, <1>5, TimersFacts DEF Live
  <2>4. DOMAIN TimersOfEvents = Live /\ TimersOfEvents = [u \in Live |-> TimersOfEvents[u]]
    <3>1. DOMAIN TimersOfEvents = Live
      BY TimersFacts
    <3> QED
      BY <3>1 DEF TimersOfEvents, Live
  <2> HIDE DEF T, r
  <2>5. TimersOfEvents' = [TimersOfEvents EXCEPT ![s] = r]
    BY <1>2, <2>1, <2>2, <2>3, <2>4
  <2> QED
    BY <2>5 DEF r
<1>17. TimersOfEvents[s].period # 0
  BY <1>2, <1>4, TimersFacts
<1>18. /\ Abstract!IsNext(i) /\ Abstract!ClockOf(inserted[i]) <= target
       /\ event_clocks' = Abstract!ClockOf(inserted[i])
       /\ TimersOfEvents[inserted[i]].period # 0
       /\ TimersOfEvents' = [TimersOfEvents EXCEPT ![inserted[i]].due =
                               TimersOfEvents[inserted[i]].due + TimersOfEvents[inserted[i]].period]
       /\ inserted' = Append(RemoveAt(inserted, i), inserted[i]) /\ UNCHANGED target
  BY <1>4, <1>8, <1>15, <1>16, <1>17
<1>19. Abstract!Expire
  BY <1>18, SameRemoveAt, Zenon DEF Abstract!Expire
<1> QED
  BY <1>12, <1>13, <1>14, <1>19 DEF HInv

(* A step that leaves the events alone keeps the history. *)
LEMMA OtherSteps ==
    ASSUME HInv, HNext, ~FireLoop, UNCHANGED <<descriptors, lists>>
    PROVE  HInv' /\ UNCHANGED <<inserted, TimersOfEvents>>
<1>1. UNCHANGED inserted /\ Live' = Live
  BY DEF HNext, Added, Taken, Live, descriptors
<1>2. UNCHANGED TimersOfEvents
  BY DEF TimersOfEvents, descriptors
<1>3. HInv'
  BY <1>1 DEF HInv, InsertedAreLive, FireOrderKept, RemaindersSmall, descriptors, lists
<1> QED
  BY <1>1, <1>2, <1>3

(* A cancellation stops a timer, or finds nothing to cancel. *)
LEMMA CancelStops ==
    ASSUME IInv, HInv, HNext, NEW c \in Holders, CancelEvent(c)
    PROVE  HInv' /\ (UNCHANGED <<TimersOfEvents, inserted, event_clocks, target>>
                       \/ \E t \in Slots : Abstract!Stop(t))
<1>0. TypeOK /\ ListsPartitionSlots
  BY DEF IInv
<1>1. ~FireLoop
  BY DEF CancelEvent, MayCancel, DeviceCodeRuns, DevicesReset, FireLoop
<1>2. UNCHANGED <<client, expired_clock, loop_clock, accum_clocks, event_clocks, target>>
  BY DEF CancelEvent
<1>3. CASE IsOwner(c, client[register_id[c]]) /\ active[register_id[c]]
  <2>1. register_id[c] \in Slots /\ Release(register_id[c])
    BY <1>0, <1>3 DEF CancelEvent, TypeOK
  <2> QED
    BY <1>0, <1>1, <1>2, <1>3, <2>1, ReleaseStops
<1>4. CASE ~(IsOwner(c, client[register_id[c]]) /\ active[register_id[c]])
  <2>1. UNCHANGED <<descriptors, lists>>
    BY <1>2, <1>4 DEF CancelEvent, descriptors, lists
  <2> QED
    BY <1>1, <1>2, <2>1, OtherSteps
<1> QED
  BY <1>3, <1>4

(* So does a reset, slot by slot. *)
LEMMA ResetStops ==
    ASSUME IInv, HInv, HNext, ResetSlot
    PROVE  HInv' /\ (UNCHANGED <<TimersOfEvents, inserted, event_clocks, target>>
                       \/ \E t \in Slots : Abstract!Stop(t))
<1>0. TypeOK /\ ListsPartitionSlots
  BY DEF IInv
<1>1. ~FireLoop
  BY DEF ResetSlot, FireLoop
<1>2. UNCHANGED <<client, expired_clock, loop_clock, accum_clocks, event_clocks, target>>
  BY DEF ResetSlot
<1>3. CASE active[scan] /\ loop_clock[scan] = 0
  <2>1. scan \in Slots /\ Release(scan)
    BY <1>0, <1>3, SizeAssumption DEF ResetSlot, TypeOK, Slots
  <2> QED
    BY <1>0, <1>1, <1>2, <1>3, <2>1, ReleaseStops
<1>4. CASE ~(active[scan] /\ loop_clock[scan] = 0)
  <2>1. UNCHANGED <<descriptors, lists>>
    BY <1>2, <1>4 DEF ResetSlot, descriptors, lists
  <2> QED
    BY <1>1, <1>2, <2>1, OtherSteps
<1> QED
  BY <1>3, <1>4

(* The delays and periods of the two ways to register an event. *)
LEMMA RegisterImplements ==
    ASSUME IInv, IInv', HInv, HNext, NEW c \in Clients, RegisterEvent(c) \/ RegisterEventByClock(c)
    PROVE  HInv' /\ (UNCHANGED historyVars \/ Abstract!Next)
<1> DEFINE Per == LoopClocks \cup {clock * Scale : clock \in Clocks \ {0}}
<1>1. ASSUME NEW clock \in Clocks, Register(c, clock, 0, 0)
      PROVE  HInv' /\ (UNCHANGED historyVars \/ Abstract!Next)
  <2>1. clock \in Nat /\ 0 < Scale /\ clock * Scale + 0 = clock * Scale
    BY ClockAssumption DEF Scale
  <2>2. HInv' /\ (UNCHANGED historyVars \/ \E t \in Slots : Abstract!Start(t, c, clock * Scale, 0))
    BY <1>1, <2>1, RegisterStarts
  <2> QED
    BY <2>2 DEF Abstract!Next, Abstract!StartOnce
<1>2. ASSUME NEW loop \in LoopClocks, Register(c, loop \div Scale, loop, loop % Scale)
      PROVE  HInv' /\ (UNCHANGED historyVars \/ Abstract!Next)
  <2>1. loop \in Nat
    BY ClockAssumption
  <2>2. loop \div Scale \in Nat /\ loop % Scale \in Nat /\ loop % Scale < Scale
    BY <2>1 DEF Scale
  <2>3. (loop \div Scale) * Scale + (loop % Scale) = loop
    BY <2>1 DEF Scale
  <2>4. HInv' /\ (UNCHANGED historyVars \/ \E t \in Slots : Abstract!Start(t, c, loop, loop))
    BY <1>2, <2>1, <2>2, <2>3, RegisterStarts
  <2> QED
    BY <2>4 DEF Abstract!Next, Abstract!StartPeriodic
<1>3. ASSUME NEW clock \in Clocks, clock # 0, Register(c, clock, clock * Scale, 0)
      PROVE  HInv' /\ (UNCHANGED historyVars \/ Abstract!Next)
  <2>1. clock \in Nat /\ 0 < Scale /\ clock * Scale \in Nat /\ clock * Scale + 0 = clock * Scale
    BY ClockAssumption DEF Scale
  <2>2. HInv' /\ (UNCHANGED historyVars
                    \/ \E t \in Slots : Abstract!Start(t, c, clock * Scale, clock * Scale))
    BY <1>3, <2>1, RegisterStarts
  <2>3. clock * Scale \in Per
    BY <1>3
  <2> QED
    BY <2>2, <2>3 DEF Abstract!Next, Abstract!StartPeriodic
<1> QED
  BY <1>1, <1>2, <1>3 DEF RegisterEvent, RegisterEventByClock

(* Every step of the event manager is one of the timers, or none. *)
LEMMA StepImplements ==
    ASSUME IInv, IInv', HInv, [HNext]_historyVars
    PROVE  HInv' /\ [Abstract!Next]_(Abstract!timerVars)
<1> DEFINE Same == UNCHANGED <<TimersOfEvents, inserted, event_clocks, target>>
<1>a. Same => UNCHANGED Abstract!timerVars
  BY DEF Abstract!timerVars
<1>b. UNCHANGED historyVars => Same /\ HInv'
  BY DEF historyVars, vars, TimersOfEvents, HInv, InsertedAreLive, FireOrderKept,
         RemaindersSmall, Live
<1> HIDE DEF Same
<1>0. TypeOK /\ ListsPartitionSlots /\ FireOrdered /\ NeverLate /\ QuiescentAtTarget
  BY DEF IInv
<1>1. CASE UNCHANGED historyVars
  BY <1>1, <1>a, <1>b
<1>2. ASSUME HNext PROVE HInv' /\ [Abstract!Next]_(Abstract!timerVars)
  <2>0. Next
    BY <1>2 DEF HNext, Next
  <2>1. CASE FireLoop
    BY <1>2, <2>1, FireLoopExpires DEF Abstract!Next
  <2>2. CASE FireOnce
    BY <1>2, <2>2, FireOnceExpires DEF Abstract!Next
  <2>3. ASSUME NEW c \in Clients, RegisterEvent(c) \/ RegisterEventByClock(c)
        PROVE  HInv' /\ [Abstract!Next]_(Abstract!timerVars)
    BY <1>2, <1>a, <1>b, <2>3, RegisterImplements
  <2>4. ASSUME NEW c \in Holders, CancelEvent(c)
        PROVE  HInv' /\ [Abstract!Next]_(Abstract!timerVars)
    BY <1>2, <1>a, <2>4, CancelStops DEF Abstract!Next, Same
  <2>5. CASE ResetSlot
    BY <1>2, <1>a, <2>5, ResetStops DEF Abstract!Next, Same
  <2>6. ASSUME ~FireLoop, UNCHANGED <<descriptors, lists, event_clocks, target>>
        PROVE  HInv' /\ [Abstract!Next]_(Abstract!timerVars)
    BY <1>2, <1>a, <2>6, OtherSteps DEF Same
  <2>7. CASE CallbackReturns \/ BeginReset \/ EndReset
    <3>1. ~FireLoop
      BY <2>7 DEF CallbackReturns, BeginReset, EndReset, DevicesReset, FireLoop
    <3> QED
      BY <2>6, <2>7, <3>1 DEF CallbackReturns, BeginReset, EndReset
  <2>8. ASSUME (\E c \in Holders : ForgetId(c)) \/ (\E d \in Devices : ResetDevice(d))
        PROVE  HInv' /\ [Abstract!Next]_(Abstract!timerVars)
    <3>1. ~FireLoop
      BY <2>8 DEF ForgetId, ResetDevice, DeviceCodeRuns, DevicesReset, FireLoop
    <3> QED
      BY <2>6, <2>8, <3>1 DEF ForgetId, ResetDevice
  <2>9. CASE BeginUpdate
    <3>1. ~FireLoop /\ UNCHANGED <<descriptors, lists, event_clocks>>
      BY <2>9 DEF BeginUpdate, FireLoop
    <3>2. HInv' /\ UNCHANGED <<inserted, TimersOfEvents>>
      BY <1>2, <3>1, OtherSteps
    <3>3. event_clocks = target
      BY <1>0, <2>9 DEF BeginUpdate, QuiescentAtTarget
    <3>4. target' \in Nat /\ target < target'
      <4>1. PICK clock \in 1 .. MaxClock : target' = event_clocks + clock
        BY <2>9 DEF BeginUpdate
      <4>2. event_clocks \in Nat /\ clock \in Nat /\ clock > 0
        BY <1>0 DEF TypeOK
      <4> QED
        BY <3>3, <4>1, <4>2
    <3>5. Abstract!Advance
      BY <3>1, <3>2, <3>3, <3>4 DEF Abstract!Advance
    <3> QED
      BY <3>2, <3>5 DEF Abstract!Next
  <2>10. CASE EndUpdate
    <3>1. /\ ~FireLoop /\ ~Due /\ event_clocks' = target
          /\ UNCHANGED <<descriptors, lists, target>>
      BY <2>10 DEF EndUpdate, FireLoop
    <3>2. HInv' /\ UNCHANGED <<inserted, TimersOfEvents>>
      BY <1>2, <3>1, OtherSteps
    <3>3. CASE event_clocks = target
      BY <1>a, <3>1, <3>2, <3>3 DEF Same
    <3>4. CASE event_clocks # target
      <4>1. ASSUME NEW t \in Live PROVE Abstract!ClockOf(t) > target
        <5>1. t \in ToSet(fire) /\ fire # <<>>
          BY <1>0 DEF ListsPartitionSlots, Live, ToSet
        <5>2. Head(fire) \in Slots /\ expired_clock[Head(fire)] <= expired_clock[t]
          BY <1>0, <5>1, HeadIsEarliest DEF Live
        <5>3. ~(expired_clock[Head(fire)] <= target)
          BY <3>1, <5>1 DEF Due
        <5>4. Abstract!ClockOf(t) = expired_clock[t]
          BY <1>0, ClockOfEvent DEF HInv
        <5>5. target \in Nat /\ expired_clock[t] \in Nat /\ expired_clock[Head(fire)] \in Nat
          BY <1>0, <5>2 DEF TypeOK, Live
        <5> QED
          BY <5>2, <5>3, <5>4, <5>5
      <4>2. Abstract!Arrive
        BY <3>1, <3>2, <3>4, <4>1, TimersFacts DEF Abstract!Arrive
      <4> QED
        BY <3>2, <4>2 DEF Abstract!Next
    <3> QED
      BY <3>3, <3>4
  <2> QED
    BY <2>0, <2>1, <2>2, <2>3, <2>4, <2>5, <2>7, <2>8, <2>9, <2>10 DEF Next
<1> QED
  BY <1>1, <1>2

LEMMA InitImplements == HInit => Abstract!Init
<1> SUFFICES ASSUME HInit PROVE Abstract!Init
  OBVIOUS
<1>1. Live = {}
  BY DEF HInit, Init, Live
<1>2. TimersOfEvents = [t \in {} |-> {}]
  <2>1. DOMAIN TimersOfEvents = {}
    BY <1>1, TimersFacts
  <2> QED
    BY <1>1, <2>1 DEF TimersOfEvents, Live
<1> QED
  BY <1>2 DEF HInit, Init, Abstract!Init

(***************************************************************************)
(* The event manager implements exact timers: for any clients, delays and  *)
(* periods and any number of descriptors, every behaviour of the queue is  *)
(* one of Timers under the mapping; in particular events of one clock fire *)
(* in the order of their insertions, and periods accumulate no error.      *)
(***************************************************************************)
THEOREM QueueIsTimers == HSpec => ImplementsTimers
<1>1. HInit => IInv
  BY InitIInv DEF HInit
<1>2. IInv /\ [HNext]_historyVars => IInv'
  <2>1. [HNext]_historyVars => [Next]_vars
    BY DEF HNext, Next, historyVars
  <2> QED
    BY <2>1, NextIInv
<1>3. IInv /\ IInv' /\ HInv /\ [HNext]_historyVars =>
        HInv' /\ [Abstract!Next]_(Abstract!timerVars)
  BY StepImplements
<1> QED
  BY <1>1, <1>2, <1>3, InitHInv, InitImplements, PTL DEF HSpec, ImplementsTimers, Abstract!Spec
-----------------------------------------------------------------------------
(* The pointers of module EventList: walking a list that is well linked.   *)

\* The entry at a position of a list, NULL beyond its ends.
At(list, i) == IF i \in 1 .. Len(list) THEN list[i] ELSE NULL

\* first and next hold the list, and nothing else.
Linked(first, next, list) ==
    /\ first = At(list, 1)
    /\ \A i \in 1 .. Len(list) : next[list[i]] = At(list, i + 1)

LEMMA LeastOfNat ==
    ASSUME NEW T, T \subseteq Nat, T # {}
    PROVE  \E x \in T : \A y \in T : x <= y
<1> DEFINE R == OpToRel(<, Nat)
<1>1. IsWellFoundedOn(R, Nat)
  BY NatLessThanWellFounded
<1>2. \A x, y \in Nat : <<x, y>> \in R <=> x < y
  BY DEF OpToRel
<1> HIDE DEF R
<1>3. PICK x \in T : \A y \in T : ~(<<y, x>> \in R)
  BY <1>1, WFMin, Zenon
<1>4. \A y \in T : ~(y < x)
  BY <1>2, <1>3, Zenon
<1> QED
  BY <1>4

\* A list without duplicates has at most MAX_EVENT descriptors.
LEMMA ShortList ==
    ASSUME NEW list \in Seq(Slots), IsInjective(list)
    PROVE  Len(list) \in 0 .. MAX_EVENT
<1>1. Len(list) \in Nat /\ DOMAIN list = 1 .. Len(list) /\ list \in [1 .. Len(list) -> Slots]
  OBVIOUS
<1>2. IsFiniteSet(Slots) /\ Cardinality(Slots) = MAX_EVENT
  <2>1. 0 \in Int /\ MAX_EVENT - 1 \in Int /\ ~(0 > MAX_EVENT - 1) /\ (MAX_EVENT - 1) - 0 + 1 = MAX_EVENT
    BY SizeAssumption
  <2> HIDE SizeAssumption
  <2> QED
    BY <2>1, FS_Interval DEF Slots
<1>3. IsFiniteSet(1 .. Len(list)) /\ Cardinality(1 .. Len(list)) = Len(list)
  BY <1>1, FS_Interval
<1>4. ~(Len(list) > MAX_EVENT)
  <2>1. SUFFICES ASSUME Len(list) > MAX_EVENT PROVE FALSE
    OBVIOUS
  <2>2. Cardinality(Slots) < Cardinality(1 .. Len(list))
    BY <1>1, <1>2, <1>3, <2>1, SizeAssumption
  <2>3. PICK i \in 1 .. Len(list), j \in 1 .. Len(list) : i # j /\ list[i] = list[j]
    BY <1>1, <1>2, <1>3, <2>2, FS_PigeonHole
  <2> QED
    BY <1>1, <2>3 DEF IsInjective
<1> QED
  BY <1>1, <1>4, SizeAssumption

\* The walk along next is the list, then NULL.
LEMMA ReachedIs ==
    ASSUME NEW list \in Seq(Slots), IsInjective(list),
           NEW first, NEW next, Linked(first, next, list)
    PROVE  Reached(first, next) = list
<1> DEFINE N == 0 .. MAX_EVENT + 1
           last == Len(list) + 1
           upto(n) == IF n < last THEN n + 1 ELSE last
           step(w) == IF Last(w) = NULL THEN w ELSE Append(w, next[Last(w)])
           g(n) == [i \in 1 .. upto(n) |-> At(list, i)]
           G == [n \in N |-> g(n)]
           walk == CHOOSE w : w = [n \in N |-> IF n = 0 THEN <<first>> ELSE step(w[n - 1])]
<1>1. Len(list) \in 0 .. MAX_EVENT /\ MAX_EVENT \in Nat
  BY ShortList, SizeAssumption
<1>2. first = At(list, 1) /\ \A i \in 1 .. Len(list) : next[list[i]] = At(list, i + 1)
  BY DEF Linked
<1>3. g(0) = <<first>>
  <2>1. upto(0) = 1
    BY <1>1
  <2> QED
    BY <1>2, <2>1
<1>4. ASSUME NEW n \in N, n # 0
      PROVE  step(g(n - 1)) = g(n)
  <2>1. n - 1 \in Nat /\ n \in Nat /\ last \in Nat
    BY <1>1, <1>4
  <2>2. upto(n - 1) = (IF n < last THEN n ELSE last) /\ upto(n - 1) \in Nat \ {0}
    BY <1>1, <1>4
  <2>3. Last(g(n - 1)) = At(list, upto(n - 1)) /\ Len(g(n - 1)) = upto(n - 1)
    <3> DEFINE u == upto(n - 1)
    <3> HIDE DEF u
    <3> QED BY <2>2 DEF Last, u
  <2>4. CASE n < last
    <3>1. upto(n - 1) = n /\ upto(n) = n + 1 /\ n \in 1 .. Len(list)
      BY <1>1, <2>1, <2>2, <2>4
    <3>2. Last(g(n - 1)) = list[n] /\ list[n] # NULL
      <4>1. list[n] \in Slots /\ At(list, n) = list[n]
        BY <3>1 DEF At
      <4>2. list[n] # NULL
        BY <4>1, <1>1 DEF Slots, NULL
      <4> HIDE DEF g
      <4> QED
        BY <2>3, <3>1, <4>1, <4>2
    <3>3. step(g(n - 1)) = Append(g(n - 1), At(list, n + 1))
      BY <1>2, <3>1, <3>2
    <3>4. g(n - 1) = [i \in 1 .. n |-> At(list, i)] /\ g(n) = [i \in 1 .. n + 1 |-> At(list, i)]
      BY <3>1
    <3> HIDE DEF g, step
    <3>5. Append([i \in 1 .. n |-> At(list, i)], At(list, n + 1)) = [i \in 1 .. n + 1 |-> At(list, i)]
      BY <2>1
    <3> QED
      BY <3>3, <3>4, <3>5
  <2>5. CASE ~(n < last)
    <3>1. upto(n - 1) = last /\ upto(n) = last
      BY <1>1, <2>1, <2>2, <2>5
    <3>2. Last(g(n - 1)) = NULL
      BY <1>1, <2>3, <3>1 DEF At
    <3> QED
      BY <3>1, <3>2
  <2> QED
    BY <2>4, <2>5
<1>5. G = [n \in N |-> IF n = 0 THEN <<first>> ELSE step(G[n - 1])]
  <2>1. ASSUME NEW n \in N
        PROVE  g(n) = IF n = 0 THEN <<first>> ELSE step(G[n - 1])
    <3>1. n # 0 => n - 1 \in N
      BY <1>1
    <3> HIDE DEF g, step, N
    <3> QED
      BY <1>3, <1>4, <3>1
  <2> HIDE DEF g, step, N
  <2> QED
    BY <2>1
<1>6. walk = [n \in N |-> IF n = 0 THEN <<first>> ELSE step(walk[n - 1])]
  <2> HIDE DEF G, step, N
  <2> QED
    BY <1>5
<1>7. Reached(first, next) = Front(walk[MAX_EVENT + 1])
  BY Zenon DEF Reached
<1> HIDE DEF g, step, walk, G
<1>8. ASSUME NEW m \in N PROVE walk[m] = g(m)
  <2> DEFINE bad == {n \in N : walk[n] # g(n)}
  <2>1. SUFFICES ASSUME bad # {} PROVE FALSE
    OBVIOUS
  <2>2. PICK n \in bad : \A k \in bad : n <= k
    <3>1. bad \subseteq Nat
      BY <1>1
    <3> HIDE DEF bad
    <3> QED
      BY <2>1, <3>1, LeastOfNat
  <2>3. n # 0
    BY <1>3, <1>6, <2>2
  <2>4. n - 1 \in N /\ n - 1 \notin bad
    BY <1>1, <2>2, <2>3
  <2> QED
    BY <1>4, <1>6, <2>2, <2>3, <2>4
<1>9. walk[MAX_EVENT + 1] = [i \in 1 .. last |-> At(list, i)]
  <2>1. MAX_EVENT + 1 \in N /\ upto(MAX_EVENT + 1) = last
    BY <1>1
  <2> QED
    BY <1>8, <2>1 DEF g
<1>10. Front([i \in 1 .. last |-> At(list, i)]) = [i \in 1 .. Len(list) |-> list[i]]
  <2>1. \A i \in 1 .. Len(list) : At(list, i) = list[i]
    BY DEF At
  <2>2. last \in Nat /\ last - 1 = Len(list)
    BY <1>1
  <2>3. Front([i \in 1 .. last |-> At(list, i)]) = [i \in 1 .. last - 1 |-> At(list, i)]
    <3> HIDE DEF last
    <3> QED BY <2>2 DEF Front
  <2> HIDE DEF last
  <2> QED
    BY <2>1, <2>2, <2>3
<1> QED
  BY <1>7, <1>9, <1>10
-----------------------------------------------------------------------------
(* What the operations on the pointers do to the two lists.                *)

Links == [next : [Slots -> Pointer], prev : [Slots -> Pointer],
          first_fire : Pointer, first_free : Pointer]

\* The fire list is linked both ways.
FireLinked(l, list) ==
    /\ Linked(l.first_fire, l.next, list)
    /\ \A i \in 1 .. Len(list) : l.prev[list[i]] = At(list, i - 1)

\* The pointers hold these two lists.
Threaded(l, onFire, onFree) ==
    /\ l \in Links
    /\ FireLinked(l, onFire)
    /\ Linked(l.first_free, l.next, onFree)

Distinct(list) == list \in Seq(Slots) /\ IsInjective(list)

LEMMA AtFacts ==
    ASSUME NEW list, Distinct(list)
    PROVE  /\ Len(list) \in Nat
           /\ \A i \in Int : At(list, i) \in Pointer /\ (At(list, i) = NULL <=> i \notin 1 .. Len(list))
           /\ \A i \in 1 .. Len(list) : At(list, i) = list[i] /\ list[i] \in Slots /\ list[i] # NULL
           /\ \A i \in Int, j \in 1 .. Len(list) : At(list, i) = list[j] => i = j
<1>1. /\ Len(list) \in Nat /\ \A i \in 1 .. Len(list) : list[i] \in Slots
      /\ \A i, j \in 1 .. Len(list) : list[i] = list[j] => i = j
  BY DEF Distinct, IsInjective
<1>2. NULL \notin Slots
  BY SizeAssumption DEF Slots, NULL
<1> QED
  BY <1>1, <1>2 DEF At, Pointer

\* A list is not disturbed by links of descriptors that are not on it.
LEMMA SameLinked ==
    ASSUME NEW list, Distinct(list), NEW first, NEW next, NEW next2,
           Linked(first, next, list), \A t \in ToSet(list) : next2[t] = next[t]
    PROVE  Linked(first, next2, list)
<1>1. \A i \in 1 .. Len(list) : list[i] \in ToSet(list)
  BY DEF Distinct, ToSet
<1> QED
  BY <1>1 DEF Linked

\* The pointers after a descriptor is linked in at position p.
LinkedIn(l, m, list, p, s) ==
    /\ m \in Links
    /\ m.next = [t \in Slots |-> IF t = s THEN At(list, p)
                                 ELSE IF t = At(list, p - 1) THEN s ELSE l.next[t]]
    /\ m.prev = [t \in Slots |-> IF t = s THEN At(list, p - 1)
                                 ELSE IF t = At(list, p) THEN s ELSE l.prev[t]]
    /\ m.first_fire = IF p = 1 THEN s ELSE l.first_fire
    /\ m.first_free = l.first_free

LEMMA LinkedInIs ==
    ASSUME NEW l, NEW m, NEW list, Distinct(list), NEW p \in 1 .. Len(list) + 1,
           NEW s \in Slots, s \notin ToSet(list),
           FireLinked(l, list), LinkedIn(l, m, list, p, s)
    PROVE  FireLinked(m, InsertAt(list, p, s))
<1> DEFINE r == InsertAt(list, p, s)
<1>1. /\ Len(r) = Len(list) + 1
      /\ \A i \in 1 .. Len(list) + 1 :
           r[i] = IF i < p THEN list[i] ELSE IF i = p THEN s ELSE list[i - 1]
  <2>1. list \in Seq(Slots)
    BY DEF Distinct
  <2>2. Len(r) = Len(list) + 1
    BY <2>1, InsertAtProperties
  <2>3. ASSUME NEW i \in 1 .. Len(list) + 1
        PROVE  r[i] = IF i < p THEN list[i] ELSE IF i = p THEN s ELSE list[i - 1]
    BY <2>1, InsertAtProperties
  <2> QED
    BY <2>2, <2>3
<1> HIDE DEF r
<1>2. /\ Len(list) \in Nat /\ p \in Nat /\ p # 0 /\ p <= Len(list) + 1
      /\ \A i \in Int : At(list, i) \in Pointer /\ (At(list, i) = NULL <=> i \notin 1 .. Len(list))
      /\ \A i \in 1 .. Len(list) : At(list, i) = list[i] /\ list[i] \in Slots /\ list[i] # NULL
      /\ \A i \in Int, j \in 1 .. Len(list) : At(list, i) = list[j] => i = j
  BY AtFacts
<1>3. \A i \in 1 .. Len(list) : list[i] # s
  BY DEF Distinct, ToSet
<1>4. \A i \in 0 .. Len(list) + 2 :
        At(r, i) = IF i < p THEN At(list, i) ELSE IF i = p THEN s ELSE At(list, i - 1)
  BY <1>1, <1>2 DEF At
<1>5. /\ l.first_fire = At(list, 1)
      /\ \A i \in 1 .. Len(list) : l.next[list[i]] = At(list, i + 1) /\ l.prev[list[i]] = At(list, i - 1)
  BY DEF FireLinked, Linked
<1>6. m.first_fire = At(r, 1)
  BY <1>2, <1>4, <1>5 DEF LinkedIn
<1>7. ASSUME NEW i \in 1 .. Len(r)
      PROVE  m.next[r[i]] = At(r, i + 1) /\ m.prev[r[i]] = At(r, i - 1)
  <2>1. \A t \in Slots :
          /\ m.next[t] = IF t = s THEN At(list, p) ELSE IF t = At(list, p - 1) THEN s ELSE l.next[t]
          /\ m.prev[t] = IF t = s THEN At(list, p - 1) ELSE IF t = At(list, p) THEN s ELSE l.prev[t]
    BY DEF LinkedIn
  <2>2. i \in Nat /\ i # 0 /\ i <= Len(list) + 1
    BY <1>1, <1>2
  <2>3. CASE i < p
    <3>1. i \in 1 .. Len(list) /\ r[i] = list[i] /\ list[i] \in Slots /\ list[i] # s
      BY <1>1, <1>2, <1>3, <2>2, <2>3
    <3>2. m.next[r[i]] = At(r, i + 1)
      <4>1. CASE i = p - 1
        <5>1. At(r, i + 1) = s /\ At(list, p - 1) = list[i]
          BY <1>2, <1>4, <2>2, <3>1, <4>1
        <5> QED
          BY <2>1, <3>1, <5>1
      <4>2. CASE i # p - 1
        <5>1. At(r, i + 1) = At(list, i + 1) /\ At(list, p - 1) # list[i]
          BY <1>2, <1>4, <2>2, <2>3, <3>1, <4>2
        <5> QED
          BY <1>5, <2>1, <3>1, <5>1
      <4> QED
        BY <4>1, <4>2
    <3>3. m.prev[r[i]] = At(r, i - 1)
      <4>1. At(r, i - 1) = At(list, i - 1) /\ At(list, p) # list[i]
        BY <1>2, <1>4, <2>2, <2>3, <3>1
      <4> QED
        BY <1>5, <2>1, <3>1, <4>1
    <3> QED
      BY <3>2, <3>3
  <2>4. CASE i = p
    <3>1. r[i] = s /\ At(r, i + 1) = At(list, p) /\ At(r, i - 1) = At(list, p - 1)
      BY <1>1, <1>2, <1>4, <2>2, <2>4
    <3> QED
      BY <2>1, <3>1
  <2>5. CASE i > p
    <3>1. i - 1 \in 1 .. Len(list) /\ r[i] = list[i - 1] /\ list[i - 1] \in Slots /\ list[i - 1] # s
      BY <1>1, <1>2, <1>3, <2>2, <2>5
    <3>2. m.next[r[i]] = At(r, i + 1)
      <4>1. /\ i + 1 \in 0 .. Len(list) + 2 /\ ~(i + 1 < p) /\ i + 1 # p
            /\ (i + 1) - 1 = i /\ (i - 1) + 1 = i
        BY <1>2, <2>2, <2>5
      <4>2. At(r, i + 1) = At(list, (i + 1) - 1)
        BY <1>4, <4>1, Zenon
      <4>3. At(list, p - 1) # list[i - 1]
        BY <1>2, <2>2, <2>5, <3>1
      <4>4. m.next[list[i - 1]] = l.next[list[i - 1]]
        BY <2>1, <3>1, <4>3
      <4>5. l.next[list[i - 1]] = At(list, (i - 1) + 1)
        BY <1>5, <3>1
      <4> QED
        BY <3>1, <4>1, <4>2, <4>4, <4>5
    <3>3. m.prev[r[i]] = At(r, i - 1)
      <4>1. CASE i = p + 1
        <5>1. At(r, i - 1) = s /\ At(list, p) = list[i - 1]
          BY <1>2, <1>4, <2>2, <3>1, <4>1
        <5> QED
          BY <2>1, <3>1, <5>1
      <4>2. CASE i # p + 1
        <5>1. At(r, i - 1) = At(list, (i - 1) - 1) /\ At(list, p) # list[i - 1]
          BY <1>2, <1>4, <2>2, <2>5, <3>1, <4>2
        <5> QED
          BY <1>5, <2>1, <3>1, <5>1
      <4> QED
        BY <4>1, <4>2
    <3> QED
      BY <3>2, <3>3
  <2> QED
    BY <1>2, <2>2, <2>3, <2>4, <2>5
<1> QED
  BY <1>6, <1>7 DEF FireLinked, Linked, r

\* The pointers after the descriptor at position p is taken off the fire list;
\* its own next and prev are left as they are.
TakenOff(l, m, list, p) ==
    /\ m \in Links
    /\ m.next = [t \in Slots |-> IF t = At(list, p - 1) THEN At(list, p + 1) ELSE l.next[t]]
    /\ m.prev = [t \in Slots |-> IF t = At(list, p + 1) THEN At(list, p - 1) ELSE l.prev[t]]
    /\ m.first_fire = IF p = 1 THEN At(list, 2) ELSE l.first_fire
    /\ m.first_free = l.first_free

LEMMA TakenOffIs ==
    ASSUME NEW l, NEW m, NEW list, Distinct(list), NEW p \in 1 .. Len(list), NEW r,
           Len(r) = Len(list) - 1,
           \A i \in 1 .. Len(list) - 1 : r[i] = IF i < p THEN list[i] ELSE list[i + 1],
           FireLinked(l, list), TakenOff(l, m, list, p)
    PROVE  FireLinked(m, r)
<1>1. /\ Len(list) \in Nat /\ p \in Nat /\ p # 0 /\ p <= Len(list)
      /\ \A i \in Int : At(list, i) \in Pointer /\ (At(list, i) = NULL <=> i \notin 1 .. Len(list))
      /\ \A i \in 1 .. Len(list) : At(list, i) = list[i] /\ list[i] \in Slots /\ list[i] # NULL
      /\ \A i \in Int, j \in 1 .. Len(list) : At(list, i) = list[j] => i = j
  BY AtFacts
<1>2. \A i \in 0 .. Len(list) : At(r, i) = IF i < p THEN At(list, i) ELSE At(list, i + 1)
  BY <1>1 DEF At
<1>3. /\ l.first_fire = At(list, 1)
      /\ \A i \in 1 .. Len(list) : l.next[list[i]] = At(list, i + 1) /\ l.prev[list[i]] = At(list, i - 1)
  BY DEF FireLinked, Linked
<1>4. m.first_fire = At(r, 1)
  BY <1>1, <1>2, <1>3 DEF TakenOff
<1>5. ASSUME NEW i \in 1 .. Len(r)
      PROVE  m.next[r[i]] = At(r, i + 1) /\ m.prev[r[i]] = At(r, i - 1)
  <2>1. \A t \in Slots :
          /\ m.next[t] = IF t = At(list, p - 1) THEN At(list, p + 1) ELSE l.next[t]
          /\ m.prev[t] = IF t = At(list, p + 1) THEN At(list, p - 1) ELSE l.prev[t]
    BY DEF TakenOff
  <2>2. i \in Nat /\ i # 0 /\ i <= Len(list) - 1
    BY <1>1
  <2>3. CASE i < p
    <3>1. i \in 1 .. Len(list) /\ r[i] = list[i] /\ list[i] \in Slots
      BY <1>1, <2>2, <2>3
    <3>2. m.next[r[i]] = At(r, i + 1)
      <4>1. CASE i = p - 1
        <5>1. At(r, i + 1) = At(list, p + 1) /\ At(list, p - 1) = list[i]
          BY <1>1, <1>2, <2>2, <3>1, <4>1
        <5> QED
          BY <2>1, <3>1, <5>1
      <4>2. CASE i # p - 1
        <5>1. At(r, i + 1) = At(list, i + 1) /\ At(list, p - 1) # list[i]
          BY <1>1, <1>2, <2>2, <2>3, <3>1, <4>2
        <5> QED
          BY <1>3, <2>1, <3>1, <5>1
      <4> QED
        BY <4>1, <4>2
    <3>3. m.prev[r[i]] = At(r, i - 1)
      <4>1. At(r, i - 1) = At(list, i - 1) /\ At(list, p + 1) # list[i]
        BY <1>1, <1>2, <2>2, <2>3, <3>1
      <4> QED
        BY <1>3, <2>1, <3>1, <4>1
    <3> QED
      BY <3>2, <3>3
  <2>4. CASE ~(i < p)
    <3>1. i + 1 \in 1 .. Len(list) /\ r[i] = list[i + 1] /\ list[i + 1] \in Slots
      BY <1>1, <2>2, <2>4
    <3>2. m.next[r[i]] = At(r, i + 1)
      <4>1. At(r, i + 1) = At(list, (i + 1) + 1) /\ At(list, p - 1) # list[i + 1]
        BY <1>1, <1>2, <2>2, <2>4, <3>1
      <4> QED
        BY <1>3, <2>1, <3>1, <4>1
    <3>3. m.prev[r[i]] = At(r, i - 1)
      <4>1. CASE i = p
        <5>1. At(r, i - 1) = At(list, p - 1) /\ At(list, p + 1) = list[i + 1]
          BY <1>1, <1>2, <2>2, <3>1, <4>1
        <5> QED
          BY <2>1, <3>1, <5>1
      <4>2. CASE i # p
        <5>1. At(r, i - 1) = At(list, (i + 1) - 1) /\ At(list, p + 1) # list[i + 1]
          BY <1>1, <1>2, <2>2, <2>4, <3>1, <4>2
        <5> QED
          BY <1>3, <2>1, <3>1, <5>1
      <4> QED
        BY <4>1, <4>2
    <3> QED
      BY <3>2, <3>3
  <2> QED
    BY <2>3, <2>4
<1> QED
  BY <1>4, <1>5 DEF FireLinked, Linked
-----------------------------------------------------------------------------
(* insert_event(), the unlinking and the popping, pointer by pointer.      *)

\* The descriptor goes where EventQueue's InsertPosition says.
InsertHere(list, s, expiry, p) ==
    /\ p \in 1 .. Len(list) + 1
    /\ \A i \in 1 .. p - 1 : expiry[list[i]] <= expiry[s]
    /\ p <= Len(list) => expiry[list[p]] > expiry[s]

LEMMA InsertPosIs ==
    ASSUME NEW l, NEW list, Distinct(list), FireLinked(l, list),
           NEW s, NEW expiry \in [Slots -> Nat], s \in Slots,
           NEW p, InsertHere(list, s, expiry, p)
    PROVE  InsertPos(l, s, expiry) = IF p <= Len(list) THEN p ELSE 0
<1> DEFINE later == {i \in 1 .. Len(list) : expiry[list[i]] > expiry[s]}
<1>1. Reached(l.first_fire, l.next) = list
  BY ReachedIs DEF Distinct, FireLinked
<1>2. InsertPos(l, s, expiry) =
        IF later # {} THEN (CHOOSE i \in later : \A j \in later : i =< j) ELSE 0
  BY <1>1 DEF InsertPos, SelectInSeq, Min
<1>3. /\ Len(list) \in Nat /\ p \in Nat /\ p # 0 /\ p <= Len(list) + 1
      /\ \A i \in 1 .. Len(list) : list[i] \in Slots /\ expiry[list[i]] \in Nat
      /\ expiry[s] \in Nat
  BY AtFacts DEF InsertHere
<1>4. \A i \in later : i \in Nat /\ p <= i
  BY <1>3 DEF InsertHere
<1>5. CASE p <= Len(list)
  <2>1. p \in later
    BY <1>3, <1>5 DEF InsertHere
  <2> HIDE DEF later
  <2>2. (CHOOSE i \in later : \A j \in later : i =< j) = p
    <3> DEFINE least == CHOOSE i \in later : \A j \in later : i =< j
    <3>1. \E i \in later : \A j \in later : i =< j
      BY <1>4, <2>1
    <3>2. least \in later /\ \A j \in later : least =< j
      BY <3>1, Zenon
    <3> HIDE DEF least
    <3>3. least = p
      BY <1>3, <1>4, <2>1, <3>2
    <3> QED
      BY <3>3 DEF least
  <2> QED
    BY <1>2, <1>5, <2>1, <2>2
<1>6. CASE ~(p <= Len(list))
  <2>1. later = {}
    BY <1>3, <1>4, <1>6
  <2> QED
    BY <1>2, <1>6, <2>1
<1> QED
  BY <1>5, <1>6

LEMMA InsertLinksIn ==
    ASSUME NEW l \in Links, NEW list, Distinct(list), FireLinked(l, list),
           NEW s \in Slots, s \notin ToSet(list), NEW expiry \in [Slots -> Nat],
           NEW p, InsertHere(list, s, expiry, p)
    PROVE  LinkedIn(l, InsertEvent(l, s, expiry), list, p, s)
<1> DEFINE n == Len(list)
           m == InsertEvent(l, s, expiry)
           next == [t \in Slots |-> IF t = s THEN At(list, p)
                                    ELSE IF t = At(list, p - 1) THEN s ELSE l.next[t]]
           prev == [t \in Slots |-> IF t = s THEN At(list, p - 1)
                                    ELSE IF t = At(list, p) THEN s ELSE l.prev[t]]
<1>1. /\ n \in Nat /\ p \in Nat /\ p # 0 /\ p <= n + 1
      /\ \A i \in Int : At(list, i) \in Pointer /\ (At(list, i) = NULL <=> i \notin 1 .. n)
      /\ \A i \in 1 .. n : At(list, i) = list[i] /\ list[i] \in Slots /\ list[i] # NULL
  BY AtFacts DEF InsertHere
<1>2. /\ l.first_fire = At(list, 1)
      /\ \A i \in 1 .. n : l.prev[list[i]] = At(list, i - 1)
      /\ Reached(l.first_fire, l.next) = list
      /\ InsertPos(l, s, expiry) = IF p <= n THEN p ELSE 0
  BY InsertPosIs, ReachedIs DEF Distinct, FireLinked, Linked
<1>3. /\ l.next \in [Slots -> Pointer] /\ l.prev \in [Slots -> Pointer]
      /\ l.first_fire \in Pointer /\ l.first_free \in Pointer
      /\ l = [next |-> l.next, prev |-> l.prev, first_fire |-> l.first_fire, first_free |-> l.first_free]
  BY DEF Links
<1>4. \A i \in 1 .. n : list[i] # s
  BY DEF Distinct, ToSet
<1>5. s # NULL /\ s \in Pointer /\ NULL \in Pointer
  BY SizeAssumption DEF Slots, NULL, Pointer
<1>6. m = [next |-> next, prev |-> prev,
           first_fire |-> IF p = 1 THEN s ELSE l.first_fire, first_free |-> l.first_free]
  <2>1. CASE n = 0
    <3>1. p = 1 /\ l.first_fire = NULL /\ At(list, p) = NULL /\ At(list, p - 1) = NULL
      BY <1>1, <1>2, <2>1
    <3>2. m = [l EXCEPT !.first_fire = s, !.prev[s] = NULL, !.next[s] = NULL]
      BY <3>1, Zenon DEF InsertEvent
    <3>3. NULL \notin Slots
      BY SizeAssumption DEF Slots, NULL
    <3>4. next = [l.next EXCEPT ![s] = NULL] /\ prev = [l.prev EXCEPT ![s] = NULL]
      BY <1>3, <3>1, <3>3
    <3> HIDE DEF m, next, prev
    <3> QED
      BY <1>3, <3>1, <3>2, <3>4
  <2>2. CASE n # 0 /\ p = n + 1
    <3>1. l.first_fire # NULL /\ InsertPos(l, s, expiry) = 0 /\ Last(list) = list[n]
      BY <1>1, <1>2, <2>2 DEF Last
    <3>2. m = [l EXCEPT !.next[list[n]] = s, !.prev[s] = list[n], !.next[s] = NULL]
      BY <1>2, <3>1, Zenon DEF InsertEvent
    <3>3. At(list, p) = NULL /\ At(list, p - 1) = list[n] /\ list[n] # s /\ list[n] \in Slots
      BY <1>1, <1>4, <2>2
    <3>4. NULL \notin Slots
      BY SizeAssumption DEF Slots, NULL
    <3>5. /\ next = [[l.next EXCEPT ![list[n]] = s] EXCEPT ![s] = NULL]
          /\ prev = [l.prev EXCEPT ![s] = list[n]]
      BY <1>3, <3>3, <3>4
    <3>6. p # 1
      BY <1>1, <2>2
    <3> HIDE DEF m, next, prev
    <3> QED
      BY <1>3, <3>2, <3>5, <3>6
  <2>3. CASE p <= n
    <3> DEFINE after == list[p]
               before == At(list, p - 1)
    <3>1. /\ p \in 1 .. n /\ l.first_fire # NULL /\ InsertPos(l, s, expiry) = p /\ p # 0
          /\ l.prev[after] = before
          /\ after \in Slots /\ after # s /\ At(list, p) = after
      BY <1>1, <1>2, <1>4, <2>3
    <3>2. CASE p = 1
      <4>1. before = NULL /\ NULL \notin Slots
        BY <1>1, <3>2, SizeAssumption DEF Slots, NULL
      <4>2. m = [l EXCEPT !.first_fire = s, !.prev[s] = NULL, !.next[s] = after, !.prev[after] = s]
        BY <1>2, <3>1, <4>1, Zenon DEF InsertEvent
      <4>3. /\ next = [l.next EXCEPT ![s] = after]
            /\ prev = [[l.prev EXCEPT ![s] = NULL] EXCEPT ![after] = s]
        BY <1>3, <3>1, <4>1
      <4> HIDE DEF m, next, prev
      <4> QED
        BY <1>3, <3>2, <4>2, <4>3
    <3>3. CASE p # 1
      <4>1. p - 1 \in 1 .. n /\ before = list[p - 1] /\ before \in Slots /\ before # NULL /\ before # s
        BY <1>1, <1>4, <3>1, <3>3
      <4>2. m = [l EXCEPT !.next[before] = s, !.prev[s] = before, !.next[s] = after, !.prev[after] = s]
        BY <1>2, <3>1, <4>1, Zenon DEF InsertEvent
      <4>3. /\ next = [[l.next EXCEPT ![before] = s] EXCEPT ![s] = after]
            /\ prev = [[l.prev EXCEPT ![s] = before] EXCEPT ![after] = s]
        BY <1>3, <3>1, <4>1
      <4> HIDE DEF m, next, prev, before
      <4> QED
        BY <1>3, <3>3, <4>2, <4>3
    <3> QED
      BY <3>2, <3>3
  <2> QED
    BY <1>1, <2>1, <2>2, <2>3
<1>7. next \in [Slots -> Pointer] /\ prev \in [Slots -> Pointer]
  BY <1>1, <1>3, <1>5 DEF Pointer
<1> HIDE DEF m, next, prev
<1>8. m \in Links
  BY <1>3, <1>5, <1>6, <1>7 DEF Links
<1> QED
  BY <1>6, <1>8 DEF LinkedIn, m, next, prev

LEMMA UnlinkTakesOff ==
    ASSUME NEW l \in Links, NEW list, Distinct(list), FireLinked(l, list), NEW p \in 1 .. Len(list)
    PROVE  TakenOff(l, Unlink(l, list[p]), list, p)
<1> DEFINE n == Len(list)
           s == list[p]
           before == At(list, p - 1)
           after == At(list, p + 1)
           m == Unlink(l, s)
           next == [t \in Slots |-> IF t = before THEN after ELSE l.next[t]]
           prev == [t \in Slots |-> IF t = after THEN before ELSE l.prev[t]]
<1>1. /\ n \in Nat /\ p \in Nat /\ p # 0 /\ p <= n
      /\ \A i \in Int : At(list, i) \in Pointer /\ (At(list, i) = NULL <=> i \notin 1 .. n)
      /\ \A i \in 1 .. n : At(list, i) = list[i] /\ list[i] \in Slots /\ list[i] # NULL
  BY AtFacts
<1>2. l.next[s] = after /\ l.prev[s] = before /\ l.first_fire = At(list, 1)
  BY DEF FireLinked, Linked
<1>3. /\ l.next \in [Slots -> Pointer] /\ l.prev \in [Slots -> Pointer]
      /\ l.first_fire \in Pointer /\ l.first_free \in Pointer
      /\ l = [next |-> l.next, prev |-> l.prev, first_fire |-> l.first_fire, first_free |-> l.first_free]
  BY DEF Links
<1>4. NULL \notin Slots
  BY SizeAssumption DEF Slots, NULL
<1>5. /\ before \in Pointer /\ after \in Pointer
      /\ before = NULL <=> p = 1
      /\ before # NULL => before \in Slots
      /\ after # NULL => after \in Slots
  <2>1. p - 1 \in Int /\ p + 1 \in Int /\ (p - 1 \notin 1 .. n <=> p = 1)
    BY <1>1
  <2> QED
    BY <1>1, <2>1 DEF Pointer
<1>6. p = 1 => after = At(list, 2)
  BY <1>1
<1> HIDE DEF before, after, s
<1>7. /\ next = IF before # NULL THEN [l.next EXCEPT ![before] = after] ELSE l.next
      /\ prev = IF after # NULL THEN [l.prev EXCEPT ![after] = before] ELSE l.prev
  BY <1>3, <1>4, <1>5
<1>8. m = [next |-> next, prev |-> prev,
           first_fire |-> IF p = 1 THEN At(list, 2) ELSE l.first_fire, first_free |-> l.first_free]
  <2> DEFINE u == IF before # NULL THEN [l EXCEPT !.next[before] = after] ELSE [l EXCEPT !.first_fire = after]
  <2>1. m = IF after # NULL THEN [u EXCEPT !.prev[after] = before] ELSE u
    BY <1>2, Zenon DEF Unlink
  <2>2. u = [next |-> next, prev |-> l.prev,
             first_fire |-> IF p = 1 THEN At(list, 2) ELSE l.first_fire, first_free |-> l.first_free]
    <3> HIDE DEF next
    <3>1. CASE before # NULL
      <4>1. u = [l EXCEPT !.next[before] = after] /\ p # 1 /\ next = [l.next EXCEPT ![before] = after]
        BY <1>5, <1>7, <3>1
      <4> HIDE DEF u
      <4> QED
        BY <1>3, <4>1
    <3>2. CASE before = NULL
      <4>1. u = [l EXCEPT !.first_fire = At(list, 2)] /\ p = 1 /\ next = l.next
        BY <1>5, <1>6, <1>7, <3>2
      <4> HIDE DEF u
      <4> QED
        BY <1>3, <4>1
    <3> QED
      BY <3>1, <3>2
  <2> HIDE DEF u, next, prev, m
  <2>3. CASE after # NULL
    <3>1. m = [u EXCEPT !.prev[after] = before] /\ prev = [l.prev EXCEPT ![after] = before]
      BY <1>7, <2>1, <2>3
    <3> QED
      BY <2>2, <3>1
  <2>4. CASE after = NULL
    BY <1>7, <2>1, <2>2, <2>4
  <2> QED
    BY <2>3, <2>4
<1>9. next \in [Slots -> Pointer] /\ prev \in [Slots -> Pointer]
  BY <1>3, <1>5
<1> HIDE DEF m, next, prev
<1>10. m \in Links
  <2>1. At(list, 2) \in Pointer
    BY <1>1
  <2> QED
    BY <1>3, <1>8, <1>9, <2>1 DEF Links
<1> QED
  BY <1>8, <1>10 DEF TakenOff, m, next, prev, before, after, s

LEMMA PopFireTakesOff ==
    ASSUME NEW l \in Links, NEW list, Distinct(list), FireLinked(l, list), list # <<>>
    PROVE  TakenOff(l, PopFire(l), list, 1) /\ l.first_fire = list[1]
<1> DEFINE n == Len(list)
           after == At(list, 2)
           m == PopFire(l)
           next == [t \in Slots |-> IF t = At(list, 1 - 1) THEN At(list, 1 + 1) ELSE l.next[t]]
           prev == [t \in Slots |-> IF t = At(list, 1 + 1) THEN At(list, 1 - 1) ELSE l.prev[t]]
<1>0. list \in Seq(Slots)
  BY DEF Distinct
<1>1. /\ n \in Nat /\ 1 \in 1 .. n
      /\ \A i \in Int : At(list, i) \in Pointer /\ (At(list, i) = NULL <=> i \notin 1 .. n)
      /\ \A i \in 1 .. n : At(list, i) = list[i] /\ list[i] \in Slots /\ list[i] # NULL
  <2>1. n \in Nat /\ n # 0
    BY <1>0
  <2> QED
    BY <2>1, AtFacts
<1>2. /\ l.first_fire = list[1] /\ l.next[l.first_fire] = after
      /\ At(list, 1 - 1) = NULL /\ At(list, 1 + 1) = after
  BY <1>1 DEF FireLinked, Linked
<1>3. /\ l.next \in [Slots -> Pointer] /\ l.prev \in [Slots -> Pointer]
      /\ l.first_fire \in Pointer /\ l.first_free \in Pointer
      /\ l = [next |-> l.next, prev |-> l.prev, first_fire |-> l.first_fire, first_free |-> l.first_free]
  BY DEF Links
<1>4. NULL \notin Slots /\ NULL \in Pointer /\ after \in Pointer /\ (after # NULL => after \in Slots)
  BY <1>1, SizeAssumption DEF Slots, NULL, Pointer
<1> HIDE DEF after
<1>5. /\ next = l.next
      /\ prev = IF after # NULL THEN [l.prev EXCEPT ![after] = NULL] ELSE l.prev
  BY <1>2, <1>3, <1>4
<1>6. m = IF after # NULL THEN [l EXCEPT !.first_fire = after, !.prev[after] = NULL]
                          ELSE [l EXCEPT !.first_fire = NULL]
  BY <1>2, Zenon DEF PopFire
<1> HIDE DEF m, next, prev
<1>7. m = [next |-> next, prev |-> prev, first_fire |-> after, first_free |-> l.first_free]
  <2>1. CASE after # NULL
    <3>1. m = [l EXCEPT !.first_fire = after, !.prev[after] = NULL]
          /\ prev = [l.prev EXCEPT ![after] = NULL]
      BY <1>5, <1>6, <2>1
    <3> QED
      BY <1>3, <1>5, <3>1
  <2>2. CASE after = NULL
    <3>1. m = [l EXCEPT !.first_fire = after] /\ prev = l.prev
      BY <1>5, <1>6, <2>2
    <3> QED
      BY <1>3, <1>5, <3>1
  <2> QED
    BY <2>1, <2>2
<1>8. next \in [Slots -> Pointer] /\ prev \in [Slots -> Pointer]
  BY <1>3, <1>4, <1>5
<1>9. m \in Links
  BY <1>3, <1>4, <1>7, <1>8 DEF Links
<1> QED
  BY <1>2, <1>7, <1>9 DEF TakenOff, m, next, prev, after
-----------------------------------------------------------------------------
(* The same operations, with the free list: no operation on one list       *)
(* disturbs the other.                                                     *)

\* No descriptor is on both lists, or twice on one.
Apart(onFire, onFree) ==
    Distinct(onFire) /\ Distinct(onFree) /\ ToSet(onFire) \cap ToSet(onFree) = {}

LEMMA InsertThreads ==
    ASSUME NEW l, NEW f, NEW e, Threaded(l, f, e), Apart(f, e),
           NEW s \in Slots, s \notin ToSet(f), s \notin ToSet(e), NEW expiry \in [Slots -> Nat],
           NEW p, InsertHere(f, s, expiry, p)
    PROVE  Threaded(InsertEvent(l, s, expiry), InsertAt(f, p, s), e)
<1> DEFINE m == InsertEvent(l, s, expiry)
<1>1. l \in Links /\ Distinct(f) /\ Distinct(e) /\ FireLinked(l, f) /\ Linked(l.first_free, l.next, e)
  BY DEF Threaded, Apart
<1>2. LinkedIn(l, m, f, p, s)
  BY <1>1, InsertLinksIn
<1> HIDE DEF m
<1>3. FireLinked(m, InsertAt(f, p, s))
  BY <1>1, <1>2, LinkedInIs DEF InsertHere
<1>4. ASSUME NEW t \in ToSet(e) PROVE m.next[t] = l.next[t]
  <2>1. t \in Slots /\ t # s
    BY <1>1 DEF Distinct, ToSet
  <2>2. t # NULL
    BY <2>1, SizeAssumption DEF Slots, NULL
  <2>3. t # At(f, p - 1)
    <3>1. \A i \in 1 .. Len(f) : f[i] \in ToSet(f)
      BY <1>1 DEF Distinct, ToSet
    <3> QED
      BY <2>2, <3>1 DEF Apart, At
  <2> QED
    BY <1>2, <2>1, <2>3 DEF LinkedIn
<1>5. Linked(m.first_free, m.next, e)
  <2>1. m.first_free = l.first_free
    BY <1>2 DEF LinkedIn
  <2> QED
    BY <1>1, <1>4, <2>1, SameLinked
<1> QED
  BY <1>2, <1>3, <1>5 DEF Threaded, LinkedIn, m

LEMMA TakenOffThreads ==
    ASSUME NEW l, NEW f, NEW e, Threaded(l, f, e), Apart(f, e),
           NEW p \in 1 .. Len(f), NEW m, TakenOff(l, m, f, p), NEW r, FireLinked(m, r)
    PROVE  Threaded(m, r, e)
<1>1. Distinct(f) /\ Distinct(e) /\ Linked(l.first_free, l.next, e)
  BY DEF Threaded, Apart
<1>2. ASSUME NEW t \in ToSet(e) PROVE m.next[t] = l.next[t]
  <2>1. t \in Slots
    BY <1>1 DEF Distinct, ToSet
  <2>2. t # NULL
    BY <2>1, SizeAssumption DEF Slots, NULL
  <2>3. t # At(f, p - 1)
    <3>1. \A i \in 1 .. Len(f) : f[i] \in ToSet(f)
      BY <1>1 DEF Distinct, ToSet
    <3> QED
      BY <2>2, <3>1 DEF Apart, At
  <2> QED
    BY <2>1, <2>3 DEF TakenOff
<1>3. Linked(m.first_free, m.next, e)
  <2>1. m.first_free = l.first_free
    BY DEF TakenOff
  <2> QED
    BY <1>1, <1>2, <2>1, SameLinked
<1> QED
  BY <1>3 DEF Threaded, TakenOff

LEMMA UnlinkThreads ==
    ASSUME NEW l, NEW f, NEW e, Threaded(l, f, e), Apart(f, e), NEW p \in 1 .. Len(f)
    PROVE  Threaded(Unlink(l, f[p]), RemoveAt(f, p), e)
<1> DEFINE m == Unlink(l, f[p])
           r == RemoveAt(f, p)
<1>1. l \in Links /\ Distinct(f) /\ f \in Seq(Slots) /\ FireLinked(l, f)
  BY DEF Threaded, Apart, Distinct
<1>2. TakenOff(l, m, f, p)
  BY <1>1, UnlinkTakesOff
<1>3. Len(r) = Len(f) - 1
  BY <1>1, RemoveAtProperties
<1>4. ASSUME NEW i \in 1 .. Len(f) - 1 PROVE r[i] = IF i < p THEN f[i] ELSE f[i + 1]
  BY <1>1, RemoveAtProperties
<1> HIDE DEF m, r
<1>5. FireLinked(m, r)
  BY <1>1, <1>2, <1>3, <1>4, TakenOffIs
<1>6. Threaded(m, r, e)
  BY <1>2, <1>5, TakenOffThreads
<1> QED
  BY <1>6 DEF m, r

LEMMA PopFireThreads ==
    ASSUME NEW l, NEW f, NEW e, Threaded(l, f, e), Apart(f, e), f # <<>>
    PROVE  Threaded(PopFire(l), Tail(f), e) /\ l.first_fire = Head(f)
<1> DEFINE m == PopFire(l)
           r == Tail(f)
<1>1. l \in Links /\ Distinct(f) /\ f \in Seq(Slots) /\ FireLinked(l, f) /\ IsInjective(f)
  BY DEF Threaded, Apart, Distinct
<1>2. TakenOff(l, m, f, 1) /\ l.first_fire = f[1]
  BY <1>1, PopFireTakesOff
<1>3. /\ Len(f) \in Nat \ {0} /\ Head(f) = f[1] /\ Len(r) = Len(f) - 1
      /\ \A i \in 1 .. Len(f) - 1 : r[i] = f[i + 1]
  BY <1>1
<1> HIDE DEF m, r
<1>4. 1 \in 1 .. Len(f) /\ \A i \in 1 .. Len(f) - 1 : r[i] = IF i < 1 THEN f[i] ELSE f[i + 1]
  BY <1>3
<1>5. FireLinked(m, r)
  BY <1>1, <1>2, <1>3, <1>4, TakenOffIs
<1>6. Threaded(m, r, e)
  BY <1>2, <1>4, <1>5, TakenOffThreads
<1> QED
  BY <1>2, <1>3, <1>6 DEF m, r

\* The push on the free list overwrites next of a descriptor that is on none.
LEMMA PushFreeThreads ==
    ASSUME NEW l, NEW f, NEW e, Threaded(l, f, e), Apart(f, e),
           NEW s \in Slots, s \notin ToSet(f), s \notin ToSet(e)
    PROVE  Threaded(PushFree(l, s), f, <<s>> \o e)
<1> DEFINE m == PushFree(l, s)
           r == <<s>> \o e
<1>1. l \in Links /\ Distinct(f) /\ Distinct(e) /\ FireLinked(l, f) /\ Linked(l.first_free, l.next, e)
  BY DEF Threaded, Apart
<1>2. /\ l.next \in [Slots -> Pointer] /\ l.prev \in [Slots -> Pointer]
      /\ l.first_fire \in Pointer /\ l.first_free \in Pointer
      /\ l = [next |-> l.next, prev |-> l.prev, first_fire |-> l.first_fire, first_free |-> l.first_free]
  BY <1>1 DEF Links
<1>3. m = [next |-> [l.next EXCEPT ![s] = l.first_free], prev |-> l.prev,
           first_fire |-> l.first_fire, first_free |-> s]
  <2>1. m = [l EXCEPT !.next[s] = l.first_free, !.first_free = s]
    BY Zenon DEF PushFree
  <2> HIDE DEF m
  <2> QED
    BY <1>2, <2>1
<1> HIDE DEF m
<1>4. m \in Links
  BY <1>2, <1>3 DEF Links, Pointer
<1>5. \A t \in Slots : m.next[t] = IF t = s THEN l.first_free ELSE l.next[t]
  BY <1>2, <1>3
<1>6. FireLinked(m, f)
  <2>1. \A t \in ToSet(f) : m.next[t] = l.next[t]
    BY <1>1, <1>5 DEF Distinct, ToSet
  <2>2. Linked(m.first_fire, m.next, f)
    BY <1>1, <1>3, <2>1, SameLinked DEF FireLinked
  <2> QED
    BY <1>1, <1>3, <2>2 DEF FireLinked
<1>7. /\ Len(r) = Len(e) + 1 /\ Len(e) \in Nat
      /\ \A i \in 1 .. Len(e) + 1 : r[i] = IF i = 1 THEN s ELSE e[i - 1]
  <2>1. e \in Seq(Slots)
    BY <1>1 DEF Distinct
  <2> QED
    BY <2>1
<1> HIDE DEF r
<1>8. At(r, 1) = s /\ \A i \in 1 .. Len(e) + 1 : At(r, i + 1) = At(e, i)
  BY <1>7 DEF At
<1>9. ASSUME NEW i \in 1 .. Len(r) PROVE m.next[r[i]] = At(r, i + 1)
  <2>1. CASE i = 1
    BY <1>1, <1>5, <1>7, <1>8, <2>1 DEF Linked
  <2>2. CASE i # 1
    <3>1. i - 1 \in 1 .. Len(e) /\ r[i] = e[i - 1] /\ (i - 1) + 1 = i /\ i \in 1 .. Len(e) + 1
      BY <1>7, <2>2
    <3>2. e[i - 1] \in Slots /\ e[i - 1] # s
      BY <1>1, <3>1 DEF Distinct, ToSet
    <3>3. l.next[e[i - 1]] = At(e, i)
      BY <1>1, <3>1 DEF Linked
    <3> QED
      BY <1>5, <1>8, <3>1, <3>2, <3>3
  <2> QED
    BY <2>1, <2>2
<1>10. Linked(m.first_free, m.next, r)
  BY <1>3, <1>8, <1>9 DEF Linked
<1> QED
  BY <1>4, <1>6, <1>10 DEF Threaded, m, r

LEMMA PopFreeThreads ==
    ASSUME NEW l, NEW f, NEW e, Threaded(l, f, e), Apart(f, e), e # <<>>
    PROVE  Threaded(PopFree(l), f, Tail(e)) /\ l.first_free = Head(e) /\ l.first_free # NULL
<1> DEFINE m == PopFree(l)
           r == Tail(e)
<1>1. l \in Links /\ Distinct(e) /\ e \in Seq(Slots) /\ FireLinked(l, f) /\ Linked(l.first_free, l.next, e)
  BY DEF Threaded, Apart, Distinct
<1>2. /\ l.next \in [Slots -> Pointer] /\ l.prev \in [Slots -> Pointer]
      /\ l.first_fire \in Pointer /\ l.first_free \in Pointer
      /\ l = [next |-> l.next, prev |-> l.prev, first_fire |-> l.first_fire, first_free |-> l.first_free]
  BY <1>1 DEF Links
<1>3. /\ Len(e) \in Nat \ {0} /\ Head(e) = e[1] /\ Len(r) = Len(e) - 1 /\ e[1] \in Slots
      /\ \A i \in 1 .. Len(e) - 1 : r[i] = e[i + 1]
  BY <1>1
<1> HIDE DEF r
<1>4. l.first_free = e[1] /\ l.next[e[1]] = At(e, 2) /\ e[1] # NULL
  <2>1. 1 \in 1 .. Len(e)
    BY <1>3
  <2> QED
    BY <1>1, <2>1, AtFacts DEF Linked
<1>5. \A i \in 1 .. Len(e) : At(r, i) = At(e, i + 1)
  BY <1>3 DEF At
<1>6. m = [next |-> l.next, prev |-> l.prev, first_fire |-> l.first_fire, first_free |-> At(e, 2)]
  BY <1>2, <1>4 DEF PopFree
<1> HIDE DEF m
<1>7. m \in Links
  BY <1>2, <1>3, <1>4, <1>6 DEF Links
<1>8. FireLinked(m, f)
  BY <1>1, <1>6 DEF FireLinked
<1>9. Linked(m.first_free, m.next, r)
  <2>1. m.first_free = At(r, 1)
    BY <1>3, <1>5, <1>6
  <2>2. ASSUME NEW i \in 1 .. Len(r) PROVE m.next[r[i]] = At(r, i + 1)
    <3>1. i + 1 \in 1 .. Len(e) /\ r[i] = e[i + 1] /\ At(r, i + 1) = At(e, (i + 1) + 1)
      BY <1>3, <1>5
    <3> QED
      BY <1>1, <1>6, <3>1 DEF Linked
  <2> QED
    BY <2>1, <2>2 DEF Linked
<1> QED
  BY <1>3, <1>4, <1>7, <1>8, <1>9 DEF Threaded, m, r
-----------------------------------------------------------------------------
(* The steps of EventList.                                                 *)

LEMMA ListsApart ==
    ASSUME TypeOK, ListsPartitionSlots
    PROVE  /\ Apart(fire, free) /\ expired_clock \in [Slots -> Nat]
           /\ ToSet(fire) = {s \in Slots : active[s]} /\ ToSet(free) = {s \in Slots : ~active[s]}
  BY DEF TypeOK, ListsPartitionSlots, Apart, Distinct

LEMMA InitThreads == LInit => Threaded(links, fire, free)
<1> SUFFICES ASSUME LInit PROVE Threaded(links, fire, free)
  OBVIOUS
<1> DEFINE n == [s \in Slots |-> IF s + 1 < MAX_EVENT THEN s + 1 ELSE NULL]
<1>1. /\ fire = <<>> /\ free = [i \in 1 .. MAX_EVENT |-> i - 1]
      /\ links = [next |-> n, prev |-> [s \in Slots |-> NULL], first_fire |-> NULL, first_free |-> 0]
  BY DEF LInit, Init
<1>2. MAX_EVENT \in Nat \ {0}
  BY SizeAssumption
<1>3. 0 \in Slots /\ NULL \in Pointer
  BY <1>2 DEF Slots, Pointer
<1>4. n \in [Slots -> Pointer]
  <2>1. ASSUME NEW s \in Slots PROVE (IF s + 1 < MAX_EVENT THEN s + 1 ELSE NULL) \in Pointer
    BY <1>2 DEF Slots, Pointer
  <2> QED
    BY <2>1
<1>5. links \in Links
  <2> HIDE DEF n
  <2> QED
    BY <1>1, <1>3, <1>4 DEF Links, Pointer
<1>6. FireLinked(links, fire)
  BY <1>1 DEF FireLinked, Linked, At
<1>7. Len(free) = MAX_EVENT /\ \A i \in 1 .. MAX_EVENT : free[i] = i - 1
  BY <1>1, <1>2
<1>8. Linked(links.first_free, links.next, free)
  <2>1. links.first_free = At(free, 1)
    BY <1>1, <1>2, <1>7 DEF At
  <2>2. ASSUME NEW i \in 1 .. Len(free) PROVE links.next[free[i]] = At(free, i + 1)
    <3>1. free[i] = i - 1 /\ i - 1 \in Slots
      BY <1>2, <1>7 DEF Slots
    <3>2. n[i - 1] = IF i < MAX_EVENT THEN i ELSE NULL
      BY <1>2, <1>7, <3>1
    <3>3. At(free, i + 1) = IF i < MAX_EVENT THEN i ELSE NULL
      BY <1>2, <1>7 DEF At
    <3> QED
      BY <1>1, <3>1, <3>2, <3>3
  <2> QED
    BY <2>1, <2>2 DEF Linked
<1> QED
  BY <1>5, <1>6, <1>8 DEF Threaded

LEMMA ReleaseThreads ==
    ASSUME TypeOK, ListsPartitionSlots, Threaded(links, fire, free),
           NEW s \in Slots, Release(s), CancelSlot(s)
    PROVE  Threaded(links', fire', free')
<1>1. /\ Apart(fire, free) /\ fire \in Seq(Slots) /\ IsInjective(fire)
      /\ ToSet(fire) \cap ToSet(free) = {} /\ Distinct(free)
  BY ListsApart DEF Apart, Distinct
<1>2. PICK p \in 1 .. Len(fire) : fire[p] = s /\ fire' = RemoveAt(fire, p)
  BY DEF Release
<1>3. Threaded(Unlink(links, s), fire', free)
  BY <1>1, <1>2, UnlinkThreads
<1>4. fire' \in Seq(Slots) /\ IsInjective(fire') /\ ToSet(fire') = ToSet(fire) \ {s}
  BY <1>1, <1>2, RemoveAtProperties, RemoveAtRange
<1>5. Apart(fire', free)
  BY <1>1, <1>4 DEF Apart, Distinct
<1>6. s \in ToSet(fire)
  BY <1>1, <1>2 DEF ToSet
<1>7. Threaded(PushFree(Unlink(links, s), s), fire', <<s>> \o free)
  BY <1>1, <1>3, <1>4, <1>5, <1>6, PushFreeThreads
<1> QED
  BY <1>7 DEF Release, CancelSlot

\* The expiry is written before the descriptor is linked in.
LEMMA SamePosition ==
    ASSUME NEW list, Distinct(list), NEW s \in Slots, s \notin ToSet(list),
           expired_clock \in [Slots -> Nat], NEW expiry,
           expired_clock' = [expired_clock EXCEPT ![s] = expiry],
           NEW p, InsertPosition(list, expiry, p)
    PROVE  InsertHere(list, s, expired_clock', p)
<1>1. expired_clock'[s] = expiry
  OBVIOUS
<1>2. ASSUME NEW i \in 1 .. Len(list) PROVE expired_clock'[list[i]] = expired_clock[list[i]]
  BY DEF Distinct, ToSet
<1>3. (\A i \in 1 .. p - 1 : i \in 1 .. Len(list)) /\ (p <= Len(list) => p \in 1 .. Len(list))
  BY AtFacts DEF InsertPosition
<1> QED
  BY <1>1, <1>2, <1>3 DEF InsertPosition, InsertHere

LEMMA RegisterThreads ==
    ASSUME TypeOK, ListsPartitionSlots, Threaded(links, fire, free), NEW c \in Clients, LRegister(c),
           TypeOK'
    PROVE  Threaded(links', fire', free')
<1>1. PICK clock, loop, accum : Register(c, clock, loop, accum)
  BY DEF LRegister, RegisterEvent, RegisterEventByClock
<1>2. Apart(fire, free) /\ Distinct(free)
  BY ListsApart DEF Apart
<1>3. CASE free = <<>>
  <2>1. UNCHANGED lists
    BY <1>1, <1>3 DEF Register
  <2>2. links.first_free = NULL
    BY <1>3 DEF Threaded, Linked, At
  <2>3. links' = links
    BY <2>2 DEF LRegister
  <2> QED
    BY <2>1, <2>3 DEF lists
<1>4. CASE free # <<>>
  <2> DEFINE s == Head(free)
             expiry == event_clocks + clock
             m == PopFree(links)
  <2>1. PICK p \in 1 .. Len(fire) + 1 :
          InsertPosition(fire, expiry, p) /\ fire' = InsertAt(fire, p, s)
    BY <1>1, <1>4 DEF Register
  <2>2. free' = Tail(free) /\ expired_clock' = [expired_clock EXCEPT ![s] = expiry]
    BY <1>1, <1>4 DEF Register
  <2>3. Threaded(m, fire, Tail(free)) /\ links.first_free = s /\ links.first_free # NULL
    BY <1>2, <1>4, PopFreeThreads
  <2>4. links' = InsertEvent(m, s, expired_clock')
    BY <2>3 DEF LRegister
  <2>5. /\ s \in Slots /\ s \in ToSet(free) /\ Tail(free) \in Seq(Slots)
        /\ IsInjective(Tail(free)) /\ ToSet(Tail(free)) = ToSet(free) \ {s}
    BY <1>2, <1>4, TailRange DEF Distinct
  <2> HIDE DEF s, expiry, m
  <2>6. Apart(fire, Tail(free)) /\ s \notin ToSet(fire) /\ s \notin ToSet(Tail(free))
    BY <1>2, <2>5 DEF Apart, Distinct
  <2>7. expired_clock' \in [Slots -> Nat] /\ expired_clock \in [Slots -> Nat]
    BY DEF TypeOK
  <2>8. InsertHere(fire, s, expired_clock', p)
    BY <2>1, <2>2, <2>5, <2>6, <2>7, SamePosition DEF Apart
  <2>9. Threaded(InsertEvent(m, s, expired_clock'), InsertAt(fire, p, s), Tail(free))
    BY <2>3, <2>5, <2>6, <2>7, <2>8, InsertThreads
  <2> QED
    BY <2>1, <2>2, <2>4, <2>9
<1> QED
  BY <1>3, <1>4

\* The two ways an event fires.
LEMMA FireThreads ==
    ASSUME TypeOK, TypeOK', ListsPartitionSlots, Threaded(links, fire, free), LFireLoop \/ LFireOnce
    PROVE  Threaded(links', fire', free')
<1> DEFINE s == Head(fire)
           rest == Tail(fire)
           m == PopFire(links)
<1>1. fire # <<>>
  BY DEF LFireLoop, LFireOnce, FireLoop, FireOnce, Due
<1>2. Apart(fire, free) /\ fire \in Seq(Slots) /\ IsInjective(fire)
  BY ListsApart DEF Apart, Distinct
<1>3. Threaded(m, rest, free) /\ links.first_fire = s
  BY <1>1, <1>2, PopFireThreads
<1>4. /\ s \in Slots /\ s \in ToSet(fire) /\ rest \in Seq(Slots) /\ Len(rest) = Len(fire) - 1
      /\ Len(fire) \in Nat /\ IsInjective(rest) /\ ToSet(rest) = ToSet(fire) \ {s}
  BY <1>1, <1>2, TailRange
<1>5. CASE LFireOnce
  <2>1. fire' = rest /\ free' = <<s>> \o free
    BY <1>5 DEF LFireOnce, FireOnce
  <2>2. links' = PushFree(m, s)
    BY <1>3, <1>5 DEF LFireOnce
  <2> HIDE DEF s, rest, m
  <2>3. Apart(rest, free) /\ s \notin ToSet(rest) /\ s \notin ToSet(free)
    BY <1>2, <1>4 DEF Apart, Distinct
  <2>4. Threaded(PushFree(m, s), rest, <<s>> \o free)
    BY <1>3, <1>4, <2>3, PushFreeThreads
  <2> QED
    BY <2>1, <2>2, <2>4
<1>6. CASE LFireLoop
  <2> DEFINE next == expired_clock[s] + (accum_clocks[s] + loop_clock[s]) \div Scale
  <2>1. /\ expired_clock' = [expired_clock EXCEPT ![s] = next]
        /\ free' = free
    BY <1>6 DEF LFireLoop, FireLoop
  <2>2. PICK p \in 1 .. Len(fire) : InsertPosition(rest, next, p) /\ fire' = InsertAt(rest, p, s)
    BY <1>6 DEF LFireLoop, FireLoop
  <2>3. links' = InsertEvent(m, s, expired_clock')
    BY <1>3, <1>6 DEF LFireLoop
  <2> HIDE DEF s, rest, m, next
  <2>4. Apart(rest, free) /\ s \notin ToSet(rest) /\ s \notin ToSet(free)
    BY <1>2, <1>4 DEF Apart, Distinct
  <2>5. expired_clock' \in [Slots -> Nat] /\ expired_clock \in [Slots -> Nat]
    BY DEF TypeOK
  <2>6. InsertHere(rest, s, expired_clock', p)
    BY <1>4, <2>1, <2>2, <2>4, <2>5, SamePosition DEF Apart
  <2>7. Threaded(InsertEvent(m, s, expired_clock'), InsertAt(rest, p, s), free)
    BY <1>3, <1>4, <2>4, <2>5, <2>6, InsertThreads
  <2> QED
    BY <2>1, <2>2, <2>3, <2>7
<1> QED
  BY <1>5, <1>6

\* Every step leaves the pointers holding the lists.
LEMMA StepThreads ==
    ASSUME IInv, IInv', Threaded(links, fire, free), [LNext]_listVars
    PROVE  Threaded(links', fire', free')
<1>0. TypeOK /\ TypeOK' /\ ListsPartitionSlots
  BY DEF IInv
<1>1. ASSUME UNCHANGED <<lists, links>>
      PROVE  Threaded(links', fire', free')
  BY <1>1 DEF lists
<1>2. ASSUME NEW c \in Clients, LRegister(c)
      PROVE  Threaded(links', fire', free')
  BY <1>0, <1>2, RegisterThreads
<1>3. ASSUME NEW c \in Holders, LCancel(c)
      PROVE  Threaded(links', fire', free')
  <2>1. CASE IsOwner(c, client[register_id[c]]) /\ active[register_id[c]]
    <3>1. /\ register_id[c] \in Slots
          /\ Release(register_id[c]) /\ CancelSlot(register_id[c])
      BY <1>0, <1>3, <2>1 DEF LCancel, CancelEvent, TypeOK
    <3> QED
      BY <1>0, <3>1, ReleaseThreads
  <2>2. CASE ~(IsOwner(c, client[register_id[c]]) /\ active[register_id[c]])
    BY <1>1, <1>3, <2>2 DEF LCancel, CancelEvent
  <2> QED
    BY <2>1, <2>2
<1>4. CASE LResetSlot
  <2>1. CASE active[scan] /\ loop_clock[scan] = 0
    <3>1. scan \in Slots /\ Release(scan) /\ CancelSlot(scan)
      BY <1>0, <1>4, <2>1, SizeAssumption DEF LResetSlot, ResetSlot, TypeOK, Slots
    <3> QED
      BY <1>0, <3>1, ReleaseThreads
  <2>2. CASE ~(active[scan] /\ loop_clock[scan] = 0)
    BY <1>1, <1>4, <2>2 DEF LResetSlot, ResetSlot
  <2> QED
    BY <2>1, <2>2
<1>5. CASE LFireLoop \/ LFireOnce
  BY <1>0, <1>5, FireThreads
<1>6. CASE /\ \/ BeginUpdate \/ CallbackReturns \/ EndUpdate \/ BeginReset \/ EndReset
              \/ \E c \in Holders : ForgetId(c)
              \/ \E d \in Devices : ResetDevice(d)
           /\ UNCHANGED links
  BY <1>1, <1>6 DEF BeginUpdate, CallbackReturns, EndUpdate, BeginReset, EndReset, ForgetId, ResetDevice
<1>7. CASE UNCHANGED listVars
  BY <1>1, <1>7 DEF listVars, vars, lists
<1> QED
  BY <1>2, <1>3, <1>4, <1>5, <1>6, <1>7 DEF LNext

LEMMA ThreadedHoldLists ==
    ASSUME TypeOK, ListsPartitionSlots, Threaded(links, fire, free)
    PROVE  PointersHoldLists
<1>1. Distinct(fire) /\ Distinct(free)
  BY ListsApart DEF Apart
<1>2. Reached(links.first_fire, links.next) = fire /\ Reached(links.first_free, links.next) = free
  BY <1>1, ReachedIs DEF Threaded, FireLinked, Distinct
<1>3. ASSUME NEW i \in 1 .. Len(fire)
      PROVE  links.prev[fire[i]] = IF i = 1 THEN NULL ELSE fire[i - 1]
  <2>1. links.prev[fire[i]] = At(fire, i - 1)
    BY DEF Threaded, FireLinked
  <2>2. Len(fire) \in Nat
    BY <1>1, AtFacts
  <2> QED
    BY <2>1, <2>2 DEF At
<1> QED
  BY <1>2, <1>3 DEF PointersHoldLists, PrevInvertsNext

(***************************************************************************)
(* For any number of descriptors, any clients and any delays, the pointers *)
(* first_fire_event, first_free_event, next and prev hold exactly the two  *)
(* lists of EventQueue, and prev is the inverse of next along the fire     *)
(* list: insert_event() and cancel_event(), which follow these pointers,   *)
(* never meet a cycle, a lost descriptor or an old value of prev.          *)
(***************************************************************************)
THEOREM PointersAreLists == LSpec => []PointersHoldLists
<1> DEFINE LInv == IInv /\ Threaded(links, fire, free)
<1>1. LInit => LInv
  BY InitIInv, InitThreads DEF LInit
<1>2. LInv /\ [LNext]_listVars => LInv'
  <2>1. [LNext]_listVars => [Next]_vars
    BY DEF LNext, LRegister, LCancel, LResetSlot, LFireLoop, LFireOnce, Next, listVars
  <2>2. IInv /\ [LNext]_listVars => IInv'
    BY <2>1, NextIInv
  <2> QED
    BY <2>2, StepThreads
<1>3. LInv => PointersHoldLists
  BY ThreadedHoldLists DEF IInv
<1> QED
  BY <1>1, <1>2, <1>3, PTL DEF LSpec
=============================================================================
