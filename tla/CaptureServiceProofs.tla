------------------------ MODULE CaptureServiceProofs ------------------------
(***************************************************************************)
(* The backend's jobs, staging directories, answers and documents agree,   *)
(* for any number of uploads, worker threads and documents held; and the   *)
(* store keeps its promise: CaptureStore implements RecentCaptures for     *)
(* every set of ids and every capacity.                                    *)
(***************************************************************************)
EXTENDS CaptureService, SequenceTheorems, FiniteSetTheorems, TLAPS

-----------------------------------------------------------------------------
(* The store                                                                *)

\* What the statements below say of a sequence of ids.

ItemsOf(s) == {s[i] : i \in DOMAIN s}

NoRepeat(s) == \A i, j \in DOMAIN s : s[i] = s[j] => i = j

PlaceIn(s, id) == CHOOSE i \in DOMAIN s : s[i] = id

After(s, i) == {s[j] : j \in (i + 1) .. Len(s)}

SinceOf(s) == [id \in ItemsOf(s) |-> After(s, PlaceIn(s, id))]

-----------------------------------------------------------------------------
(* Moving and evicting                                                      *)

LEMMA PlaceInOrder ==
  ASSUME NEW id \in Held
  PROVE  Place(id) \in DOMAIN order /\ order[Place(id)] = id
  BY DEF Held, Place

LEMMA MovedTypes ==
  ASSUME order \in Seq(Id), NEW id \in Id
  PROVE  /\ Moved(id) \in Seq(Id)
         /\ Len(Moved(id)) = IF id \in Held THEN Len(order) ELSE Len(order) + 1
         /\ ItemsOf(Moved(id)) = Held \cup {id}
<1>1. CASE id \notin Held
  <2>1. Moved(id) = Append(order, id)
    BY <1>1 DEF Moved
  <2>2. /\ Moved(id) \in Seq(Id)
        /\ Len(Moved(id)) = Len(order) + 1
        /\ \A i \in 1 .. Len(order) : Moved(id)[i] = order[i]
        /\ Moved(id)[Len(order) + 1] = id
    BY <2>1, AppendProperties
  <2>3. DOMAIN Moved(id) = 1 .. (Len(order) + 1) /\ DOMAIN order = 1 .. Len(order)
        /\ Len(order) \in Nat
    BY <2>2, LenProperties
  <2>4. ItemsOf(Moved(id)) \subseteq Held \cup {id}
    BY <2>2, <2>3 DEF Held, ItemsOf
  <2>5. Held \cup {id} \subseteq ItemsOf(Moved(id))
    BY <2>2, <2>3 DEF Held, ItemsOf
  <2> QED
    BY <1>1, <2>2, <2>4, <2>5
<1>2. CASE id \in Held
  <2> DEFINE n == Len(order)
             k == Place(id)
             s == Moved(id)
  <2>1. n \in Nat /\ k \in 1 .. n /\ order[k] = id /\ DOMAIN order = 1 .. n
    BY <1>2, PlaceInOrder, LenProperties
  <2>2. s = [i \in 1 .. n |-> IF i < k THEN order[i] ELSE IF i < n THEN order[i + 1] ELSE id]
    BY <1>2 DEF Moved
  <2>3. s \in [1 .. n -> Id]
    BY <2>1, <2>2, ElementOfSeq
  <2>4. s \in Seq(Id) /\ Len(s) = n /\ DOMAIN s = 1 .. n
    BY <2>1, <2>3
  <2>5. ItemsOf(s) \subseteq Held
    BY <1>2, <2>1, <2>2, <2>4 DEF ItemsOf, Held
  <2>6. ASSUME NEW i \in 1 .. n PROVE order[i] \in ItemsOf(s)
    <3>1. CASE i < k
      BY <2>1, <2>2, <2>4, <3>1 DEF ItemsOf
    <3>2. CASE i = k
      <4>1. s[n] = id /\ n \in 1 .. n
        BY <2>1, <2>2
      <4> QED
        BY <2>1, <2>4, <3>2, <4>1 DEF ItemsOf
    <3>3. CASE i > k
      <4>1. i - 1 \in 1 .. n /\ s[i - 1] = order[i]
        BY <2>1, <2>2, <3>3
      <4> QED
        BY <2>4, <4>1 DEF ItemsOf
    <3> QED
      BY <2>1, <3>1, <3>2, <3>3
  <2> QED
    BY <1>2, <2>1, <2>4, <2>5, <2>6 DEF Held
<1> QED
  BY <1>1, <1>2

LEMMA EvictedTypes ==
  ASSUME NEW s \in Seq(Id), Capacity \in Nat \ {0}
  PROVE  LET d == IF Len(s) > Capacity THEN Len(s) - Capacity ELSE 0
         IN  /\ Evicted(s) \in Seq(Id)
             /\ Len(Evicted(s)) = Len(s) - d
             /\ \A i \in 1 .. Len(s) - d : Evicted(s)[i] = s[i + d]
<1>1. CASE Len(s) > Capacity
  <2>1. /\ Len(s) - Capacity + 1 \in Int /\ Len(s) \in Int
        /\ \A i \in (Len(s) - Capacity + 1) .. Len(s) : s[i] \in Id
    BY <1>1, ElementOfSeq, LenProperties
  <2> DEFINE m == Len(s) - Capacity + 1
             e == SubSeq(s, m, Len(s))
  <2>2. /\ e \in Seq(Id)
        /\ Len(e) = IF m <= Len(s) THEN Len(s) - m + 1 ELSE 0
        /\ \A i \in 1 .. Len(s) - m + 1 : e[i] = s[m + i - 1]
    BY <2>1, SubSeqProperties
  <2>3. Evicted(s) = e
    BY <1>1 DEF Evicted
  <2>4. Len(s) - m + 1 = Capacity /\ m <= Len(s)
    BY <2>1
  <2>5. \A i \in 1 .. Capacity : m + i - 1 = i + (Len(s) - Capacity)
    BY <2>1
  <2> QED
    BY <1>1, <2>1, <2>2, <2>3, <2>4, <2>5
<1>2. CASE ~(Len(s) > Capacity)
  BY <1>2 DEF Evicted
<1> QED
  BY <1>1, <1>2

\* A sequence without repetition has as many items after a place as places.
LEMMA AfterSize ==
  ASSUME NEW s \in Seq(Id), NoRepeat(s), NEW i \in 0 .. Len(s)
  PROVE  IsFiniteSet(After(s, i)) /\ Cardinality(After(s, i)) = Len(s) - i
<1> DEFINE T == (i + 1) .. Len(s)
           f == [j \in T |-> s[j]]
<1>1. Len(s) \in Nat /\ DOMAIN s = 1 .. Len(s)
  BY LenProperties
<1>2. IsFiniteSet(T) /\ Cardinality(T) = Len(s) - i
  <2>1. i + 1 \in Int /\ Len(s) \in Int /\ i <= Len(s)
    BY <1>1
  <2>2. /\ IsFiniteSet((i + 1) .. Len(s))
        /\ Cardinality((i + 1) .. Len(s)) =
             IF i + 1 > Len(s) THEN 0 ELSE Len(s) - (i + 1) + 1
    BY <2>1, FS_Interval
  <2> QED
    BY <1>1, <2>1, <2>2
<1>3. f \in [T -> After(s, i)]
  BY DEF After
<1>4. \A j, k \in T : f[j] = f[k] => j = k
  BY <1>1 DEF NoRepeat
<1>5. \A x \in After(s, i) : \E j \in T : f[j] = x
  BY DEF After
<1> HIDE DEF f, T
<1>6. f \in Bijection(T, After(s, i))
  BY <1>3, <1>4, <1>5 DEF Bijection, Injection, Surjection, IsInjective
<1>7. ExistsBijection(T, After(s, i))
  BY <1>6 DEF ExistsBijection
<1> QED
  BY <1>2, <1>7, FS_Bijection

LEMMA PlaceOf ==
  ASSUME NEW s \in Seq(Id), NoRepeat(s), NEW i \in DOMAIN s
  PROVE  PlaceIn(s, s[i]) = i
  BY DEF PlaceIn, NoRepeat

LEMMA SinceIs == Since = SinceOf(order)
  BY DEF Since, SinceOf, Held, ItemsOf, After, Place, PlaceIn

-----------------------------------------------------------------------------
(* The order after a move                                                   *)

\* Where the ids stand after id was moved to the end.
LEMMA MovedPlaces ==
  ASSUME order \in Seq(Id), NoRepeat(order), NEW id \in Id
  PROVE  LET s == Moved(id)
         IN  /\ NoRepeat(s)
             /\ s[Len(s)] = id
             /\ \A i \in 1 .. Len(s) - 1 :
                  /\ s[i] \in Held \ {id}
                  /\ After(s, i) = Since[s[i]] \cup {id}
<1> DEFINE n == Len(order)
           s == Moved(id)
<1>0. n \in Nat /\ DOMAIN order = 1 .. n
  BY LenProperties
<1>1. CASE id \notin Held
  <2>1. s = Append(order, id)
    BY <1>1 DEF Moved
  <2>2. /\ s \in Seq(Id)
        /\ Len(s) = n + 1
        /\ \A i \in 1 .. n : s[i] = order[i]
        /\ s[n + 1] = id
    BY <2>1, AppendProperties
  <2>3. DOMAIN s = 1 .. (n + 1)
    BY <2>2, LenProperties
  <2>4. NoRepeat(s)
    BY <1>0, <1>1, <2>2, <2>3 DEF NoRepeat, Held
  <2>5. ASSUME NEW i \in 1 .. n
        PROVE  s[i] \in Held \ {id} /\ After(s, i) = Since[s[i]] \cup {id}
    <3>1. s[i] = order[i] /\ s[i] \in Held /\ s[i] # id
      BY <1>0, <1>1, <2>2 DEF Held
    <3>2. Since[s[i]] = After(order, i)
      BY <1>0, <3>1, SinceIs, PlaceOf DEF SinceOf, ItemsOf, Held
    <3>3. After(s, i) = After(order, i) \cup {id}
      BY <1>0, <2>2 DEF After
    <3> QED
      BY <3>1, <3>2, <3>3
  <2> QED
    BY <1>0, <2>2, <2>4, <2>5
<1>2. CASE id \in Held
  <2> DEFINE k == Place(id)
  <2>1. k \in 1 .. n /\ order[k] = id
    BY <1>0, <1>2, PlaceInOrder
  <2>2. s = [i \in 1 .. n |-> IF i < k THEN order[i] ELSE IF i < n THEN order[i + 1] ELSE id]
    BY <1>2 DEF Moved
  <2>3. s \in Seq(Id) /\ Len(s) = n /\ DOMAIN s = 1 .. n
    BY <1>2, <1>0, MovedTypes, LenProperties
  <2> HIDE DEF s, k
  <2>4. /\ \A i \in 1 .. n : i < k => s[i] = order[i]
        /\ \A i \in 1 .. n : k <= i /\ i < n => s[i] = order[i + 1]
        /\ s[n] = id
    BY <1>0, <2>1, <2>2
  <2>5. NoRepeat(s)
    <3> SUFFICES ASSUME NEW i \in 1 .. n, NEW j \in 1 .. n, i < j PROVE s[i] # s[j]
      BY <1>0, <2>3 DEF NoRepeat
    <3>1. \A a, b \in 1 .. n : order[a] = order[b] => a = b
      BY <1>0 DEF NoRepeat
    <3>2. CASE j = n
      BY <1>0, <2>1, <2>4, <3>1, <3>2
    <3>3. CASE j < n
      <4>1. CASE j < k
        BY <1>0, <2>1, <2>4, <3>1, <3>3, <4>1
      <4>2. CASE k <= j
        <5>1. s[j] = order[j + 1] /\ j + 1 \in 1 .. n
          BY <1>0, <2>1, <2>4, <3>3, <4>2
        <5>2. s[i] = order[i] \/ (s[i] = order[i + 1] /\ i + 1 \in 1 .. n)
          BY <1>0, <2>1, <2>4, <3>3
        <5> QED
          BY <1>0, <3>1, <5>1, <5>2
      <4> QED
        BY <1>0, <2>1, <4>1, <4>2
    <3>4. j = n \/ j < n
      <4>1. n \in Int /\ j \in Int /\ j <= n
        BY <1>0
      <4> HIDE DEF n
      <4> QED
        BY <4>1
    <3> QED
      BY <3>2, <3>3, <3>4
  <2>6. ASSUME NEW i \in 1 .. n - 1
        PROVE  s[i] \in Held \ {id} /\ After(s, i) = Since[s[i]] \cup {id}
    <3>1. CASE i < k
      <4>1. s[i] = order[i] /\ s[i] \in Held /\ s[i] # id
        BY <1>0, <2>1, <2>4, <3>1 DEF Held, NoRepeat
      <4>2. Since[s[i]] = After(order, i)
        BY <1>0, <4>1, SinceIs, PlaceOf DEF SinceOf, ItemsOf, Held
      <4>3. After(s, i) \subseteq After(order, i) \cup {id}
        BY <1>0, <2>1, <2>3, <2>4, <3>1 DEF After
      <4>4. ASSUME NEW x \in After(order, i) \cup {id} PROVE x \in After(s, i)
        <5>1. CASE x = id
          BY <1>0, <2>3, <2>4, <5>1 DEF After
        <5>2. CASE x # id
          <6>1. PICK j \in (i + 1) .. n : x = order[j]
            BY <4>4, <5>2 DEF After
          <6>2. CASE j < k
            BY <1>0, <2>1, <2>3, <2>4, <6>1, <6>2 DEF After
          <6>3. CASE j > k
            <7>1. j - 1 \in (i + 1) .. n /\ s[j - 1] = order[j]
              BY <1>0, <2>1, <2>4, <3>1, <6>3
            <7> QED
              BY <2>3, <6>1, <7>1 DEF After
          <6> QED
            BY <1>0, <2>1, <5>2, <6>1, <6>2, <6>3
        <5> QED
          BY <5>1, <5>2
      <4> QED
        BY <4>1, <4>2, <4>3, <4>4
    <3>2. CASE k <= i
      <4>1. i + 1 \in 1 .. n /\ s[i] = order[i + 1] /\ s[i] \in Held /\ s[i] # id
        BY <1>0, <2>1, <2>4, <3>2 DEF Held, NoRepeat
      <4>2. Since[s[i]] = After(order, i + 1)
        BY <1>0, <4>1, SinceIs, PlaceOf DEF SinceOf, ItemsOf, Held
      <4>3. After(s, i) \subseteq After(order, i + 1) \cup {id}
        BY <1>0, <2>1, <2>3, <2>4, <3>2 DEF After
      <4>4. ASSUME NEW x \in After(order, i + 1) \cup {id} PROVE x \in After(s, i)
        <5>1. CASE x = id
          BY <1>0, <2>3, <2>4, <5>1 DEF After
        <5>2. CASE x # id
          <6>1. PICK j \in (i + 2) .. n : x = order[j]
            BY <4>4, <5>2 DEF After
          <6>2. j - 1 \in (i + 1) .. n /\ s[j - 1] = order[j]
            BY <1>0, <2>1, <2>4, <3>2
          <6> QED
            BY <2>3, <6>1, <6>2 DEF After
        <5> QED
          BY <5>1, <5>2
      <4> QED
        BY <4>1, <4>2, <4>3, <4>4
    <3> QED
      BY <1>0, <2>1, <3>1, <3>2
  <2> QED
    BY <2>3, <2>4, <2>5, <2>6 DEF s
<1> QED
  BY <1>1, <1>2

LEMMA EvictedNoRepeat ==
  ASSUME NEW s \in Seq(Id), NoRepeat(s)
  PROVE  /\ Evicted(s) \in Seq(Id)
         /\ NoRepeat(Evicted(s))
         /\ Len(Evicted(s)) <= Capacity
<1> DEFINE d == IF Len(s) > Capacity THEN Len(s) - Capacity ELSE 0
<1>1. Len(s) \in Nat /\ DOMAIN s = 1 .. Len(s) /\ d \in Nat /\ Len(s) - d <= Capacity
  BY LenProperties, CapacityAssumption
<1>2. /\ Evicted(s) \in Seq(Id)
      /\ Len(Evicted(s)) = Len(s) - d
      /\ \A i \in 1 .. Len(s) - d : Evicted(s)[i] = s[i + d]
  BY EvictedTypes, CapacityAssumption
<1>3. DOMAIN Evicted(s) = 1 .. Len(s) - d
  BY <1>2, LenProperties
<1>4. NoRepeat(Evicted(s))
  <2> SUFFICES ASSUME NEW i \in 1 .. Len(s) - d, NEW j \in 1 .. Len(s) - d,
                      Evicted(s)[i] = Evicted(s)[j]
               PROVE  i = j
    BY <1>3 DEF NoRepeat
  <2>1. s[i + d] = s[j + d] /\ i + d \in DOMAIN s /\ j + d \in DOMAIN s
    BY <1>1, <1>2
  <2> QED
    BY <1>1, <2>1 DEF NoRepeat
<1> QED
  BY <1>1, <1>2, <1>4

\* Evicting keeps the order of what stays, so what came after a place still does.
LEMMA EvictedSince ==
  ASSUME NEW s \in Seq(Id), NoRepeat(s), Capacity \in Nat \ {0}
  PROVE  LET kept == {j \in ItemsOf(s) : Cardinality(After(s, PlaceIn(s, j))) < Capacity}
         IN  SinceOf(Evicted(s)) = [j \in kept |-> After(s, PlaceIn(s, j))]
<1> DEFINE d == IF Len(s) > Capacity THEN Len(s) - Capacity ELSE 0
           e == Evicted(s)
           kept == {j \in ItemsOf(s) : Cardinality(After(s, PlaceIn(s, j))) < Capacity}
<1>1. Len(s) \in Nat /\ DOMAIN s = 1 .. Len(s) /\ d \in Nat /\ d <= Len(s)
  BY LenProperties
<1>2. /\ e \in Seq(Id)
      /\ Len(e) = Len(s) - d
      /\ \A i \in 1 .. Len(s) - d : e[i] = s[i + d]
  BY EvictedTypes
<1>3. DOMAIN e = 1 .. Len(s) - d
  BY <1>2, LenProperties
<1> HIDE DEF e
<1>4. NoRepeat(e)
  BY EvictedNoRepeat DEF e
<1>5. ASSUME NEW i \in 1 .. Len(s) PROVE s[i] \in kept <=> i > d
  <2>1. PlaceIn(s, s[i]) = i /\ s[i] \in ItemsOf(s)
    BY <1>1, PlaceOf DEF ItemsOf
  <2>2. Cardinality(After(s, i)) = Len(s) - i
    BY <1>1, AfterSize
  <2> QED
    BY <1>1, <2>1, <2>2
<1>6. ASSUME NEW i \in 1 .. Len(e) PROVE After(e, i) = After(s, i + d)
  <2>1. ASSUME NEW x \in After(e, i) PROVE x \in After(s, i + d)
    <3>1. PICK j \in (i + 1) .. Len(e) : x = e[j]
      BY DEF After
    <3>2. j + d \in (i + d + 1) .. Len(s) /\ e[j] = s[j + d]
      BY <1>1, <1>2
    <3> QED
      BY <3>1, <3>2 DEF After
  <2>2. ASSUME NEW x \in After(s, i + d) PROVE x \in After(e, i)
    <3>1. PICK j \in (i + d + 1) .. Len(s) : x = s[j]
      BY DEF After
    <3>2. /\ j - d \in (i + 1) .. Len(e) /\ j - d \in 1 .. Len(s) - d
          /\ (j - d) + d = j
      BY <1>1, <1>2
    <3>3. e[j - d] = s[j]
      BY <1>2, <3>2
    <3> QED
      BY <3>1, <3>2, <3>3 DEF After
  <2> QED
    BY <2>1, <2>2
<1>7. ItemsOf(e) = kept
  <2>1. ASSUME NEW x \in ItemsOf(e) PROVE x \in kept
    <3>1. PICK i \in 1 .. Len(s) - d : x = e[i]
      BY <1>3 DEF ItemsOf
    <3>2. x = s[i + d] /\ i + d \in 1 .. Len(s) /\ i + d > d
      BY <1>1, <1>2, <3>1
    <3> QED
      BY <1>5, <3>2
  <2>2. ASSUME NEW x \in kept PROVE x \in ItemsOf(e)
    <3>1. PICK i \in 1 .. Len(s) : x = s[i]
      BY <1>1, <2>2 DEF ItemsOf
    <3>2. i > d
      BY <1>5, <2>2, <3>1
    <3>3. i - d \in 1 .. Len(s) - d /\ (i - d) + d = i
      BY <1>1, <3>2
    <3>4. e[i - d] = s[i]
      BY <1>2, <3>3
    <3> QED
      BY <1>3, <3>1, <3>3, <3>4 DEF ItemsOf
  <2> QED
    BY <2>1, <2>2
<1>8. ASSUME NEW x \in ItemsOf(e) PROVE After(e, PlaceIn(e, x)) = After(s, PlaceIn(s, x))
  <2>1. PICK i \in 1 .. Len(s) - d : x = e[i]
    BY <1>3 DEF ItemsOf
  <2>2. PlaceIn(e, x) = i
    BY <1>2, <1>3, <1>4, <2>1, PlaceOf
  <2>3. x = s[i + d] /\ i + d \in DOMAIN s
    BY <1>1, <1>2, <2>1
  <2>4. PlaceIn(s, x) = i + d
    BY <2>3, PlaceOf
  <2> QED
    BY <1>2, <1>6, <2>2, <2>4
<1> QED
  BY <1>7, <1>8 DEF SinceOf, e

-----------------------------------------------------------------------------
(* The refinement                                                           *)

\* The inductive invariant: no key twice, and no more keys than the capacity.
StoreInv ==
  /\ order \in Seq(Id)
  /\ NoRepeat(order)
  /\ Len(order) <= Capacity

LEMMA SameCardinality == \A S : Recent!Cardinality(S) = Cardinality(S)
  BY DEF Recent!Cardinality, Cardinality, Recent!IsFiniteSet, IsFiniteSet

\* What Touched makes of the abstract state is what moving and evicting makes of
\* the order.
LEMMA TouchedIsMoved ==
  ASSUME StoreInv, NEW id \in Id
  PROVE  Recent!Touched(id) = SinceOf(Evicted(Moved(id)))
<1> DEFINE s == Moved(id)
           later == [j \in DOMAIN Since \cup {id} |->
                       IF j = id THEN {} ELSE Since[j] \cup {id}]
<1>1. /\ s \in Seq(Id) /\ ItemsOf(s) = Held \cup {id} /\ Len(s) \in Nat \ {0}
      /\ DOMAIN s = 1 .. Len(s)
  <2>1. s \in Seq(Id) /\ ItemsOf(s) = Held \cup {id}
    BY MovedTypes DEF StoreInv
  <2>2. Len(s) \in Nat /\ DOMAIN s = 1 .. Len(s)
    BY <2>1, LenProperties
  <2> QED
    BY <2>1, <2>2 DEF ItemsOf
<1>2. /\ NoRepeat(s)
      /\ s[Len(s)] = id
      /\ \A i \in 1 .. Len(s) - 1 :
           s[i] \in Held \ {id} /\ After(s, i) = Since[s[i]] \cup {id}
  BY MovedPlaces DEF StoreInv
<1>3. DOMAIN Since = Held
  BY DEF Since
<1> HIDE DEF s
<1>4. ASSUME NEW j \in Held \cup {id} PROVE later[j] = After(s, PlaceIn(s, j))
  <2>1. PICK i \in 1 .. Len(s) : j = s[i]
    BY <1>1 DEF ItemsOf
  <2>2. PlaceIn(s, j) = i
    BY <1>1, <1>2, <2>1, PlaceOf
  <2>3. CASE i = Len(s)
    <3>1. After(s, i) = {}
      BY <1>1, <2>3 DEF After
    <3> QED
      BY <1>2, <1>3, <2>1, <2>2, <2>3, <3>1
  <2>4. CASE i < Len(s)
    BY <1>1, <1>2, <1>3, <2>1, <2>2, <2>4
  <2>5. i = Len(s) \/ i < Len(s)
    <3>1. Len(s) \in Int /\ i \in Int /\ i <= Len(s)
      BY <1>1
    <3> QED
      BY <3>1
  <2> QED
    BY <2>3, <2>4, <2>5
<1>5. Recent!Touched(id) =
        [j \in {k \in DOMAIN later : Cardinality(later[k]) < Capacity} |-> later[j]]
  BY SameCardinality, Zenon DEF Recent!Touched
<1>6. DOMAIN later = ItemsOf(s)
  BY <1>1, <1>3
<1>7. SinceOf(Evicted(s)) =
        [j \in {k \in ItemsOf(s) : Cardinality(After(s, PlaceIn(s, k))) < Capacity} |->
           After(s, PlaceIn(s, j))]
  BY <1>1, <1>2, EvictedSince, CapacityAssumption
<1> HIDE DEF later
<1> QED
  BY <1>1, <1>4, <1>5, <1>6, <1>7 DEF s

LEMMA PutImplements ==
  ASSUME StoreInv, NEW id \in Id, Put(id)
  PROVE  StoreInv' /\ Recent!Put(id)
<1>1. Moved(id) \in Seq(Id) /\ NoRepeat(Moved(id))
  BY MovedTypes, MovedPlaces DEF StoreInv
<1>2. order' = Evicted(Moved(id)) /\ reply' = reply
  BY DEF Put
<1>3. StoreInv'
  BY <1>1, <1>2, EvictedNoRepeat DEF StoreInv, NoRepeat
<1>4. Since' = SinceOf(order')
  BY DEF Since, SinceOf, Held, ItemsOf, After, Place, PlaceIn
<1> QED
  BY <1>2, <1>3, <1>4, TouchedIsMoved DEF Recent!Put

LEMMA GetImplements ==
  ASSUME StoreInv, NEW id \in Id, Get(id)
  PROVE  StoreInv' /\ Recent!Read(id)
<1>0. DOMAIN Since = Held
  BY DEF Since
<1>1. CASE Hit(id)
  <2>1. id \in Held /\ order' = Moved(id) /\ reply' = [id |-> {id}, found |-> TRUE]
    BY <1>1 DEF Hit
  <2>2. Moved(id) \in Seq(Id) /\ NoRepeat(Moved(id)) /\ Len(Moved(id)) = Len(order)
    BY <2>1, MovedTypes, MovedPlaces DEF StoreInv
  <2>3. StoreInv'
    BY <2>1, <2>2 DEF StoreInv, NoRepeat
  <2>4. Evicted(Moved(id)) = Moved(id)
    BY <2>2, CapacityAssumption, LenProperties DEF Evicted, StoreInv
  <2>5. Since' = SinceOf(order')
    BY DEF Since, SinceOf, Held, ItemsOf, After, Place, PlaceIn
  <2>6. Since' = Recent!Touched(id)
    BY <2>1, <2>4, <2>5, TouchedIsMoved
  <2>7. (id \in DOMAIN Since) = TRUE
    BY <1>0, <2>1
  <2> QED
    BY <2>1, <2>3, <2>6, <2>7 DEF Recent!Read
<1>2. CASE Miss(id)
  <2>1. Since' = Since /\ StoreInv'
    BY <1>2 DEF Miss, Since, Held, Place, StoreInv, NoRepeat
  <2>2. (id \in DOMAIN Since) = FALSE
    BY <1>0, <1>2 DEF Miss
  <2> QED
    BY <1>2, <2>1, <2>2 DEF Miss, Recent!Read
<1> QED
  BY <1>1, <1>2 DEF Get

LEMMA StoreStarts == StoreInit => StoreInv /\ Recent!Init
<1> SUFFICES ASSUME StoreInit PROVE StoreInv /\ Recent!Init
  OBVIOUS
<1>1. order = <<>> /\ Held = {} /\ reply = NoReply
  BY DEF StoreInit, Held
<1>2. Since = [j \in {} |-> {}]
  BY <1>1 DEF Since
<1>3. StoreInv
  BY <1>1, CapacityAssumption DEF StoreInv, NoRepeat
<1> QED
  BY <1>1, <1>2, <1>3 DEF Recent!Init, NoReply, Recent!NoReply

LEMMA StoreRests ==
  ASSUME StoreInv, UNCHANGED storeVars
  PROVE  StoreInv' /\ UNCHANGED <<Since, reply>>
  BY DEF storeVars, StoreInv, NoRepeat, Since, Held, Place

\* The store evicts by last use: every step of the ordered dictionary is a put
\* or a read of the store that forgets after Capacity touches.
THEOREM StoreKeepsRecent == StoreSpec => KeepsRecent
<1>1. StoreInv /\ [StoreNext]_storeVars => StoreInv' /\ [Recent!Next]_<<Since, reply>>
  BY PutImplements, GetImplements, StoreRests DEF StoreNext, Recent!Next
<1> QED
  BY <1>1, StoreStarts, PTL DEF StoreSpec, KeepsRecent, Recent!Spec

-----------------------------------------------------------------------------
(* What users of the store rely on                                          *)

LEMMA PutTypes ==
  ASSUME order \in Seq(Id), NEW id \in Id, Put(id)
  PROVE  /\ order' \in Seq(Id)
         /\ Held' \subseteq Held \cup {id}
         /\ Len(order') <= Capacity
<1> DEFINE s == Moved(id)
           d == IF Len(s) > Capacity THEN Len(s) - Capacity ELSE 0
<1>1. s \in Seq(Id) /\ ItemsOf(s) = Held \cup {id}
  BY MovedTypes
<1>2. Len(s) \in Nat /\ DOMAIN s = 1 .. Len(s) /\ Capacity \in Nat
  BY <1>1, LenProperties, CapacityAssumption
<1>3. order' = Evicted(s)
  BY DEF Put
<1> HIDE DEF s
<1>4. /\ order' \in Seq(Id)
      /\ Len(order') = Len(s) - d
      /\ \A i \in 1 .. Len(s) - d : order'[i] = s[i + d]
  BY <1>1, <1>3, EvictedTypes, CapacityAssumption
<1>5. DOMAIN order' = 1 .. Len(s) - d
  BY <1>4, LenProperties
<1>6. Held' \subseteq ItemsOf(s)
  <2> SUFFICES ASSUME NEW x \in Held' PROVE x \in ItemsOf(s)
    OBVIOUS
  <2>1. PICK i \in 1 .. Len(s) - d : x = order'[i]
    BY <1>5 DEF Held
  <2>2. x = s[i + d]
    BY <1>4, <2>1
  <2>3. d \in Nat
    BY <1>2
  <2>4. i + d \in DOMAIN s
    <3> HIDE DEF d
    <3> QED
      BY <1>2, <2>3
  <2> QED
    BY <2>2, <2>4 DEF ItemsOf
<1> QED
  BY <1>1, <1>2, <1>4, <1>6

LEMMA GetTypes ==
  ASSUME order \in Seq(Id), NEW id \in Id, Get(id)
  PROVE  /\ order' \in Seq(Id)
         /\ Held' = Held
         /\ Len(order') = Len(order)
<1>1. CASE Hit(id)
  <2>1. order' = Moved(id) /\ id \in Held
    BY <1>1 DEF Hit
  <2>2. ItemsOf(Moved(id)) = Held
    BY <2>1, MovedTypes
  <2>3. Held' = ItemsOf(order')
    BY DEF Held, ItemsOf
  <2> QED
    BY <2>1, <2>2, <2>3, MovedTypes
<1>2. CASE Miss(id)
  BY <1>2 DEF Miss, Held
<1> QED
  BY <1>1, <1>2 DEF Get

-----------------------------------------------------------------------------
(* Type correctness                                                         *)

LEMMA AwaitTypes ==
  ASSUME TypeOK, NEW u \in Id, NEW s \in Stages, Await(u, s)
  PROVE  /\ stage' \in [Id -> Stages]
         /\ queue' \in Seq(Id)
         /\ busy' \subseteq Id
         /\ result' \in [Id -> Exceptions \cup {"ok", None}]
<1>1. queue' \in Seq(Id)
  BY AppendProperties DEF Await, TypeOK
<1> QED
  BY <1>1 DEF Await, TypeOK

LEMMA RaiseTypes ==
  ASSUME TypeOK, NEW u \in Id, NEW e \in Exceptions, Raise(u, e)
  PROVE  /\ stage' \in [Id -> Stages]
         /\ raised' \in [Id -> Exceptions \cup {None}]
         /\ queue' \in Seq(Id)
         /\ busy' \subseteq Id
         /\ result' \in [Id -> Exceptions \cup {"ok", None}]
<1>1. "removing" \in Stages
  BY DEF Stages, Awaits
<1> QED
  BY <1>1, AwaitTypes DEF Raise, TypeOK

\* The arm each exception is caught by, and the status it gives.
LEMMA StatusOfValues ==
  /\ StatusOf(None) = 201
  /\ StatusOf("HTTPException") = 422
  /\ StatusOf("CaptureTooLargeError") = 413
  /\ StatusOf("EmptyCaptureError") = 422
  /\ StatusOf("TsharkNotFoundError") = 503
  /\ StatusOf("TsharkError") = 500
  /\ StatusOf("ValueError") = 422
  /\ StatusOf("OSError") = 500
  /\ StatusOf("KeyError") = 500
<1> DEFINE ArmsOf(e) == {i \in DOMAIN Arms : Arms[i][1] \in Caught(e)}
           First(e) == CHOOSE i \in ArmsOf(e) : \A j \in ArmsOf(e) : i <= j
<1>1. DOMAIN Arms = 1 .. 5
  BY DEF Arms
<1>2. /\ Arms[1] = <<"CaptureTooLargeError", 413>>
      /\ Arms[2] = <<"EmptyCaptureError", 422>>
      /\ Arms[3] = <<"TsharkNotFoundError", 503>>
      /\ Arms[4] = <<"TsharkError", 500>>
      /\ Arms[5] = <<"ValueError", 422>>
  BY DEF Arms
<1>3. /\ Caught("CaptureTooLargeError") = {"CaptureTooLargeError", "ValueError"}
      /\ Caught("EmptyCaptureError") = {"EmptyCaptureError", "ValueError"}
      /\ Caught("TsharkNotFoundError") = {"TsharkNotFoundError", "TsharkError"}
      /\ Caught("TsharkError") = {"TsharkError"}
      /\ Caught("ValueError") = {"ValueError"}
      /\ Caught("OSError") = {"OSError"}
      /\ Caught("KeyError") = {"KeyError"}
  BY DEF Caught
<1>4. /\ ArmsOf("CaptureTooLargeError") = {1, 5}
      /\ ArmsOf("EmptyCaptureError") = {2, 5}
      /\ ArmsOf("TsharkNotFoundError") = {3, 4}
      /\ ArmsOf("TsharkError") = {4}
      /\ ArmsOf("ValueError") = {5}
      /\ ArmsOf("OSError") = {}
      /\ ArmsOf("KeyError") = {}
  BY <1>1, <1>2, <1>3
<1> HIDE DEF ArmsOf
<1>5. /\ First("CaptureTooLargeError") = 1
      /\ First("EmptyCaptureError") = 2
      /\ First("TsharkNotFoundError") = 3
      /\ First("TsharkError") = 4
      /\ First("ValueError") = 5
  BY <1>4
<1>6. \A e : e \notin {None, "HTTPException"} =>
        StatusOf(e) = IF ArmsOf(e) = {} THEN 500 ELSE Arms[First(e)][2]
  BY DEF StatusOf, ArmsOf
<1>7. StatusOf(None) = 201 /\ StatusOf("HTTPException") = 422
  BY DEF StatusOf, None
<1> HIDE DEF First
<1> QED
  BY <1>2, <1>4, <1>5, <1>6, <1>7 DEF None

LEMMA StatusOfTypes ==
  ASSUME NEW e \in Exceptions \cup {None}
  PROVE  StatusOf(e) \in Statuses
  BY StatusOfValues DEF Exceptions, Statuses

\* What the thread that finishes the job of u leaves behind.
LEMMA FinishTypes ==
  ASSUME TypeOK, NEW u \in Id, NEW s, NEW r \in Exceptions \cup {"ok"}, Finish(u, s, r)
  PROVE  /\ busy' \subseteq Id
         /\ result' \in [Id -> Exceptions \cup {"ok", None}]
         /\ UNCHANGED <<process, tools, loop, stage, size, raised, status, queue, storeVars>>
  BY DEF Finish, TypeOK

\* The part of the argument the types need: an upload that may still grow is
\* within the limit.
Admitted == \A u \in Id : stage[u] \in {"new", "reading", "writing"} => size[u] <= MaxSize

LEMMA TypeStep == TypeOK /\ Admitted /\ [Next]_vars => TypeOK'
<1> SUFFICES ASSUME TypeOK, Admitted, [Next]_vars PROVE TypeOK'
  OBVIOUS
<1> USE LimitsAssumption
<1>0. /\ {"OSError", "TsharkError", "TsharkNotFoundError", "CaptureTooLargeError",
          "EmptyCaptureError", "ValueError", "KeyError", "HTTPException"} \subseteq Exceptions
      /\ {"new", "reading", "done", "gone", "writing", "header", "dissecting",
          "aggregating", "removing"} \subseteq Stages
  BY DEF Exceptions, Stages, Awaits
<1>1. ASSUME NEW u \in Id, Begin(u) PROVE TypeOK'
  <2>1. CASE Raise(u, "OSError")
    BY <1>0, <1>1, <2>1, RaiseTypes DEF Begin, TypeOK, storeVars
  <2>2. CASE stage' = [stage EXCEPT ![u] = "reading"] /\ UNCHANGED <<raised, pool>>
    BY <1>0, <1>1, <2>2 DEF Begin, TypeOK, storeVars, pool
  <2> QED
    BY <1>1, <2>1, <2>2 DEF Begin
<1>2. ASSUME NEW u \in Id, BeginFails(u) PROVE TypeOK'
  BY <1>0, <1>2, StatusOfTypes DEF BeginFails, TypeOK, storeVars, pool
<1>3. ASSUME NEW u \in Id, ReadChunk(u) PROVE TypeOK'
  <2>1. size'[u] = size[u] + 1 /\ size[u] \in Nat
    BY <1>3 DEF ReadChunk, TypeOK
  <2>2. size[u] <= MaxSize
    BY <1>3 DEF ReadChunk, Admitted
  <2>3. /\ size' \in [Id -> 0 .. (MaxSize + 1)]
        /\ UNCHANGED <<process, tools, loop, frames, status, staged, order>>
    BY <1>3, <2>1, <2>2 DEF ReadChunk, TypeOK, storeVars
  <2>4. CASE Raise(u, "CaptureTooLargeError")
    BY <1>0, <2>3, <2>4, RaiseTypes DEF TypeOK
  <2>5. CASE Await(u, "writing") /\ UNCHANGED raised
    BY <1>0, <2>3, <2>5, AwaitTypes DEF TypeOK
  <2> QED
    BY <1>3, <2>4, <2>5 DEF ReadChunk
<1>4. ASSUME NEW u \in Id, EndOfFile(u) PROVE TypeOK'
  BY <1>0, <1>4, RaiseTypes, AwaitTypes DEF EndOfFile, TypeOK, storeVars
<1>5. ASSUME NEW u \in Id, Written(u) PROVE TypeOK'
  BY <1>0, <1>5 DEF Written, TypeOK, storeVars
<1>6. ASSUME NEW u \in Id, Advance(u) PROVE TypeOK'
  BY <1>0, <1>6, AwaitTypes DEF Advance, TypeOK, storeVars
<1>7. ASSUME NEW u \in Id, Fail(u) PROVE TypeOK'
  BY <1>0, <1>7, RaiseTypes DEF Fail, TypeOK, storeVars
<1>8. ASSUME NEW u \in Id, Answer(u) PROVE TypeOK'
  <2>1. order' \in Seq(Id)
    BY <1>8, PutTypes DEF Answer, TypeOK, storeVars
  <2>2. StatusOf(raised[u]) \in Statuses
    BY StatusOfTypes DEF TypeOK
  <2> QED
    BY <1>0, <1>8, <2>1, <2>2 DEF Answer, TypeOK
<1>9. CASE TakeJob
  BY <1>9, HeadTailProperties DEF TakeJob, TypeOK, upload, storeVars
<1>10. ASSUME NEW u \in Id, FinishJob(u) PROVE TypeOK'
  <2>1. /\ UNCHANGED <<process, tools, loop, stage, size, raised, status, queue, storeVars>>
        /\ busy' \subseteq Id
        /\ result' \in [Id -> Exceptions \cup {"ok", None}]
    BY <1>0, <1>10, FinishTypes
       DEF FinishJob, FinishWrite, FinishHeader, FinishDissection, FinishAggregation,
           FinishRemoval
  <2>2. frames' \in [Id -> 0 .. (MaxFrames + 1)]
    BY <1>10
       DEF FinishJob, FinishWrite, FinishHeader, FinishDissection, FinishAggregation,
           FinishRemoval, TypeOK
  <2>3. staged' \subseteq Id
    BY <1>10
       DEF FinishJob, FinishWrite, FinishHeader, FinishDissection, FinishAggregation,
           FinishRemoval, TypeOK
  <2> QED
    BY <2>1, <2>2, <2>3 DEF TypeOK, storeVars
<1>11. ASSUME NEW u \in Id, ReadCapture(u) PROVE TypeOK'
  BY <1>11, GetTypes DEF ReadCapture, TypeOK, upload, pool
<1>12. CASE HealthBegin \/ HealthEnd
  BY <1>12 DEF HealthBegin, HealthEnd, TypeOK, upload, pool, storeVars
<1>13. CASE ToolsChange
  BY <1>13 DEF ToolsChange, TypeOK, upload, pool, storeVars
<1>14. CASE Crash
  <2>1. stage' \in [Id -> Stages]
    BY <1>0, <1>14 DEF Crash
  <2> QED
    BY <1>14, <2>1 DEF Crash, TypeOK
<1>15. CASE Boot
  BY <1>15 DEF Boot, TypeOK, upload, pool, storeVars
<1>16. CASE UNCHANGED vars
  BY <1>16 DEF vars, TypeOK, upload, pool, storeVars
<1> QED
  BY <1>1, <1>2, <1>3, <1>4, <1>5, <1>6, <1>7, <1>8, <1>9, <1>10, <1>11, <1>12, <1>13,
     <1>14, <1>15, <1>16 DEF Next, Handle

LEMMA AdmittedStep == TypeOK /\ Admitted /\ [Next]_vars => Admitted'
<1> SUFFICES ASSUME TypeOK, Admitted, [Next]_vars PROVE Admitted'
  OBVIOUS
<1> USE LimitsAssumption
<1>1. ASSUME NEW u \in Id, Handle(u) PROVE Admitted'
  <2>1. CASE Begin(u) \/ BeginFails(u)
    BY <2>1 DEF Begin, BeginFails, Raise, Await, Admitted, TypeOK
  <2>2. CASE ReadChunk(u)
    BY <2>2 DEF ReadChunk, Raise, Await, Admitted, TypeOK
  <2>3. CASE EndOfFile(u)
    BY <2>3 DEF EndOfFile, Raise, Await, Admitted, TypeOK
  <2>4. CASE Written(u) \/ Advance(u)
    BY <2>4 DEF Written, Resumed, Advance, Await, Admitted, TypeOK
  <2>5. CASE Fail(u) \/ Answer(u)
    BY <2>5 DEF Fail, Answer, Raise, Await, Admitted, TypeOK
  <2> QED
    BY <1>1, <2>1, <2>2, <2>3, <2>4, <2>5 DEF Handle
<1>2. CASE Crash
  BY <1>2 DEF Crash, Admitted
<1>3. CASE UNCHANGED <<stage, size>>
  BY <1>3 DEF Admitted
<1> QED
  BY <1>1, <1>2, <1>3
     DEF Next, vars, upload, FinishJob, FinishWrite, FinishHeader, FinishDissection,
         FinishAggregation, FinishRemoval, Finish, ReadCapture, TakeJob, HealthBegin,
         HealthEnd, ToolsChange, Boot

\* The variables of the backend keep their types, for any number of uploads,
\* worker threads, chunks and frames.
THEOREM ServiceTypeCorrect == Spec => []TypeOK
<1>1. Init => TypeOK /\ Admitted
  BY LimitsAssumption DEF Init, TypeOK, Admitted, Stages, Statuses, StoreInit
<1> QED
  BY <1>1, TypeStep, AdmittedStep, PTL DEF Spec

-----------------------------------------------------------------------------
(* One job per await                                                        *)

LEMMA QueueGrows ==
  ASSUME queue \in Seq(Id), NEW u \in Id, queue' = Append(queue, u)
  PROVE  /\ Queued' = Queued \cup {u}
         /\ NoRepeat(queue) /\ u \notin Queued => NoRepeat(queue')
<1>1. /\ Len(queue) \in Nat /\ DOMAIN queue = 1 .. Len(queue)
      /\ Len(queue') = Len(queue) + 1 /\ DOMAIN queue' = 1 .. Len(queue) + 1
      /\ \A i \in 1 .. Len(queue) : queue'[i] = queue[i]
      /\ queue'[Len(queue) + 1] = u
  BY AppendProperties, LenProperties
<1>2. Queued' = Queued \cup {u}
  BY <1>1 DEF Queued
<1>3. NoRepeat(queue) /\ u \notin Queued => NoRepeat(queue')
  BY <1>1 DEF Queued, NoRepeat
<1> QED
  BY <1>2, <1>3

LEMMA QueueShrinks ==
  ASSUME queue \in Seq(Id), queue # <<>>, NoRepeat(queue), queue' = Tail(queue)
  PROVE  /\ Head(queue) \in Queued
         /\ Queued' = Queued \ {Head(queue)}
         /\ NoRepeat(queue')
<1>1. /\ Len(queue) \in Nat \ {0} /\ DOMAIN queue = 1 .. Len(queue)
      /\ Len(queue') = Len(queue) - 1 /\ DOMAIN queue' = 1 .. Len(queue) - 1
      /\ \A i \in 1 .. Len(queue) - 1 : queue'[i] = queue[i + 1]
      /\ Head(queue) = queue[1]
  BY HeadTailProperties, LenProperties, EmptySeq
<1>2. Head(queue) \in Queued
  BY <1>1 DEF Queued
<1>3. Queued' \subseteq Queued \ {Head(queue)}
  BY <1>1 DEF Queued, NoRepeat
<1>4. ASSUME NEW x \in Queued, x # Head(queue) PROVE x \in Queued'
  <2>1. PICK i \in 1 .. Len(queue) : x = queue[i]
    BY <1>1 DEF Queued
  <2>2. i - 1 \in 1 .. Len(queue) - 1 /\ (i - 1) + 1 = i
    BY <1>1, <1>4, <2>1
  <2>3. queue'[i - 1] = x
    BY <1>1, <2>1, <2>2
  <2> QED
    BY <1>1, <2>2, <2>3 DEF Queued
<1>5. NoRepeat(queue')
  <2> SUFFICES ASSUME NEW i \in 1 .. Len(queue) - 1, NEW j \in 1 .. Len(queue) - 1,
                      queue'[i] = queue'[j]
               PROVE  i = j
    BY <1>1 DEF NoRepeat
  <2>1. queue[i + 1] = queue[j + 1] /\ i + 1 \in DOMAIN queue /\ j + 1 \in DOMAIN queue
    BY <1>1
  <2> QED
    BY <1>1, <2>1 DEF NoRepeat
<1> QED
  BY <1>2, <1>3, <1>4, <1>5

\* A handler that is not waiting, or whose job is finished, may start one.
LEMMA JobStarts ==
  ASSUME TypeOK, OneJobPerAwait, NEW u \in Id, NEW s \in Awaits, Await(u, s),
         stage[u] \notin Awaits \/ result[u] # None
  PROVE  OneJobPerAwait'
<1>1. u \notin Queued \cup busy
  BY DEF OneJobPerAwait
<1>2. Queued' = Queued \cup {u} /\ NoRepeat(queue')
  BY <1>1, QueueGrows DEF TypeOK, Await, OneJobPerAwait, NoRepeat
<1>3. /\ busy' = busy
      /\ stage' = [stage EXCEPT ![u] = s]
      /\ result' = [result EXCEPT ![u] = None]
  BY DEF Await
<1> QED
  BY <1>1, <1>2, <1>3 DEF OneJobPerAwait, NoRepeat, TypeOK

\* A handler may take its result and stop waiting.
LEMMA JobTaken ==
  ASSUME TypeOK, OneJobPerAwait, NEW u \in Id, NEW s \in Stages \ Awaits,
         stage[u] \notin Awaits \/ result[u] # None,
         stage' = [stage EXCEPT ![u] = s], result' = [result EXCEPT ![u] = None],
         UNCHANGED <<queue, busy>>
  PROVE  OneJobPerAwait'
<1>1. u \notin Queued \cup busy
  BY DEF OneJobPerAwait
<1>2. Queued' = Queued
  BY DEF Queued
<1> QED
  BY <1>1, <1>2 DEF OneJobPerAwait, TypeOK

LEMMA JobsStep == TypeOK /\ OneJobPerAwait /\ [Next]_vars => OneJobPerAwait'
<1> SUFFICES ASSUME TypeOK, OneJobPerAwait, [Next]_vars PROVE OneJobPerAwait'
  OBVIOUS
<1>0. /\ None \notin Exceptions /\ None # "ok"
      /\ Awaits = {"writing", "header", "dissecting", "aggregating", "removing"}
      /\ {"reading", "done"} \subseteq Stages \ Awaits
  BY DEF None, Exceptions, Awaits, Stages
<1>1. ASSUME NEW u \in Id, Handle(u) PROVE OneJobPerAwait'
  <2>1. CASE Begin(u)
    <3>1. stage[u] \notin Awaits
      BY <1>0, <2>1 DEF Begin
    <3>2. CASE Raise(u, "OSError")
      BY <1>0, <3>1, <3>2, JobStarts DEF Raise
    <3>3. CASE stage' = [stage EXCEPT ![u] = "reading"] /\ UNCHANGED <<raised, pool>>
      <4>1. result[u] = None /\ result' = [result EXCEPT ![u] = None]
        BY <3>1, <3>3 DEF OneJobPerAwait, pool, TypeOK
      <4> QED
        BY <1>0, <3>1, <3>3, <4>1, JobTaken DEF pool
    <3> QED
      BY <2>1, <3>2, <3>3 DEF Begin
  <2>2. CASE BeginFails(u)
    <3>1. stage[u] \notin Awaits /\ result[u] = None
      BY <1>0, <2>2 DEF BeginFails, OneJobPerAwait
    <3>2. result' = [result EXCEPT ![u] = None]
      BY <2>2, <3>1 DEF BeginFails, pool, TypeOK
    <3> QED
      BY <1>0, <2>2, <3>1, <3>2, JobTaken DEF BeginFails, pool
  <2>3. CASE ReadChunk(u) \/ EndOfFile(u)
    <3>1. stage[u] \notin Awaits
      BY <1>0, <2>3 DEF ReadChunk, EndOfFile
    <3>2. \E s \in Awaits : Await(u, s)
      BY <1>0, <2>3 DEF ReadChunk, EndOfFile, Raise
    <3> QED
      BY <3>1, <3>2, JobStarts
  <2>4. CASE Written(u) \/ Answer(u)
    <3>1. result[u] # None
      BY <1>0, <2>4 DEF Written, Answer, Resumed
    <3>2. \E s \in Stages \ Awaits : stage' = [stage EXCEPT ![u] = s]
      BY <1>0, <2>4 DEF Written, Answer
    <3>3. result' = [result EXCEPT ![u] = None] /\ UNCHANGED <<queue, busy>>
      BY <2>4 DEF Written, Answer
    <3> QED
      BY <3>1, <3>2, <3>3, JobTaken
  <2>5. CASE Advance(u) \/ Fail(u)
    <3>1. result[u] # None
      BY <1>0, <2>5 DEF Advance, Fail, Resumed
    <3>2. \E s \in Awaits : Await(u, s)
      BY <1>0, <2>5 DEF Advance, Fail, Raise
    <3> QED
      BY <3>1, <3>2, JobStarts
  <2> QED
    BY <1>1, <2>1, <2>2, <2>3, <2>4, <2>5 DEF Handle
<1>2. CASE TakeJob
  <2> DEFINE u == Head(queue)
  <2>1. /\ u \in Queued
        /\ Queued' = Queued \ {u}
        /\ NoRepeat(queue')
    BY <1>2, QueueShrinks DEF TakeJob, TypeOK, OneJobPerAwait, NoRepeat
  <2>2. busy' = busy \cup {u} /\ UNCHANGED <<stage, result>>
    BY <1>2 DEF TakeJob, upload
  <2>3. u \notin busy
    BY <2>1 DEF OneJobPerAwait
  <2> HIDE DEF u
  <2> QED
    BY <2>1, <2>2, <2>3 DEF OneJobPerAwait, NoRepeat
<1>3. ASSUME NEW u \in Id, FinishJob(u) PROVE OneJobPerAwait'
  <2>1. \E s, r : r # None /\ Finish(u, s, r)
    BY <1>0, <1>3
       DEF FinishJob, FinishWrite, FinishHeader, FinishDissection, FinishAggregation,
           FinishRemoval, Exceptions, None
  <2>2. PICK s, r : r # None /\ Finish(u, s, r)
    BY <2>1
  <2>3. /\ u \in busy /\ busy' = busy \ {u}
        /\ result' = [result EXCEPT ![u] = r]
        /\ UNCHANGED <<stage, queue>>
    BY <2>2 DEF Finish
  <2>4. Queued' = Queued
    BY <2>3 DEF Queued
  <2> QED
    BY <2>2, <2>3, <2>4 DEF OneJobPerAwait, TypeOK
<1>4. CASE Crash
  <2>1. \A u \in Id : stage'[u] \notin Awaits /\ result'[u] = None
    BY <1>0, <1>4 DEF Crash
  <2>2. queue' = <<>> /\ busy' = {} /\ Queued' = {}
    BY <1>4 DEF Crash, Queued
  <2> QED
    BY <2>1, <2>2 DEF OneJobPerAwait
<1>5. CASE UNCHANGED <<stage, queue, busy, result>>
  BY <1>5 DEF OneJobPerAwait, Queued
<1> QED
  BY <1>1, <1>2, <1>3, <1>4, <1>5
     DEF Next, vars, upload, pool, ReadCapture, HealthBegin, HealthEnd, ToolsChange, Boot

\* No job is lost, run twice or left without a handler, whatever the number of
\* threads and however uploads fail or the process is killed.
THEOREM JobsFollowAwaits == Spec => []OneJobPerAwait
<1>1. Init => OneJobPerAwait
  BY DEF Init, OneJobPerAwait, Queued, Awaits, None
<1> QED
  BY <1>1, JobsStep, ServiceTypeCorrect, PTL DEF Spec

-----------------------------------------------------------------------------
(* Staging directories                                                      *)

\* The strengthening: while the finally waits, the directory is there until its
\* job is done.
StagingInv ==
  /\ StagingFollowsHandlers
  /\ \A u \in Id : stage[u] = "removing" => (u \in staged <=> result[u] = None)

LEMMA StagingStep == TypeOK /\ StagingInv /\ [Next]_vars => StagingInv'
<1> SUFFICES ASSUME TypeOK, StagingInv, [Next]_vars PROVE StagingInv'
  OBVIOUS
<1>0. /\ Awaits = {"writing", "header", "dissecting", "aggregating", "removing"}
      /\ None # "ok"
  BY DEF None, Awaits
<1>1. ASSUME NEW u \in Id, Handle(u) PROVE StagingInv'
  <2>1. CASE Begin(u)
    BY <1>0, <2>1 DEF Begin, Raise, Await, pool, StagingInv, StagingFollowsHandlers, TypeOK
  <2>2. CASE BeginFails(u)
    BY <1>0, <2>2 DEF BeginFails, pool, StagingInv, StagingFollowsHandlers, TypeOK
  <2>3. CASE ReadChunk(u)
    BY <1>0, <2>3 DEF ReadChunk, Raise, Await, StagingInv, StagingFollowsHandlers, TypeOK
  <2>4. CASE EndOfFile(u)
    BY <1>0, <2>4 DEF EndOfFile, Raise, Await, StagingInv, StagingFollowsHandlers, TypeOK
  <2>5. CASE Written(u)
    BY <1>0, <2>5 DEF Written, Resumed, StagingInv, StagingFollowsHandlers, TypeOK
  <2>6. CASE Advance(u)
    BY <1>0, <2>6 DEF Advance, Resumed, Await, StagingInv, StagingFollowsHandlers, TypeOK
  <2>7. CASE Fail(u)
    BY <1>0, <2>7 DEF Fail, Resumed, Raise, Await, StagingInv, StagingFollowsHandlers, TypeOK
  <2>8. CASE Answer(u)
    BY <1>0, <2>8 DEF Answer, Resumed, StagingInv, StagingFollowsHandlers, TypeOK
  <2> QED
    BY <1>1, <2>1, <2>2, <2>3, <2>4, <2>5, <2>6, <2>7, <2>8 DEF Handle
<1>2. ASSUME NEW u \in Id, FinishJob(u) PROVE StagingInv'
  <2>1. CASE FinishRemoval(u)
    BY <1>0, <2>1 DEF FinishRemoval, Finish, StagingInv, StagingFollowsHandlers, TypeOK
  <2>2. CASE ~FinishRemoval(u)
    <3>1. \E s \in Awaits \ {"removing"} : \E r : Finish(u, s, r) /\ UNCHANGED staged
      BY <1>0, <1>2, <2>2
         DEF FinishJob, FinishWrite, FinishHeader, FinishDissection, FinishAggregation
    <3> QED
      BY <1>0, <3>1 DEF Finish, StagingInv, StagingFollowsHandlers, TypeOK
  <2> QED
    BY <2>1, <2>2
<1>3. CASE Crash
  BY <1>0, <1>3 DEF Crash, StagingInv, StagingFollowsHandlers, TypeOK
<1>4. CASE UNCHANGED <<stage, result, staged>>
  BY <1>4 DEF StagingInv, StagingFollowsHandlers
<1> QED
  BY <1>1, <1>2, <1>3, <1>4
     DEF Next, vars, upload, pool, ReadCapture, TakeJob, HealthBegin, HealthEnd,
         ToolsChange, Boot

\* The inductive invariant of the staging directories.
THEOREM StagingAlways == Spec => []StagingInv
<1>1. Init => StagingInv
  BY DEF Init, StagingInv, StagingFollowsHandlers, Awaits
<1> QED
  BY <1>1, StagingStep, ServiceTypeCorrect, PTL DEF Spec

\* tshark never reads a directory that is gone, and no answered upload leaves
\* one behind.
THEOREM StagingFollows == Spec => []StagingFollowsHandlers
<1>1. StagingInv => StagingFollowsHandlers
  BY DEF StagingInv
<1> QED
  BY <1>1, StagingAlways, PTL

-----------------------------------------------------------------------------
(* Documents                                                                *)

LEMMA StoredStep == TypeOK /\ StoredWasAnswered /\ [Next]_vars => StoredWasAnswered'
<1> SUFFICES ASSUME TypeOK, StoredWasAnswered, [Next]_vars PROVE StoredWasAnswered'
  OBVIOUS
<1>0. /\ \A u \in Held : u \in Id /\ stage[u] = "done" /\ status[u] = 201
      /\ Awaits = {"writing", "header", "dissecting", "aggregating", "removing"}
  BY ElementOfSeq, LenProperties DEF StoredWasAnswered, Held, TypeOK, Awaits
<1>1. ASSUME NEW u \in Id, Handle(u), UNCHANGED order, UNCHANGED process,
             stage[u] # "done",
             \A v \in Id \ {u} : stage'[v] = stage[v] /\ status'[v] = status[v]
      PROVE  StoredWasAnswered'
  <2>1. Held' = Held
    BY <1>1 DEF Held
  <2>2. u \notin Held
    BY <1>0, <1>1
  <2> QED
    BY <1>0, <1>1, <2>1, <2>2 DEF StoredWasAnswered
<1>2. ASSUME NEW u \in Id, Handle(u) PROVE StoredWasAnswered'
  <2>1. CASE Begin(u) \/ BeginFails(u) \/ ReadChunk(u) \/ EndOfFile(u)
    BY <1>1, <1>2, <2>1
       DEF Begin, BeginFails, ReadChunk, EndOfFile, Raise, Await, TypeOK, storeVars
  <2>2. CASE Written(u) \/ Advance(u) \/ Fail(u)
    <3>1. UNCHANGED <<order, process, status>>
      BY <2>2 DEF Written, Advance, Fail, storeVars
    <3>2. stage[u] # "done" /\ \E s : stage' = [stage EXCEPT ![u] = s]
      <4>1. CASE Written(u)
        BY <4>1 DEF Written, Resumed
      <4>2. CASE Advance(u)
        BY <4>2 DEF Advance, Resumed, Await
      <4>3. CASE Fail(u)
        BY <1>0, <4>3 DEF Fail, Resumed, Raise, Await
      <4> QED
        BY <2>2, <4>1, <4>2, <4>3
    <3> QED
      BY <1>1, <1>2, <3>1, <3>2 DEF TypeOK
  <2>3. CASE Answer(u)
    <3>1. CASE raised[u] = None
      <4>1. Put(u) /\ status' = [status EXCEPT ![u] = 201]
            /\ stage' = [stage EXCEPT ![u] = "done"]
            /\ process = "up" /\ process' = process
        BY <2>3, <3>1, StatusOfValues DEF Answer, Resumed, LoopRuns
      <4>2. Held' \subseteq Held \cup {u} /\ Len(order') <= Capacity
        BY <4>1, PutTypes DEF TypeOK
      <4> QED
        BY <1>0, <4>1, <4>2 DEF StoredWasAnswered, TypeOK
    <3>2. CASE raised[u] # None
      BY <1>1, <1>2, <2>3, <3>2 DEF Answer, Resumed, TypeOK, storeVars
    <3> QED
      BY <3>1, <3>2
  <2> QED
    BY <1>2, <2>1, <2>2, <2>3 DEF Handle
<1>3. ASSUME NEW u \in Id, ReadCapture(u) PROVE StoredWasAnswered'
  <2>1. Held' = Held /\ Len(order') = Len(order)
    BY <1>3, GetTypes DEF ReadCapture, TypeOK
  <2> QED
    BY <1>0, <1>3, <2>1 DEF ReadCapture, upload, StoredWasAnswered, LoopRuns
<1>4. CASE Crash
  BY <1>4, CapacityAssumption DEF Crash, StoredWasAnswered, Held
<1>5. CASE UNCHANGED <<order, stage, status>> /\ (process' = process \/ order = <<>>)
  BY <1>0, <1>5 DEF StoredWasAnswered, Held
<1> QED
  BY <1>2, <1>3, <1>4, <1>5
     DEF Next, vars, upload, storeVars, FinishJob, FinishWrite, FinishHeader,
         FinishDissection, FinishAggregation, FinishRemoval, Finish, TakeJob,
         HealthBegin, HealthEnd, ToolsChange, Boot, StoredWasAnswered

\* Only documents of uploads answered 201 are readable, never more than the
\* capacity, never one of an earlier process.
THEOREM StoredIsAnswered == Spec => []StoredWasAnswered
<1>1. Init => StoredWasAnswered
  BY CapacityAssumption DEF Init, StoreInit, StoredWasAnswered, Held
<1> QED
  BY <1>1, StoredStep, ServiceTypeCorrect, PTL DEF Spec

\* A step adds a document to the store only when it answers the upload, after
\* the staging directory was removed.
THEOREM PublishedWhenAnswered == Spec => PublishedOnce
<1> DEFINE Publishes == \A u \in Id : u \in Held' /\ u \notin Held =>
                          stage[u] = "removing" /\ status'[u] = 201 /\ u \notin staged'
<1>1. TypeOK /\ StagingInv /\ [Next]_vars => [Publishes]_vars
  <2> SUFFICES ASSUME TypeOK, StagingInv, Next, NEW u \in Id, u \in Held', u \notin Held
               PROVE  stage[u] = "removing" /\ status'[u] = 201 /\ u \notin staged'
    OBVIOUS
  <2>1. order' # order
    BY DEF Held
  <2>2. ~Crash
    BY DEF Crash, Held
  <2>3. \A v \in Id : ~ReadCapture(v)
    BY GetTypes DEF ReadCapture, TypeOK
  <2>4. PICK v \in Id : Answer(v)
    BY <2>1, <2>2, <2>3
       DEF Next, Handle, Begin, BeginFails, ReadChunk, EndOfFile, Written, Advance, Fail,
           storeVars, FinishJob, FinishWrite, FinishHeader, FinishDissection,
           FinishAggregation, FinishRemoval, Finish, TakeJob, HealthBegin, HealthEnd,
           ToolsChange, Boot
  <2>5. raised[v] = None /\ Put(v)
    BY <2>1, <2>4 DEF Answer, storeVars
  <2>6. v = u
    BY <2>5, PutTypes DEF TypeOK
  <2> QED
    BY <2>4, <2>5, <2>6, StatusOfValues
       DEF Answer, Resumed, StagingInv, StagingFollowsHandlers, TypeOK, None
<1> QED
  BY <1>1, StagingAlways, ServiceTypeCorrect, PTL DEF Spec, PublishedOnce

\* The store of the running backend keeps the promise of the store alone, and a
\* killed process is its restart.
THEOREM ServiceKeepsRecent == Spec => KeepsRecent
<1>1. Init => StoreInv /\ Recent!Init
  BY StoreStarts DEF Init
<1>2. StoreInv /\ [Next]_vars => StoreInv' /\ [Recent!Next]_<<Since, reply>>
  <2> SUFFICES ASSUME StoreInv, [Next]_vars
               PROVE  StoreInv' /\ [Recent!Next]_<<Since, reply>>
    OBVIOUS
  <2>1. ASSUME NEW u \in Id, Put(u) \/ Get(u)
        PROVE  StoreInv' /\ [Recent!Next]_<<Since, reply>>
    BY <2>1, PutImplements, GetImplements DEF Recent!Next
  <2>2. ASSUME UNCHANGED storeVars PROVE StoreInv' /\ [Recent!Next]_<<Since, reply>>
    BY <2>2, StoreRests
  <2>3. CASE Crash
    <3>1. order' = <<>> /\ reply' = NoReply
      BY <2>3 DEF Crash
    <3>2. Since' = [j \in {} |-> {}]
      BY <3>1 DEF Since, Held
    <3>3. StoreInv'
      BY <3>1, CapacityAssumption DEF StoreInv, NoRepeat
    <3> QED
      BY <3>1, <3>2, <3>3 DEF Recent!Next, Recent!Restart, NoReply, Recent!NoReply
  <2>4. CASE \E u \in Id : Answer(u) \/ ReadCapture(u)
    BY <2>1, <2>2, <2>4 DEF Answer, ReadCapture
  <2> QED
    BY <2>2, <2>3, <2>4
       DEF Next, vars, Handle, Begin, BeginFails, ReadChunk, EndOfFile, Written, Advance,
           Fail, FinishJob, FinishWrite, FinishHeader, FinishDissection,
           FinishAggregation, FinishRemoval, Finish, TakeJob, HealthBegin, HealthEnd,
           ToolsChange, Boot
<1> QED
  BY <1>1, <1>2, PTL DEF Spec, KeepsRecent, Recent!Spec

-----------------------------------------------------------------------------
(* Answers                                                                  *)

Fits(u) == size[u] \in 1 .. MaxSize

\* What is known of an upload whose body ended in e.
CauseOf(u, e) ==
  /\ e = "CaptureTooLargeError" <=> (size[u] > MaxSize \/ frames[u] > MaxFrames)
  /\ e = None => Fits(u) /\ frames[u] \in 1 .. MaxFrames
  /\ e = "EmptyCaptureError" => Fits(u) /\ frames[u] = 0
  /\ e = "HTTPException" => size[u] = 0
  /\ e = "TsharkNotFoundError" => Fits(u) /\ frames[u] = 0
  /\ e = "ValueError" => Fits(u)

(***************************************************************************)
(* The strengthening: what each stage of an upload knows of its size and   *)
(* its frames, and what the result of its job adds.                        *)
(***************************************************************************)
CauseAt(u) ==
  /\ stage[u] \in {"new", "reading"} => size[u] <= MaxSize /\ frames[u] = 0 /\ raised[u] = None
  /\ stage[u] \in {"writing", "header"} =>
       /\ Fits(u) /\ frames[u] = 0 /\ raised[u] = None
       /\ result[u] \in {None, "ok", "OSError"}
  /\ stage[u] = "dissecting" =>
       /\ Fits(u) /\ raised[u] = None
       /\ result[u] # "ok" => frames[u] = 0
       /\ result[u] \in {None, "ok", "TsharkError", "TsharkNotFoundError", "OSError"}
  /\ stage[u] = "aggregating" =>
       /\ Fits(u) /\ raised[u] = None
       /\ result[u] \in {None, "ok", "CaptureTooLargeError", "EmptyCaptureError",
                         "ValueError", "KeyError"}
       /\ result[u] = "ok" => CauseOf(u, None)
       /\ result[u] \notin {None, "ok"} => CauseOf(u, result[u])
  /\ stage[u] \in {"removing", "done"} => CauseOf(u, raised[u])
  /\ stage[u] = "done" => status[u] = StatusOf(raised[u])

CauseInv == \A u \in Id : CauseAt(u)

LEMMA CauseKept ==
  ASSUME NEW u \in Id, CauseAt(u),
         stage'[u] = stage[u], size'[u] = size[u], frames'[u] = frames[u],
         raised'[u] = raised[u], status'[u] = status[u], result'[u] = result[u]
  PROVE  CauseAt(u)'
  BY DEF CauseAt, CauseOf, Fits

\* A handler's step changes what is known of its own upload only.
LEMMA CauseHandled ==
  ASSUME TypeOK, CauseInv, NEW u \in Id, Handle(u)
  PROVE  CauseInv'
<1> USE LimitsAssumption DEF TypeOK
<1>0. /\ Awaits = {"writing", "header", "dissecting", "aggregating", "removing"}
      /\ None \notin Exceptions /\ "ok" \notin Exceptions /\ None # "ok"
      /\ \A e \in Exceptions : e \in {"HTTPException", "CaptureTooLargeError",
           "EmptyCaptureError", "TsharkNotFoundError", "TsharkError", "ValueError",
           "OSError", "KeyError"}
  BY DEF None, Awaits, Exceptions
<1>1. ASSUME NEW v \in Id, v # u PROVE CauseAt(v)'
  <2>1. /\ stage'[v] = stage[v] /\ size'[v] = size[v] /\ frames'[v] = frames[v]
        /\ raised'[v] = raised[v] /\ status'[v] = status[v] /\ result'[v] = result[v]
    BY <1>1
       DEF Handle, Begin, BeginFails, ReadChunk, EndOfFile, Written, Advance, Fail, Answer,
           Raise, Await, pool
  <2> QED
    BY <2>1, CauseKept DEF CauseInv
<1> SUFFICES CauseAt(u)'
  BY <1>1 DEF CauseInv
<1>2. CauseAt(u)
  BY DEF CauseInv
<1>3. CASE Begin(u)
  <2>1. /\ size[u] <= MaxSize /\ frames[u] = 0 /\ raised[u] = None
        /\ size'[u] = size[u] /\ frames'[u] = 0
    BY <1>2, <1>3 DEF Begin, CauseAt
  <2>2. CASE Raise(u, "OSError")
    <3>1. stage'[u] = "removing" /\ raised'[u] = "OSError"
      BY <2>2 DEF Raise, Await
    <3> QED
      BY <2>1, <3>1 DEF CauseAt, CauseOf, None
  <2>3. CASE stage' = [stage EXCEPT ![u] = "reading"] /\ UNCHANGED <<raised, pool>>
    <3>1. stage'[u] = "reading" /\ raised'[u] = None
      BY <2>1, <2>3
    <3> QED
      BY <2>1, <3>1 DEF CauseAt
  <2> QED
    BY <1>3, <2>2, <2>3 DEF Begin
<1>4. CASE BeginFails(u)
  <2>1. /\ size[u] <= MaxSize /\ size'[u] = size[u] /\ frames'[u] = 0
        /\ stage'[u] = "done" /\ raised'[u] = "OSError"
        /\ status'[u] = StatusOf("OSError")
    BY <1>2, <1>4 DEF BeginFails, CauseAt
  <2> QED
    BY <2>1 DEF CauseAt, CauseOf, None
<1>5. CASE ReadChunk(u)
  <2>1. stage[u] = "reading" /\ size[u] <= MaxSize /\ frames[u] = 0 /\ raised[u] = None
    BY <1>2, <1>5 DEF ReadChunk, CauseAt
  <2>2. size'[u] = size[u] + 1 /\ frames'[u] = 0 /\ result'[u] = None
    BY <1>5, <2>1 DEF ReadChunk, Raise, Await
  <2>3. CASE size[u] + 1 > MaxSize
    <3>1. stage'[u] = "removing" /\ raised'[u] = "CaptureTooLargeError"
      BY <1>5, <2>3 DEF ReadChunk, Raise, Await
    <3> QED
      BY <1>0, <2>2, <2>3, <3>1 DEF CauseAt, CauseOf, None
  <2>4. CASE size[u] + 1 <= MaxSize
    <3>1. stage'[u] = "writing" /\ raised'[u] = None
      BY <1>5, <2>1, <2>4 DEF ReadChunk, Raise, Await
    <3>2. size'[u] \in 1 .. MaxSize
      BY <2>2, <2>4
    <3> QED
      BY <1>0, <2>2, <3>1, <3>2 DEF CauseAt, Fits
  <2> QED
    BY <2>3, <2>4
<1>6. CASE EndOfFile(u)
  <2>1. stage[u] = "reading" /\ size[u] <= MaxSize /\ frames[u] = 0 /\ raised[u] = None
    BY <1>2, <1>6 DEF EndOfFile, CauseAt
  <2>2. size'[u] = size[u] /\ frames'[u] = 0 /\ result'[u] = None
    BY <1>6, <2>1 DEF EndOfFile, Raise, Await
  <2>3. CASE Raise(u, "OSError") \/ (size[u] = 0 /\ Raise(u, "HTTPException"))
    BY <1>0, <2>1, <2>2, <2>3 DEF Raise, Await, CauseAt, CauseOf, None
  <2>4. CASE size[u] > 0 /\ Await(u, "header") /\ UNCHANGED raised
    BY <1>0, <2>1, <2>2, <2>4 DEF Await, CauseAt, Fits
  <2> QED
    BY <1>6, <2>3, <2>4 DEF EndOfFile
<1>7. CASE Written(u)
  BY <1>0, <1>2, <1>7 DEF Written, Resumed, CauseAt, Fits
<1>8. CASE Advance(u)
  <2>1. /\ size'[u] = size[u] /\ frames'[u] = frames[u] /\ raised'[u] = raised[u]
        /\ result'[u] = None
    BY <1>8 DEF Advance, Await
  <2>2. CASE Resumed(u, "header", "ok") /\ Await(u, "dissecting")
    BY <1>0, <1>2, <2>1, <2>2 DEF Resumed, Await, CauseAt, Fits
  <2>3. CASE Resumed(u, "dissecting", "ok") /\ Await(u, "aggregating")
    BY <1>0, <1>2, <2>1, <2>3 DEF Resumed, Await, CauseAt, Fits
  <2>4. CASE Resumed(u, "aggregating", "ok") /\ Await(u, "removing")
    BY <1>0, <1>2, <2>1, <2>4 DEF Resumed, Await, CauseAt, CauseOf, Fits
  <2> QED
    BY <1>8, <2>2, <2>3, <2>4 DEF Advance
<1>9. CASE Fail(u)
  <2>1. PICK s \in Awaits \ {"removing"}, e \in Exceptions : Resumed(u, s, e) /\ Raise(u, e)
    BY <1>9 DEF Fail
  <2>2. /\ size'[u] = size[u] /\ frames'[u] = frames[u] /\ raised'[u] = e
        /\ result[u] = e /\ stage[u] = s /\ stage'[u] = "removing"
    BY <1>9, <2>1 DEF Fail, Resumed, Raise, Await
  <2>3. CauseOf(u, e)
    <3>1. CASE s \in {"writing", "header", "dissecting"}
      BY <1>0, <1>2, <2>2, <3>1 DEF CauseAt, CauseOf, Fits
    <3>2. CASE s = "aggregating"
      BY <1>0, <1>2, <2>2, <3>2 DEF CauseAt
    <3> QED
      BY <1>0, <3>1, <3>2
  <2>4. CauseOf(u, raised[u])'
    BY <2>2, <2>3 DEF CauseOf, Fits
  <2> QED
    BY <2>2, <2>4 DEF CauseAt
<1>10. CASE Answer(u)
  BY <1>0, <1>2, <1>10 DEF Answer, Resumed, CauseAt, CauseOf, Fits
<1> QED
  BY <1>3, <1>4, <1>5, <1>6, <1>7, <1>8, <1>9, <1>10 DEF Handle

LEMMA CauseFinished ==
  ASSUME TypeOK, CauseInv, NEW u \in Id, u \in busy => result[u] = None, FinishJob(u)
  PROVE  CauseInv'
<1> USE LimitsAssumption DEF TypeOK
<1>1. PICK s \in Awaits : \E r : Finish(u, s, r)
  BY DEF FinishJob, FinishWrite, FinishHeader, FinishDissection, FinishAggregation,
         FinishRemoval, Awaits
<1>2. /\ stage[u] = s /\ result[u] = None /\ stage' = stage /\ size' = size
      /\ raised' = raised /\ status' = status
      /\ \E r : result' = [result EXCEPT ![u] = r]
  BY <1>1 DEF Finish
<1>3. CauseAt(u)
  BY DEF CauseInv
<1>4. ASSUME NEW v \in Id, v # u PROVE CauseAt(v)'
  <2>1. frames'[v] = frames[v] /\ result'[v] = result[v]
    BY <1>2, <1>4
       DEF FinishJob, FinishWrite, FinishHeader, FinishDissection, FinishAggregation,
           FinishRemoval
  <2> QED
    BY <1>2, <2>1, CauseKept DEF CauseInv
<1>5. CauseAt(u)'
  <2>1. CASE FinishWrite(u) \/ FinishHeader(u)
    BY <1>2, <1>3, <2>1 DEF FinishWrite, FinishHeader, Finish, CauseAt, Fits
  <2>2. CASE FinishDissection(u)
    BY <1>2, <1>3, <2>2 DEF FinishDissection, Finish, CauseAt, Fits, None
  <2>3. CASE FinishAggregation(u)
    <3>1. Fits(u) /\ raised[u] = None /\ stage[u] = "aggregating" /\ frames' = frames
      BY <1>2, <1>3, <2>3 DEF FinishAggregation, Finish, CauseAt
    <3>2. /\ result'[u] \in {"ok", "CaptureTooLargeError", "EmptyCaptureError",
                            "ValueError", "KeyError"}
          /\ result'[u] = "CaptureTooLargeError" <=> frames[u] > MaxFrames
          /\ result'[u] = "EmptyCaptureError" => frames[u] = 0
          /\ result'[u] = "ok" => frames[u] \in 1 .. MaxFrames
      BY <2>3 DEF FinishAggregation, Finish
    <3>3. Fits(u)'
      BY <1>2, <3>1 DEF Fits
    <3>4. result'[u] = "ok" => CauseOf(u, None)'
      BY <1>2, <3>1, <3>2, <3>3 DEF CauseOf, Fits, None
    <3>5. result'[u] \notin {None, "ok"} => CauseOf(u, result[u])'
      BY <1>2, <3>1, <3>2, <3>3 DEF CauseOf, Fits, None
    <3> QED
      BY <1>2, <3>1, <3>2, <3>3, <3>4, <3>5 DEF CauseAt
  <2>4. CASE FinishRemoval(u)
    BY <1>2, <1>3, <2>4 DEF FinishRemoval, Finish, CauseAt, CauseOf, Fits
  <2> QED
    BY <2>1, <2>2, <2>3, <2>4 DEF FinishJob
<1> QED
  BY <1>4, <1>5 DEF CauseInv

LEMMA CauseStep == TypeOK /\ OneJobPerAwait /\ CauseInv /\ [Next]_vars => CauseInv'
<1> SUFFICES ASSUME TypeOK, OneJobPerAwait, CauseInv, [Next]_vars PROVE CauseInv'
  OBVIOUS
<1>1. CASE \E u \in Id : Handle(u)
  BY <1>1, CauseHandled
<1>2. CASE \E u \in Id : FinishJob(u)
  BY <1>2, CauseFinished DEF OneJobPerAwait
<1>3. CASE Crash
  BY <1>3, LimitsAssumption DEF Crash, CauseInv, CauseAt
<1>4. CASE UNCHANGED <<stage, size, frames, raised, status, result>>
  BY <1>4, CauseKept DEF CauseInv
<1> QED
  BY <1>1, <1>2, <1>3, <1>4
     DEF Next, vars, upload, pool, ReadCapture, TakeJob, HealthBegin, HealthEnd,
         ToolsChange, Boot

\* The inductive invariant of the answers.
THEOREM CauseAlways == Spec => []CauseInv
<1>1. Init => CauseInv
  BY LimitsAssumption DEF Init, CauseInv, CauseAt
<1> QED
  BY <1>1, CauseStep, JobsFollowAwaits, ServiceTypeCorrect, PTL DEF Spec

\* The status of an answer tells what was wrong: the order of the except arms
\* lets no general one answer for a more particular exception.
THEOREM StatusTells == Spec => []StatusTellsCause
<1>1. TypeOK /\ CauseInv => StatusTellsCause
  <2> SUFFICES ASSUME TypeOK, CauseInv, NEW u \in Id, stage[u] = "done"
               PROVE  LET fits == size[u] \in 1 .. MaxSize
                      IN  /\ status[u] = 413 <=> (size[u] > MaxSize \/ frames[u] > MaxFrames)
                          /\ status[u] = 422 => size[u] = 0 \/ (fits /\ frames[u] <= MaxFrames)
                          /\ status[u] = 503 => fits /\ frames[u] = 0
                          /\ status[u] = 201 => fits /\ frames[u] \in 1 .. MaxFrames
    BY DEF StatusTellsCause
  <2>1. CauseOf(u, raised[u]) /\ status[u] = StatusOf(raised[u])
    BY DEF CauseInv, CauseAt
  <2>2. raised[u] \in Exceptions \cup {None} /\ frames[u] \in Nat /\ size[u] \in Nat
    BY DEF TypeOK
  <2> QED
    BY <2>1, <2>2, StatusOfValues, LimitsAssumption DEF Exceptions, CauseOf, Fits, None
<1> QED
  BY <1>1, CauseAlways, ServiceTypeCorrect, PTL

=============================================================================
