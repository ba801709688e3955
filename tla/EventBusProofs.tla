--------------------------- MODULE EventBusProofs ---------------------------
(***************************************************************************)
(* Proofs about EventBus, for any topics, subscribers, publishers, keys    *)
(* and queue sizes: the types, the agreement of a subscription's queue     *)
(* with its keys, that a lossy subscription implements KeepLatest and      *)
(* counts what it drops, that a lossless one gets every event in order,    *)
(* and that the counters account for every event.                          *)
(***************************************************************************)
EXTENDS EventBus, FiniteSetTheorems, WellFoundedInduction, TLAPS

(***************************************************************************)
(* Queues.  A tidy queue stands for each key at most once, and its         *)
(* payloads are of no key.                                                 *)
(***************************************************************************)
IsKey(q, j) == q[j].kind = "key"
Keyed(q)    == {j \in DOMAIN q : IsKey(q, j)}
Plain(q)    == {j \in DOMAIN q : q[j].kind = "payload"}
KeysOf(q)   == {q[j].src : j \in Keyed(q)}

Tidy(q) ==
  /\ q \in Seq(Items)
  /\ \A j \in 1..Len(q) : IF IsKey(q, j) THEN q[j].src \in Keys /\ q[j].no = 0
                          ELSE q[j].src \notin Keys
  /\ \A i, j \in 1..Len(q) :
       IsKey(q, i) /\ IsKey(q, j) /\ q[i].src = q[j].src => i = j

(* The items of a queue are its keys and its plain payloads. *)
LEMMA Counts ==
  ASSUME NEW q, Tidy(q)
  PROVE  /\ IsFiniteSet(KeysOf(q)) /\ IsFiniteSet(Plain(q))
         /\ Cardinality(KeysOf(q)) \in Nat /\ Cardinality(Plain(q)) \in Nat
         /\ Len(q) = Cardinality(KeysOf(q)) + Cardinality(Plain(q))
<1>1. q \in Seq(Items) /\ Len(q) \in Nat /\ DOMAIN q = 1..Len(q)
  BY DEF Tidy
<1>2. IsFiniteSet(1..Len(q)) /\ Cardinality(1..Len(q)) = Len(q)
  BY <1>1, FS_Interval
<1>3. IsFiniteSet(Keyed(q)) /\ IsFiniteSet(Plain(q))
  BY <1>1, <1>2, FS_Subset DEF Keyed, Plain
<1>4. Keyed(q) \cup Plain(q) = 1..Len(q) /\ Keyed(q) \cap Plain(q) = {}
  <2>1. \A j \in 1..Len(q) : q[j].kind = "key" \/ q[j].kind = "payload"
    <3>1. \A j \in 1..Len(q) : q[j] \in Items
      BY <1>1
    <3> QED
      BY <3>1 DEF Items
  <2> QED
    BY <2>1, <1>1 DEF Keyed, Plain, IsKey
<1>5. Cardinality(1..Len(q)) = Cardinality(Keyed(q)) + Cardinality(Plain(q))
  <2>1. Cardinality(Keyed(q) \cup Plain(q)) = Cardinality(Keyed(q)) + Cardinality(Plain(q))
    <3>1. Cardinality(Keyed(q)) \in Nat /\ Cardinality(Plain(q)) \in Nat
      BY <1>3, FS_CardinalityType
    <3>2. Cardinality(Keyed(q) \cap Plain(q)) = 0
      BY <1>4, FS_EmptySet
    <3>3. Cardinality(Keyed(q) \cup Plain(q)) =
            Cardinality(Keyed(q)) + Cardinality(Plain(q)) - Cardinality(Keyed(q) \cap Plain(q))
      BY <1>3, FS_Union
    <3> QED
      BY <3>1, <3>2, <3>3
  <2> QED
    BY <2>1, <1>4
<1>6. IsFiniteSet(KeysOf(q)) /\ Cardinality(KeysOf(q)) = Cardinality(Keyed(q))
  <2> DEFINE f == [j \in Keyed(q) |-> q[j].src]
  <2>1. f \in Bijection(Keyed(q), KeysOf(q))
    <3>1. f \in [Keyed(q) -> KeysOf(q)]
      BY DEF KeysOf
    <3>2. \A i, j \in Keyed(q) : f[i] = f[j] => i = j
      BY <1>1 DEF Keyed, Tidy
    <3>3. \A k \in KeysOf(q) : \E j \in Keyed(q) : f[j] = k
      BY DEF KeysOf
    <3> HIDE DEF f
    <3> QED
      BY <3>1, <3>2, <3>3 DEF Bijection, Injection, Surjection, IsInjective
  <2>2. ExistsBijection(Keyed(q), KeysOf(q))
    BY <2>1 DEF ExistsBijection
  <2>3. Cardinality(Keyed(q)) = Cardinality(KeysOf(q))
    BY <2>2, <1>3, FS_Bijection
  <2>4. IsFiniteSet(KeysOf(q))
    BY <2>2, <1>3, FS_Bijection
  <2> QED
    BY <2>3, <2>4
<1>7. Cardinality(KeysOf(q)) \in Nat /\ Cardinality(Plain(q)) \in Nat
  BY <1>3, <1>6, FS_CardinalityType
<1> QED
  BY <1>2, <1>3, <1>5, <1>6, <1>7

LEMMA EmptyTidy == Tidy(<<>>) /\ KeysOf(<<>>) = {} /\ Plain(<<>>) = {}
  BY DEF Tidy, KeysOf, Keyed, Plain

(* Taking the first item takes its key away, if it stands for one. *)
LEMMA TailTidy ==
  ASSUME NEW q, Tidy(q), q # <<>>
  PROVE  /\ Tidy(Tail(q)) /\ Len(Tail(q)) = Len(q) - 1 /\ Len(q) > 0
         /\ Head(q) \in Items /\ Head(q) = q[1]
         /\ Head(q).kind = "key" =>
              /\ Head(q).src \in KeysOf(q) /\ Head(q).src \in Keys
              /\ Head(q) = KeyItem(Head(q).src)
              /\ KeysOf(Tail(q)) = KeysOf(q) \ {Head(q).src}
         /\ Head(q).kind # "key" =>
              /\ Head(q).kind = "payload" /\ Head(q).src \notin Keys
              /\ 1 \in Plain(q) /\ KeysOf(Tail(q)) = KeysOf(q)
<1> DEFINE r == Tail(q)
<1>1. q \in Seq(Items) /\ Len(q) \in Nat /\ Len(q) > 0 /\ DOMAIN q = 1..Len(q)
  BY DEF Tidy
<1>2. r \in Seq(Items) /\ Len(r) = Len(q) - 1 /\ DOMAIN r = 1..Len(r)
  BY <1>1
<1>3. \A j \in 1..Len(r) : r[j] = q[j + 1] /\ j + 1 \in 1..Len(q)
  BY <1>1
<1>4. \A j \in 1..Len(q) : j = 1 \/ (j - 1 \in 1..Len(r) /\ r[j - 1] = q[j])
  BY <1>1, <1>2
<1>5. Head(q) = q[1] /\ 1 \in 1..Len(q) /\ Head(q) \in Items
  BY <1>1
<1> HIDE DEF r
<1>6. Tidy(r)
  <2>1. \A j \in 1..Len(r) : IF IsKey(r, j) THEN r[j].src \in Keys /\ r[j].no = 0
                             ELSE r[j].src \notin Keys
    BY <1>3 DEF Tidy, IsKey
  <2>2. ASSUME NEW i \in 1..Len(r), NEW j \in 1..Len(r),
               IsKey(r, i), IsKey(r, j), r[i].src = r[j].src
        PROVE  i = j
    <3>1. i + 1 = j + 1
      BY <1>3, <2>2 DEF Tidy, IsKey
    <3> QED
      BY <3>1, <1>2
  <2> QED
    BY <1>2, <2>1, <2>2 DEF Tidy
<1>7. KeysOf(q) = KeysOf(r) \cup {q[j].src : j \in {j \in {1} : IsKey(q, 1)}}
  <2>1. ASSUME NEW k \in KeysOf(q) PROVE k \in KeysOf(r) \/ (IsKey(q, 1) /\ k = q[1].src)
    <3>1. PICK j \in 1..Len(q) : IsKey(q, j) /\ k = q[j].src
      BY <1>1 DEF KeysOf, Keyed
    <3>2. CASE j = 1
      BY <3>1, <3>2
    <3>3. CASE j # 1
      <4>1. j - 1 \in DOMAIN r /\ r[j - 1] = q[j]
        BY <1>2, <1>4, <3>3
      <4>2. j - 1 \in Keyed(r) /\ r[j - 1].src = k
        BY <3>1, <4>1 DEF Keyed, IsKey
      <4> QED
        BY <4>2 DEF KeysOf
    <3> QED
      BY <3>2, <3>3
  <2>2. ASSUME NEW k \in KeysOf(r) PROVE k \in KeysOf(q)
    <3>1. PICK j \in 1..Len(r) : IsKey(r, j) /\ k = r[j].src
      BY <1>2 DEF KeysOf, Keyed
    <3> QED
      BY <3>1, <1>1, <1>3 DEF KeysOf, Keyed, IsKey
  <2>3. IsKey(q, 1) => q[1].src \in KeysOf(q)
    BY <1>1, <1>5 DEF KeysOf, Keyed
  <2> QED
    BY <2>1, <2>2, <2>3
<1>8. CASE IsKey(q, 1)
  <2>1. q[1].src \in Keys /\ q[1].no = 0 /\ q[1].kind = "key"
    BY <1>5, <1>8 DEF Tidy, IsKey
  <2>2. q[1] = KeyItem(q[1].src)
    BY <2>1, <1>5 DEF Items, KeyItem
  <2>3. q[1].src \notin KeysOf(r)
    <3>1. SUFFICES ASSUME q[1].src \in KeysOf(r) PROVE FALSE
      OBVIOUS
    <3>2. PICK j \in 1..Len(r) : IsKey(r, j) /\ q[1].src = r[j].src
      BY <3>1, <1>2 DEF KeysOf, Keyed
    <3>3. IsKey(q, j + 1) /\ q[1].src = q[j + 1].src /\ j + 1 \in 1..Len(q)
      BY <3>2, <1>3 DEF IsKey
    <3>4. 1 = j + 1
      BY <3>3, <1>5, <1>8 DEF Tidy
    <3> QED
      BY <3>4, <1>2
  <2>4. KeysOf(r) = KeysOf(q) \ {q[1].src} /\ q[1].src \in KeysOf(q)
    BY <1>7, <1>8, <2>3
  <2> QED
    BY <1>1, <1>2, <1>5, <1>6, <2>1, <2>2, <2>4 DEF r
<1>9. CASE ~IsKey(q, 1)
  <2>1. q[1].src \notin Keys /\ q[1].kind # "key"
    BY <1>5, <1>9 DEF Tidy, IsKey
  <2>2. q[1].kind = "payload" /\ 1 \in Plain(q)
    BY <1>1, <1>5, <2>1 DEF Items, Plain
  <2>3. KeysOf(r) = KeysOf(q)
    BY <1>7, <1>9
  <2> QED
    BY <1>1, <1>2, <1>5, <1>6, <2>1, <2>2, <2>3 DEF r
<1> QED
  BY <1>8, <1>9

(* What an appended item does to the keys. *)
LEMMA AppendTidy ==
  ASSUME NEW q, Tidy(q), NEW e \in Items,
         IF e.kind = "key" THEN e.src \in Keys \ KeysOf(q) /\ e.no = 0 ELSE e.src \notin Keys
  PROVE  /\ Tidy(Append(q, e)) /\ Len(Append(q, e)) = Len(q) + 1
         /\ KeysOf(Append(q, e)) = KeysOf(q) \cup (IF e.kind = "key" THEN {e.src} ELSE {})
<1> DEFINE r == Append(q, e)
<1>1. q \in Seq(Items) /\ Len(q) \in Nat /\ DOMAIN q = 1..Len(q)
  BY DEF Tidy
<1>2. r \in Seq(Items) /\ Len(r) = Len(q) + 1 /\ DOMAIN r = 1..Len(r)
  BY <1>1
<1>3. \A j \in 1..Len(q) : r[j] = q[j] /\ j \in 1..Len(r) /\ j # Len(r)
  BY <1>1
<1>4. r[Len(r)] = e /\ Len(r) \in 1..Len(r)
  BY <1>1
<1>5. \A j \in 1..Len(r) : j = Len(r) \/ j \in 1..Len(q)
  BY <1>1, <1>2
<1> HIDE DEF r
<1>6. Tidy(r)
  <2>1. \A j \in 1..Len(r) : IF IsKey(r, j) THEN r[j].src \in Keys /\ r[j].no = 0
                             ELSE r[j].src \notin Keys
    BY <1>3, <1>4, <1>5 DEF Tidy, IsKey
  <2>2. ASSUME NEW i \in 1..Len(r), NEW j \in 1..Len(r),
               IsKey(r, i), IsKey(r, j), r[i].src = r[j].src
        PROVE  i = j
    <3>1. \A n \in 1..Len(q) : IsKey(r, n) => r[n].src \in KeysOf(q)
      BY <1>1, <1>3 DEF IsKey, KeysOf, Keyed
    <3>2. CASE i \in 1..Len(q) /\ j \in 1..Len(q)
      BY <3>2, <2>2, <1>3 DEF Tidy, IsKey
    <3>3. CASE i = Len(r) \/ j = Len(r)
      BY <3>1, <3>3, <2>2, <1>4, <1>5 DEF IsKey
    <3> QED
      BY <3>2, <3>3, <1>5
  <2> QED
    BY <1>2, <2>1, <2>2 DEF Tidy
<1>7. ASSUME NEW k PROVE k \in KeysOf(r) <=> k \in KeysOf(q) \/ (e.kind = "key" /\ k = e.src)
  BY <1>1, <1>2, <1>3, <1>4, <1>5 DEF KeysOf, Keyed, IsKey
<1>8. KeysOf(r) = KeysOf(q) \cup (IF e.kind = "key" THEN {e.src} ELSE {})
  BY <1>7
<1> QED
  BY <1>2, <1>6, <1>8 DEF r
-----------------------------------------------------------------------------
(***************************************************************************)
(* Types.  A topic lists subscriptions of its own, and a publisher waits   *)
(* at a subscription of a topic that is not lossy.                         *)
(***************************************************************************)
SubsFit == \A t \in Topics : \A j \in DOMAIN subs[t] : TopicOf[subs[t][j]] = t

PubFit ==
  \A x \in Publishers : pub[x] # NotWaiting =>
    pub[x].topic \notin Lossy /\ TopicOf[pub[x].at] = pub[x].topic

TypeInv == TypeOK /\ SubsFit /\ PubFit

LEMMA Assumed ==
  /\ Lossy \subseteq Topics /\ None \notin Topics /\ None \notin Keys
  /\ \A x \in Publishers : x \notin Keys /\ x # None /\ x \in Sources
  /\ \A k \in Keys : k \in Sources
  /\ None \in Sources /\ Cap \in Nat /\ Cap > 0
  /\ \A s \in Subs : TopicOf[s] \in Topics /\ s \in Publishers
  /\ \A s \in Subs : Relay[s] # None => Relay[s] \in Topics
  /\ \A x \in Producers : x \in Publishers /\ \A t \in Posts[x] : t \in Topics
  BY TopicsAssumption, SourcesAssumption, CapAssumption DEF Sources, Publishers

LEMMA ItemsTyped ==
  /\ \A x \in Sources, n \in Nat : Payload(x, n) \in Items
  /\ \A k \in Keys : KeyItem(k) \in Items
  /\ \A x, n : Payload(x, n).kind = "payload" /\ Payload(x, n).src = x
  /\ \A k : KeyItem(k).kind = "key" /\ KeyItem(k).src = k /\ KeyItem(k).no = 0
  BY Assumed DEF Payload, KeyItem, Items

LEMMA NotWaitingTyped ==
  /\ NotWaiting.topic = None /\ NotWaiting \notin Waiting
  /\ \A w \in Waiting : w # NotWaiting
  BY Assumed DEF NotWaiting, Waiting

LEMMA ListedAre ==
  ASSUME TypeInv
  PROVE  /\ \A t \in Topics : /\ subs[t] \in Seq(Subs) /\ IsFiniteSet(Subscribed(t))
                              /\ \A s \in Subscribed(t) : s \in Subs /\ TopicOf[s] = t
         /\ Listed \subseteq Subs
<1>1. ASSUME NEW t \in Topics
      PROVE  /\ subs[t] \in Seq(Subs) /\ IsFiniteSet(Subscribed(t))
             /\ \A s \in Subscribed(t) : s \in Subs /\ TopicOf[s] = t
  <2>1. subs[t] \in Seq(Subs) /\ Len(subs[t]) \in Nat /\ DOMAIN subs[t] = 1..Len(subs[t])
    BY DEF TypeInv, TypeOK
  <2>2. \A s \in Subscribed(t) : s \in Subs /\ TopicOf[s] = t
    BY <2>1 DEF Subscribed, Places, TypeInv, SubsFit
  <2>3. IsFiniteSet(1..Len(subs[t]))
    BY <2>1, FS_Interval
  <2> DEFINE f == [j \in 1..Len(subs[t]) |-> subs[t][j]]
  <2>4. f \in Surjection(1..Len(subs[t]), Subscribed(t))
    BY <2>1 DEF Surjection, Subscribed, Places
  <2>5. IsFiniteSet(Subscribed(t))
    BY <2>3, <2>4, FS_Surjection
  <2> QED
    BY <2>1, <2>2, <2>5
<1> QED
  BY <1>1 DEF Listed

LEMMA StartedTyped ==
  ASSUME TypeOK, NEW S
  PROVE  EnsureStarted(S) \in [Subs -> {"none", "running", "cancelled"}]
  BY DEF TypeOK, EnsureStarted

(* The first full queue: those before it have room. *)
LEMMA Least ==
  ASSUME NEW S \in SUBSET Nat, S # {}
  PROVE  Min(S) \in S /\ \A y \in S : Min(S) <= y
<1>1. PICK x \in S : \A y \in S : ~(<<y, x>> \in OpToRel(<, Nat))
  BY NatLessThanWellFounded, WFMin
<1>2. \A y \in S : ~(y < x)
  BY <1>1 DEF OpToRel
<1>3. \A y \in S : x <= y
  BY <1>2
<1> QED
  BY <1>3 DEF Min

LEMMA FirstFullIs ==
  ASSUME TypeInv, NEW t \in Topics, NEW from \in Nat
  PROVE  /\ FirstFull(t, from) \in Nat
         /\ \A j \in Places(t) : from <= j /\ j < FirstFull(t, from) => ~Full(subs[t][j])
<1> DEFINE F == {j \in Places(t) : j >= from /\ Full(subs[t][j])}
<1>1. subs[t] \in Seq(Subs) /\ Len(subs[t]) \in Nat /\ Places(t) = 1..Len(subs[t])
  BY DEF TypeInv, TypeOK, Places
<1>2. F \cup {Len(subs[t]) + 1} \in SUBSET Nat /\ F \cup {Len(subs[t]) + 1} # {}
  BY <1>1
<1>3. /\ FirstFull(t, from) \in F \cup {Len(subs[t]) + 1}
      /\ \A y \in F \cup {Len(subs[t]) + 1} : FirstFull(t, from) <= y
  <2> DEFINE S == F \cup {Len(subs[t]) + 1}
  <2>1. FirstFull(t, from) = Min(S)
    BY DEF FirstFull
  <2>2. S \in SUBSET Nat /\ S # {}
    BY <1>2
  <2> HIDE DEF S
  <2>3. Min(S) \in S /\ \A y \in S : Min(S) <= y
    BY <2>2, Least
  <2> QED
    BY <2>1, <2>3 DEF S
<1>4. ASSUME NEW j \in Places(t), from <= j, j < FirstFull(t, from), Full(subs[t][j])
      PROVE  FALSE
  <2>1. j \in F
    BY <1>1, <1>4
  <2> QED
    BY <2>1, <1>1, <1>2, <1>3, <1>4
<1> QED
  BY <1>2, <1>3, <1>4
(* A publication that walks the list puts into queues that have room, and  *)
(* waits at a subscription of its topic.                                   *)
PutInto(s, x, t, no) ==
  queue'[s] = Append(queue[s], Payload(x, no)) /\ ~Full(s) /\ TopicOf[s] = t

LEMMA PutFromTyped ==
  ASSUME TypeInv, NEW x \in Publishers, NEW t \in Topics \ Lossy, NEW no \in Nat,
         NEW from \in Nat, NEW resumed \in SUBSET Subs,
         \A s \in resumed : TopicOf[s] = t /\ ~Full(s),
         PutFrom(x, t, no, from, resumed)
  PROVE  /\ queue' \in [Subs -> Seq(Items)] /\ \A s \in Subs : Len(queue'[s]) <= Cap
         /\ \A s \in Subs : queue'[s] = queue[s] \/ PutInto(s, x, t, no)
         /\ offered' \in [Subs -> Nat]
         /\ pub' \in [Publishers -> Waiting \cup {NotWaiting}]
         /\ PubFit'
<1> DEFINE stop    == FirstFull(t, from)
           reached == resumed \cup {subs[t][j] : j \in {j \in Places(t) : from <= j /\ j < stop}}
<1>1. /\ queue' = [s \in Subs |-> IF s \in reached THEN Append(queue[s], Payload(x, no)) ELSE queue[s]]
      /\ offered' = [s \in Subs |-> offered[s] + IF s \in reached THEN 1 ELSE 0]
      /\ pub' = [pub EXCEPT ![x] =
           IF stop \in Places(t)
           THEN [topic |-> t, no |-> no, at |-> subs[t][stop], next |-> stop + 1]
           ELSE NotWaiting]
  BY DEF PutFrom
<1>2. stop \in Nat /\ \A j \in Places(t) : from <= j /\ j < stop => ~Full(subs[t][j])
  BY FirstFullIs
<1>3. \A j \in Places(t) : subs[t][j] \in Subs /\ TopicOf[subs[t][j]] = t
  BY DEF TypeInv, TypeOK, SubsFit, Places
<1>4. reached \subseteq Subs /\ \A s \in reached : TopicOf[s] = t /\ ~Full(s)
  BY <1>2, <1>3
<1> HIDE DEF stop, reached
<1>5. Payload(x, no) \in Items
  BY ItemsTyped, Assumed
<1>6. ASSUME NEW s \in Subs
      PROVE  /\ queue'[s] \in Seq(Items) /\ Len(queue'[s]) <= Cap
             /\ queue'[s] = queue[s] \/ PutInto(s, x, t, no)
  <2>1. queue[s] \in Seq(Items) /\ Len(queue[s]) <= Cap /\ Len(queue[s]) \in Nat
    BY DEF TypeInv, TypeOK
  <2>2. CASE s \in reached
    <3>1. queue'[s] = Append(queue[s], Payload(x, no)) /\ ~Full(s) /\ TopicOf[s] = t
      BY <1>1, <1>4, <2>2
    <3> QED
      BY <3>1, <2>1, <1>5, Assumed DEF Full, PutInto
  <2>3. CASE s \notin reached
    BY <1>1, <2>1, <2>3
  <2> QED
    BY <2>2, <2>3
<1>7. queue' \in [Subs -> Seq(Items)]
  BY <1>1, <1>6
<1>8. offered' \in [Subs -> Nat]
  <2>1. \A s \in Subs : offered[s] \in Nat
    BY DEF TypeInv, TypeOK
  <2>2. \A s \in Subs : offered[s] + (IF s \in reached THEN 1 ELSE 0) \in Nat
    BY <2>1
  <2> QED
    BY <1>1, <2>2
<1>9. stop \in Places(t) =>
        [topic |-> t, no |-> no, at |-> subs[t][stop], next |-> stop + 1] \in Waiting
  BY <1>2, <1>3 DEF Waiting
<1>10. pub' \in [Publishers -> Waiting \cup {NotWaiting}]
  BY <1>1, <1>9 DEF TypeInv, TypeOK
<1>11. ASSUME NEW y \in Publishers, pub'[y] # NotWaiting
       PROVE  pub'[y].topic \notin Lossy /\ TopicOf[pub'[y].at] = pub'[y].topic
  <2>1. CASE y = x
    BY <1>1, <1>3, <1>11, <2>1 DEF TypeInv, TypeOK
  <2>2. CASE y # x
    BY <1>1, <1>11, <2>2 DEF TypeInv, TypeOK, PubFit
  <2> QED
    BY <2>1, <2>2
<1> QED
  BY <1>6, <1>7, <1>8, <1>10, <1>11 DEF PubFit

(* The types, but for the handlers and close(). *)
BusTyped ==
  /\ subs \in [Topics -> Seq(Subs)]
  /\ queue \in [Subs -> Seq(Items)] /\ \A s \in Subs : Len(queue[s]) <= Cap
  /\ latest \in [Subs -> [Keys -> Nat]]
  /\ pending \in [Subs -> SUBSET Keys]
  /\ task \in [Subs -> {"none", "running", "cancelled"}]
  /\ pub \in [Publishers -> Waiting \cup {NotWaiting}]
  /\ stats \in [Counters -> Nat]
  /\ sent \in [Topics -> [Sources -> Nat]]
  /\ since \in [Subs -> [Sources -> Nat]]
  /\ newest \in [Subs -> [Sources -> Nat]]
  /\ handed \in [Subs -> Nat]
  /\ offered \in [Subs -> Nat]

HandlersTyped ==
  handling \in [Subs -> [src : Sources, no : Nat, relayed : BOOLEAN]] /\ closing \in BOOLEAN

LEMMA TypesAfter == BusTyped' /\ HandlersTyped' => TypeOK'
  BY DEF TypeOK, BusTyped, HandlersTyped

LEMMA CountedTyped ==
  ASSUME TypeInv, NEW t
  PROVE  Counted(t) \in [Counters -> Nat] /\ stats \in [Counters -> Nat]
<1> DEFINE one == IF subs[t] = <<>> THEN 0 ELSE 1
<1>1. one \in Nat
  OBVIOUS
<1>2. Counted(t) = [stats EXCEPT !.published = @ + one]
  BY DEF Counted
<1>3. stats \in [Counters -> Nat]
  BY DEF TypeInv, TypeOK
<1> HIDE DEF one
<1> QED
  BY <1>1, <1>2, <1>3 DEF Counters

LEMMA PublishLosslessTyped ==
  ASSUME TypeInv, NEW x \in Publishers, NEW t \in Topics, PublishLossless(x, t)
  PROVE  BusTyped' /\ SubsFit' /\ PubFit'
<1>1. /\ t \in Topics \ Lossy /\ PutFrom(x, t, sent[t][x] + 1, 1, {})
      /\ sent' = [sent EXCEPT ![t][x] = @ + 1]
      /\ UNCHANGED <<subs, latest, pending, since, newest, handed>>
      /\ task' = EnsureStarted(Listed) /\ stats' = Counted(t)
  BY DEF PublishLossless
<1>2. x \in Sources /\ sent[t][x] + 1 \in Nat /\ sent' \in [Topics -> [Sources -> Nat]]
  BY <1>1, Assumed DEF TypeInv, TypeOK
<1>3. /\ queue' \in [Subs -> Seq(Items)] /\ \A s \in Subs : Len(queue'[s]) <= Cap
      /\ offered' \in [Subs -> Nat]
      /\ pub' \in [Publishers -> Waiting \cup {NotWaiting}]
      /\ PubFit'
  <2>1. 1 \in Nat /\ {} \in SUBSET Subs /\ (\A s \in {} : TopicOf[s] = t /\ ~Full(s))
    OBVIOUS
  <2>2. sent[t][x] + 1 \in Nat
    BY <1>2
  <2> QED
    BY <1>1, <2>1, <2>2, PutFromTyped
<1>4. task' \in [Subs -> {"none", "running", "cancelled"}] /\ stats' \in [Counters -> Nat]
  BY <1>1, StartedTyped, CountedTyped DEF TypeInv
<1>5. SubsFit'
  BY <1>1 DEF TypeInv, SubsFit
<1> QED
  BY <1>1, <1>2, <1>3, <1>4, <1>5 DEF BusTyped, TypeInv, TypeOK

LEMMA ResumeTyped ==
  ASSUME TypeInv, NEW x \in Publishers, PublisherResumes(x)
  PROVE  BusTyped' /\ SubsFit' /\ PubFit'
<1> DEFINE w == pub[x]
<1>1. /\ w # NotWaiting /\ ~Full(w.at)
      /\ PutFrom(x, w.topic, w.no, w.next, {w.at})
      /\ UNCHANGED <<subs, latest, pending, task, handling, stats, closing, sent, since, newest, handed>>
  BY DEF PublisherResumes
<1>2. /\ w \in Waiting /\ w.topic \in Topics \ Lossy /\ w.no \in Nat /\ w.next \in Nat
      /\ w.at \in Subs /\ TopicOf[w.at] = w.topic
  BY <1>1 DEF TypeInv, TypeOK, PubFit, Waiting
<1>3. /\ queue' \in [Subs -> Seq(Items)] /\ \A s \in Subs : Len(queue'[s]) <= Cap
      /\ offered' \in [Subs -> Nat]
      /\ pub' \in [Publishers -> Waiting \cup {NotWaiting}]
      /\ PubFit'
  BY <1>1, <1>2, PutFromTyped
<1>4. SubsFit'
  BY <1>1 DEF TypeInv, SubsFit
<1> QED
  BY <1>1, <1>3, <1>4 DEF BusTyped, TypeInv, TypeOK
-----------------------------------------------------------------------------
(***************************************************************************)
(* The three structures of a subscription fit each other: the queue is     *)
(* tidy, and its keys are those that pend and those with a latest payload. *)
(***************************************************************************)
Fit(q, l, p) ==
  /\ Tidy(q) /\ Len(q) <= Cap
  /\ l \in [Keys -> Nat]
  /\ p = KeysOf(q) /\ p = {k \in Keys : l[k] # 0}

QueuesFit == \A s \in Subs : Fit(queue[s], latest[s], pending[s])

LEMMA FitCounts ==
  ASSUME NEW q, NEW l, NEW p, Fit(q, l, p)
  PROVE  /\ Cardinality({k \in Keys : l[k] # 0}) = Cardinality(p)
         /\ IsFiniteSet(p) /\ Cardinality(p) \in Nat /\ Cardinality(Plain(q)) \in Nat
         /\ Len(q) \in Nat /\ Len(q) = Cardinality(p) + Cardinality(Plain(q))
<1>1. Tidy(q) /\ p = KeysOf(q) /\ p = {k \in Keys : l[k] # 0}
  BY DEF Fit
<1>2. /\ IsFiniteSet(KeysOf(q)) /\ Cardinality(KeysOf(q)) \in Nat /\ Cardinality(Plain(q)) \in Nat
      /\ Len(q) = Cardinality(KeysOf(q)) + Cardinality(Plain(q))
  BY <1>1, Counts
<1>3. Len(q) \in Nat
  BY <1>1 DEF Tidy
<1> QED
  BY <1>1, <1>2, <1>3

(* A subscription after an event of a lossy topic, in each of the five     *)
(* ways: the event coalesces, finds room, or displaces a key or a payload. *)
Room(s)    == IF Full(s) THEN Tail(queue[s]) ELSE queue[s]
NewItem(k, no) == IF k \in Keys THEN KeyItem(k) ELSE Payload(k, no)

LEMMA RoomIs ==
  ASSUME TypeInv, QueuesFit, NEW s \in Subs
  PROVE  /\ Full(s) <=> Len(queue[s]) = Cap
         /\ Full(s) => queue[s] # <<>>
         /\ Tidy(Room(s)) /\ Len(Room(s)) < Cap /\ Len(Room(s)) \in Nat
         /\ KeysOf(Room(s)) = pending[s] \ {j \in Keys : Full(s) /\ Head(queue[s]) = KeyItem(j)}
<1>1. /\ Tidy(queue[s]) /\ Len(queue[s]) <= Cap /\ KeysOf(queue[s]) = pending[s]
      /\ pending[s] \subseteq Keys
  BY DEF QueuesFit, Fit
<1>2. Len(queue[s]) \in Nat /\ Cap \in Nat /\ Cap > 0 /\ queue[s] \in Seq(Items)
  BY <1>1, Assumed DEF Tidy
<1>3. (Full(s) <=> Len(queue[s]) = Cap) /\ (Full(s) => queue[s] # <<>>)
  BY <1>1, <1>2 DEF Full
<1>4. CASE ~Full(s)
  BY <1>1, <1>2, <1>3, <1>4 DEF Full, Room
<1>5. CASE Full(s)
  <2>1. /\ Tidy(Room(s)) /\ Len(Room(s)) = Len(queue[s]) - 1
        /\ Head(queue[s]).kind = "key" =>
             /\ Head(queue[s]).src \in Keys /\ Head(queue[s]) = KeyItem(Head(queue[s]).src)
             /\ KeysOf(Room(s)) = pending[s] \ {Head(queue[s]).src}
        /\ Head(queue[s]).kind # "key" => KeysOf(Room(s)) = pending[s]
    BY <1>1, <1>3, <1>5, TailTidy DEF Room
  <2>2. \A j \in Keys : KeyItem(j).kind = "key" /\ KeyItem(j).src = j
    BY ItemsTyped
  <2>3. {j \in Keys : Full(s) /\ Head(queue[s]) = KeyItem(j)} =
          IF Head(queue[s]).kind = "key" THEN {Head(queue[s]).src} ELSE {}
    BY <1>5, <2>1, <2>2
  <2> QED
    BY <1>1, <1>2, <1>3, <1>5, <2>1, <2>3
<1> QED
  BY <1>4, <1>5

LEMMA AfterFits ==
  ASSUME TypeInv, QueuesFit, NEW s \in Subs, NEW k \in Keys \cup {None}, NEW no \in Nat \ {0}
  PROVE  /\ Fit(QueueAfter(s, k, no), LatestAfter(s, k, no), PendingAfter(s, k))
         /\ ~Coalesces(s, k) => Len(QueueAfter(s, k, no)) = Len(Room(s)) + 1
<1> DEFINE lost == {j \in Keys : Evicts(s, k) /\ Evicted(s) = KeyItem(j)}
<1>1. /\ Fit(queue[s], latest[s], pending[s]) /\ latest[s] \in [Keys -> Nat]
      /\ pending[s] = {j \in Keys : latest[s][j] # 0} /\ pending[s] \subseteq Keys
      /\ pending[s] = KeysOf(queue[s]) /\ Tidy(queue[s]) /\ Len(queue[s]) <= Cap
  BY DEF QueuesFit, Fit
<1>2. /\ LatestAfter(s, k, no) = [j \in Keys |-> IF j = k THEN no ELSE IF j \in lost THEN 0 ELSE latest[s][j]]
      /\ PendingAfter(s, k) = (pending[s] \ lost) \cup ({k} \cap Keys)
  BY DEF LatestAfter, PendingAfter
<1>3. LatestAfter(s, k, no) \in [Keys -> Nat]
  <2> HIDE DEF lost
  <2> QED
    BY <1>1, <1>2
<1>4. PendingAfter(s, k) = {j \in Keys : LatestAfter(s, k, no)[j] # 0}
  <2> HIDE DEF lost
  <2> QED
    BY <1>1, <1>2
<1>5. CASE Coalesces(s, k)
  <2>1. lost = {} /\ k \in pending[s] /\ QueueAfter(s, k, no) = queue[s]
    BY <1>5 DEF Evicts, Coalesces, QueueAfter
  <2>2. PendingAfter(s, k) = pending[s]
    BY <1>1, <1>2, <2>1
  <2> QED
    BY <1>1, <1>3, <1>4, <1>5, <2>1, <2>2 DEF Fit
<1>6. CASE ~Coalesces(s, k)
  <2>1. k \notin pending[s] /\ lost = {j \in Keys : Full(s) /\ Head(queue[s]) = KeyItem(j)}
    BY <1>6 DEF Evicts, Evicted, Coalesces
  <2>2. /\ Tidy(Room(s)) /\ Len(Room(s)) < Cap /\ Len(Room(s)) \in Nat
        /\ KeysOf(Room(s)) = pending[s] \ lost
    BY <2>1, RoomIs
  <2>3. QueueAfter(s, k, no) = Append(Room(s), NewItem(k, no))
    BY <1>6 DEF QueueAfter, Room, NewItem
  <2>4. /\ NewItem(k, no) \in Items
        /\ k \in Keys => NewItem(k, no).kind = "key" /\ NewItem(k, no).src = k /\ NewItem(k, no).no = 0
        /\ k \notin Keys => NewItem(k, no).kind = "payload" /\ NewItem(k, no).src = k
    BY ItemsTyped, Assumed DEF NewItem
  <2>5. IF NewItem(k, no).kind = "key"
        THEN NewItem(k, no).src \in Keys \ KeysOf(Room(s)) /\ NewItem(k, no).no = 0
        ELSE NewItem(k, no).src \notin Keys
    BY <2>1, <2>2, <2>4
  <2>6. /\ Tidy(QueueAfter(s, k, no)) /\ Len(QueueAfter(s, k, no)) = Len(Room(s)) + 1
        /\ KeysOf(QueueAfter(s, k, no)) =
             KeysOf(Room(s)) \cup (IF NewItem(k, no).kind = "key" THEN {NewItem(k, no).src} ELSE {})
    BY <2>2, <2>3, <2>4, <2>5, AppendTidy
  <2>7. (IF NewItem(k, no).kind = "key" THEN {NewItem(k, no).src} ELSE {}) = {k} \cap Keys
    BY <2>4
  <2>8. PendingAfter(s, k) = KeysOf(QueueAfter(s, k, no))
    BY <1>2, <2>2, <2>6, <2>7
  <2>9. Len(QueueAfter(s, k, no)) <= Cap
    BY <2>2, <2>6, Assumed
  <2> QED
    BY <1>3, <1>4, <2>6, <2>8, <2>9 DEF Fit
<1> QED
  BY <1>5, <1>6

(* A subscription after its consumer took the head of the queue. *)
LatestTaken(s) ==
  [k \in Keys |-> IF Head(queue[s]) = KeyItem(k) THEN 0 ELSE latest[s][k]]
PendingTaken(s) == pending[s] \ {k \in Keys : Head(queue[s]) = KeyItem(k)}

LEMMA TakenFits ==
  ASSUME TypeInv, QueuesFit, NEW s \in Subs, queue[s] # <<>>
  PROVE  Fit(Tail(queue[s]), LatestTaken(s), PendingTaken(s))
<1> DEFINE gone == {k \in Keys : Head(queue[s]) = KeyItem(k)}
<1>1. /\ latest[s] \in [Keys -> Nat]
      /\ pending[s] = {j \in Keys : latest[s][j] # 0} /\ pending[s] \subseteq Keys
      /\ pending[s] = KeysOf(queue[s]) /\ Tidy(queue[s]) /\ Len(queue[s]) <= Cap
  BY DEF QueuesFit, Fit
<1>2. /\ Tidy(Tail(queue[s])) /\ Len(Tail(queue[s])) = Len(queue[s]) - 1
      /\ Head(queue[s]).kind = "key" =>
           /\ Head(queue[s]).src \in Keys /\ Head(queue[s]) = KeyItem(Head(queue[s]).src)
           /\ KeysOf(Tail(queue[s])) = pending[s] \ {Head(queue[s]).src}
      /\ Head(queue[s]).kind # "key" => KeysOf(Tail(queue[s])) = pending[s]
  BY <1>1, TailTidy
<1>3. \A j \in Keys : KeyItem(j).kind = "key" /\ KeyItem(j).src = j
  BY ItemsTyped
<1>4. gone = IF Head(queue[s]).kind = "key" THEN {Head(queue[s]).src} ELSE {}
  BY <1>2, <1>3
<1>5. PendingTaken(s) = KeysOf(Tail(queue[s]))
  BY <1>2, <1>4 DEF PendingTaken
<1>6. /\ LatestTaken(s) = [k \in Keys |-> IF k \in gone THEN 0 ELSE latest[s][k]]
      /\ PendingTaken(s) = pending[s] \ gone
  BY DEF LatestTaken, PendingTaken
<1> HIDE DEF gone
<1>7. LatestTaken(s) \in [Keys -> Nat] /\ PendingTaken(s) = {k \in Keys : LatestTaken(s)[k] # 0}
  BY <1>1, <1>6
<1>8. Len(queue[s]) \in Nat
  BY <1>1 DEF Tidy
<1> QED
  BY <1>1, <1>2, <1>5, <1>7, <1>8, Assumed DEF Fit
-----------------------------------------------------------------------------
(* What one step can do to a subscription. *)
Kept(s) ==
  queue'[s] = queue[s] /\ latest'[s] = latest[s] /\ pending'[s] = pending[s] /\ newest'[s] = newest[s]

Put(s) ==
  /\ TopicOf[s] \notin Lossy
  /\ \E x \in Publishers, no \in Nat : PutInto(s, x, TopicOf[s], no)
  /\ latest'[s] = latest[s] /\ pending'[s] = pending[s] /\ newest'[s] = newest[s]

PostedAt(s, k, no) ==
  /\ TopicOf[s] \in Lossy /\ no = sent[TopicOf[s]][k] + 1 /\ sent'[TopicOf[s]][k] = no
  /\ queue'[s] = QueueAfter(s, k, no)
  /\ latest'[s] = LatestAfter(s, k, no)
  /\ pending'[s] = PendingAfter(s, k)
  /\ newest'[s] = newest[s]
Posted(s) == \E k \in Keys \cup {None}, no \in Nat : PostedAt(s, k, no)

Handed(s) == IF Head(queue[s]).kind = "key" THEN latest[s][Head(queue[s]).src] ELSE Head(queue[s]).no
Took(s) ==
  /\ queue[s] # <<>> /\ queue'[s] = Tail(queue[s])
  /\ latest'[s] = LatestTaken(s)
  /\ pending'[s] = PendingTaken(s)
  /\ newest'[s] = [newest[s] EXCEPT ![Head(queue[s]).src] = Handed(s)]

Moves == \A s \in Subs : Kept(s) \/ Put(s) \/ Posted(s) \/ Took(s)
SentGrows == \A t \in Topics, x \in Sources : sent'[t][x] >= sent[t][x]

LEMMA PublishLossyTyped ==
  ASSUME TypeInv, QueuesFit, NEW t \in Topics, NEW k \in Keys \cup {None}, PublishLossy(t, k)
  PROVE  BusTyped' /\ SubsFit' /\ PubFit' /\ Moves /\ SentGrows
<1> DEFINE no     == sent[t][k] + 1
           listed == Subscribed(t)
<1>1. /\ t \in Lossy
      /\ sent' = [sent EXCEPT ![t][k] = no]
      /\ queue' = [s \in Subs |-> IF s \in listed THEN QueueAfter(s, k, no) ELSE queue[s]]
      /\ latest' = [s \in Subs |-> IF s \in listed THEN LatestAfter(s, k, no) ELSE latest[s]]
      /\ pending' = [s \in Subs |-> IF s \in listed THEN PendingAfter(s, k) ELSE pending[s]]
      /\ offered' = [s \in Subs |-> offered[s] + IF s \in listed THEN 1 ELSE 0]
      /\ task' = EnsureStarted(Listed)
      /\ stats' = [Counted(t) EXCEPT
           !.coalesced = @ + Cardinality({s \in listed : Coalesces(s, k)}),
           !.dropped   = @ + Cardinality({s \in listed : Evicts(s, k)})]
      /\ UNCHANGED <<subs, pub, since, newest, handed>>
  BY DEF PublishLossy
<1>2. k \in Sources /\ no \in Nat \ {0} /\ sent[t][k] \in Nat
  BY Assumed DEF TypeInv, TypeOK
<1>3. listed \subseteq Subs /\ IsFiniteSet(listed) /\ \A s \in listed : TopicOf[s] = t
  BY ListedAre
<1>4. sent' \in [Topics -> [Sources -> Nat]] /\ SentGrows /\ sent'[t][k] = no
  BY <1>1, <1>2 DEF TypeInv, TypeOK, SentGrows
<1>5. ASSUME NEW s \in Subs
      PROVE  /\ queue'[s] \in Seq(Items) /\ Len(queue'[s]) <= Cap
             /\ latest'[s] \in [Keys -> Nat] /\ pending'[s] \in SUBSET Keys
             /\ Kept(s) \/ Posted(s)
  <2>1. CASE s \in listed
    <3>1. Fit(QueueAfter(s, k, no), LatestAfter(s, k, no), PendingAfter(s, k))
      BY <1>2, AfterFits
    <3>2. PostedAt(s, k, no)
      BY <1>1, <1>3, <1>4, <2>1 DEF PostedAt
    <3> QED
      BY <1>1, <1>2, <2>1, <3>1, <3>2 DEF Fit, Tidy, Posted
  <2>2. CASE s \notin listed
    BY <1>1, <2>2 DEF Kept, TypeInv, TypeOK
  <2> QED
    BY <2>1, <2>2
<1>6. /\ queue' \in [Subs -> Seq(Items)] /\ \A s \in Subs : Len(queue'[s]) <= Cap
      /\ latest' \in [Subs -> [Keys -> Nat]] /\ pending' \in [Subs -> SUBSET Keys]
      /\ Moves
  <2> HIDE DEF listed, no
  <2> QED
    BY <1>1, <1>5 DEF Moves
<1>7. offered' \in [Subs -> Nat]
  <2>1. \A s \in Subs : offered[s] + (IF s \in listed THEN 1 ELSE 0) \in Nat
    BY DEF TypeInv, TypeOK
  <2> QED
    BY <1>1, <2>1
<1>8. stats' \in [Counters -> Nat]
  <2> DEFINE c == Cardinality({s \in listed : Coalesces(s, k)})
             d == Cardinality({s \in listed : Evicts(s, k)})
  <2>1. c \in Nat /\ d \in Nat
    BY <1>3, FS_Subset, FS_CardinalityType
  <2>2. Counted(t) \in [Counters -> Nat]
    BY CountedTyped
  <2>3. stats' = [Counted(t) EXCEPT !.coalesced = @ + c, !.dropped = @ + d]
    BY <1>1
  <2>4. Counted(t).coalesced + c \in Nat /\ Counted(t).dropped + d \in Nat
    <3> HIDE DEF c, d
    <3> QED
      BY <2>1, <2>2 DEF Counters
  <2>5. stats' = [[Counted(t) EXCEPT !.coalesced = Counted(t).coalesced + c]
                    EXCEPT !.dropped = Counted(t).dropped + d]
    <3> HIDE DEF c, d
    <3> QED
      BY <2>2, <2>3 DEF Counters
  <2> HIDE DEF c, d
  <2> QED
    BY <2>2, <2>4, <2>5 DEF Counters
<1>9. task' \in [Subs -> {"none", "running", "cancelled"}]
  BY <1>1, StartedTyped DEF TypeInv
<1>10. SubsFit' /\ PubFit'
  BY <1>1 DEF TypeInv, SubsFit, PubFit
<1> QED
  BY <1>1, <1>4, <1>6, <1>7, <1>8, <1>9, <1>10 DEF BusTyped, TypeInv, TypeOK

LEMMA PublishLosslessMoves ==
  ASSUME TypeInv, NEW x \in Publishers, NEW t \in Topics, PublishLossless(x, t)
  PROVE  Moves /\ SentGrows
<1>1. /\ t \in Topics \ Lossy /\ PutFrom(x, t, sent[t][x] + 1, 1, {})
      /\ sent' = [sent EXCEPT ![t][x] = @ + 1]
      /\ UNCHANGED <<subs, latest, pending, since, newest, handed>>
  BY DEF PublishLossless
<1>2. x \in Sources /\ sent[t][x] + 1 \in Nat /\ SentGrows
  BY <1>1, Assumed DEF TypeInv, TypeOK, SentGrows
<1>3. \A s \in Subs : queue'[s] = queue[s] \/ PutInto(s, x, t, sent[t][x] + 1)
  <2>1. 1 \in Nat /\ {} \in SUBSET Subs /\ (\A s \in {} : TopicOf[s] = t /\ ~Full(s))
    OBVIOUS
  <2>2. sent[t][x] + 1 \in Nat
    BY <1>2
  <2> QED
    BY <1>1, <2>1, <2>2, PutFromTyped
<1>4. \A s \in Subs : PutInto(s, x, t, sent[t][x] + 1) => TopicOf[s] = t
  BY DEF PutInto
<1> QED
  BY <1>1, <1>2, <1>3, <1>4 DEF Moves, Kept, Put

LEMMA ResumeMoves ==
  ASSUME TypeInv, NEW x \in Publishers, PublisherResumes(x)
  PROVE  Moves /\ SentGrows
<1> DEFINE w == pub[x]
<1>1. /\ w # NotWaiting /\ ~Full(w.at)
      /\ PutFrom(x, w.topic, w.no, w.next, {w.at})
      /\ UNCHANGED <<subs, latest, pending, task, handling, stats, closing, sent, since, newest, handed>>
  BY DEF PublisherResumes
<1>2. /\ w \in Waiting /\ w.topic \in Topics \ Lossy /\ w.no \in Nat /\ w.next \in Nat
      /\ w.at \in Subs /\ TopicOf[w.at] = w.topic
  BY <1>1 DEF TypeInv, TypeOK, PubFit, Waiting
<1>3. \A s \in Subs : queue'[s] = queue[s] \/ PutInto(s, x, w.topic, w.no)
  BY <1>1, <1>2, PutFromTyped
<1>4. \A s \in Subs : PutInto(s, x, w.topic, w.no) => TopicOf[s] = w.topic
  BY DEF PutInto
<1>5. SentGrows
  BY <1>1 DEF TypeInv, TypeOK, SentGrows
<1> QED
  BY <1>1, <1>2, <1>3, <1>4, <1>5 DEF Moves, Kept, Put
LEMMA TakeTyped ==
  ASSUME TypeInv, QueuesFit, NEW s \in Subs, Take(s)
  PROVE  TypeInv' /\ Moves /\ SentGrows
<1> DEFINE item == Head(queue[s])
           ev   == IF item.kind = "key" THEN Event(item.src, latest[s][item.src])
                   ELSE Event(item.src, item.no)
<1>1. /\ queue[s] # <<>>
      /\ queue' = [queue EXCEPT ![s] = Tail(@)]
      /\ IF item.kind = "key"
         THEN /\ pending' = [pending EXCEPT ![s] = pending[s] \ {item.src}]
              /\ latest' = [latest EXCEPT ![s][item.src] = 0]
         ELSE UNCHANGED <<pending, latest>>
      /\ handling' = [handling EXCEPT ![s] = Unrelayed(ev)]
      /\ newest' = [newest EXCEPT ![s][ev.src] = ev.no]
      /\ handed' = [handed EXCEPT ![s] = @ + 1]
      /\ UNCHANGED <<subs, task, pub, stats, closing, sent, since, offered>>
  BY DEF Take, Taken
<1>2. Tidy(queue[s]) /\ latest[s] \in [Keys -> Nat] /\ Len(queue[s]) <= Cap
  BY DEF QueuesFit, Fit
<1>3. /\ item \in Items /\ Tail(queue[s]) \in Seq(Items) /\ Len(Tail(queue[s])) = Len(queue[s]) - 1
      /\ item.kind = "key" => item.src \in Keys /\ item = KeyItem(item.src)
      /\ item.kind # "key" => item.src \notin Keys
  BY <1>1, <1>2, TailTidy DEF Tidy
<1>4. item.src \in Sources /\ item.no \in Nat /\ Handed(s) \in Nat
  BY <1>2, <1>3 DEF Items, Handed
<1>5. /\ ev.src = item.src /\ ev.no = Handed(s)
      /\ Unrelayed(ev) = [src |-> item.src, no |-> Handed(s), relayed |-> FALSE]
  BY DEF Event, Unrelayed, Handed
<1> HIDE DEF ev
<1>6. /\ latest'[s] = LatestTaken(s) /\ pending'[s] = PendingTaken(s)
      /\ \A u \in Subs \ {s} : latest'[u] = latest[u] /\ pending'[u] = pending[u]
      /\ latest' \in [Subs -> [Keys -> Nat]] /\ pending' \in [Subs -> SUBSET Keys]
  <2>1. \A k \in Keys : item = KeyItem(k) <=> item.kind = "key" /\ item.src = k
    BY <1>3, ItemsTyped
  <2>2. /\ latest \in [Subs -> [Keys -> Nat]] /\ pending \in [Subs -> SUBSET Keys]
        /\ pending[s] \subseteq Keys
    BY DEF TypeInv, TypeOK
  <2>3. /\ LatestTaken(s) = [k \in Keys |-> IF item.kind = "key" /\ item.src = k THEN 0 ELSE latest[s][k]]
        /\ PendingTaken(s) = {k \in pending[s] : ~(item.kind = "key" /\ item.src = k)}
    BY <2>1, <2>2 DEF LatestTaken, PendingTaken
  <2> HIDE DEF item
  <2>4. CASE item.kind = "key"
    <3>1. /\ pending' = [pending EXCEPT ![s] = pending[s] \ {item.src}]
          /\ latest' = [latest EXCEPT ![s][item.src] = 0] /\ item.src \in Keys
      BY <1>1, <1>3, <2>4
    <3>2. LatestTaken(s) = [latest[s] EXCEPT ![item.src] = 0] /\ PendingTaken(s) = pending[s] \ {item.src}
      BY <2>2, <2>3, <2>4
    <3>3. latest' = [latest EXCEPT ![s] = LatestTaken(s)] /\ pending' = [pending EXCEPT ![s] = PendingTaken(s)]
      BY <3>1, <3>2
    <3>4. LatestTaken(s) \in [Keys -> Nat] /\ PendingTaken(s) \in SUBSET Keys
      BY <2>2, <3>1, <3>2
    <3> QED
      BY <2>2, <3>3, <3>4
  <2>5. CASE item.kind # "key"
    BY <1>1, <2>2, <2>3, <2>5
  <2> QED
    BY <2>4, <2>5
<1>7. /\ queue' \in [Subs -> Seq(Items)] /\ queue'[s] = Tail(queue[s])
      /\ \A u \in Subs : Len(queue'[u]) <= Cap
      /\ \A u \in Subs \ {s} : queue'[u] = queue[u]
  <2>1. queue \in [Subs -> Seq(Items)] /\ \A u \in Subs : Len(queue[u]) <= Cap
    BY DEF TypeInv, TypeOK
  <2>2. Len(Tail(queue[s])) <= Cap
    BY <1>2, <1>3, Assumed DEF Tidy
  <2> QED
    BY <1>1, <1>3, <2>1, <2>2
<1>8. /\ newest' \in [Subs -> [Sources -> Nat]]
      /\ newest'[s] = [newest[s] EXCEPT ![item.src] = Handed(s)]
      /\ \A u \in Subs \ {s} : newest'[u] = newest[u]
  <2> HIDE DEF item
  <2> QED
    BY <1>1, <1>4, <1>5 DEF TypeInv, TypeOK
<1>9. /\ handling' \in [Subs -> [src : Sources, no : Nat, relayed : BOOLEAN]]
      /\ handed' \in [Subs -> Nat]
  <2>1. /\ handling \in [Subs -> [src : Sources, no : Nat, relayed : BOOLEAN]]
        /\ handed \in [Subs -> Nat]
    BY DEF TypeInv, TypeOK
  <2>2. Unrelayed(ev) \in [src : Sources, no : Nat, relayed : BOOLEAN]
    BY <1>4, <1>5
  <2>3. handling' = [handling EXCEPT ![s] = Unrelayed(ev)] /\ handed' = [handed EXCEPT ![s] = @ + 1]
    BY <1>1
  <2> QED
    BY <2>1, <2>2, <2>3
<1>10. Moves
  BY <1>1, <1>6, <1>7, <1>8 DEF Moves, Kept, Took
<1>11. SubsFit' /\ PubFit' /\ SentGrows
  BY <1>1 DEF TypeInv, TypeOK, SubsFit, PubFit, SentGrows
<1> QED
  BY <1>1, <1>6, <1>7, <1>8, <1>9, <1>10, <1>11 DEF TypeInv, TypeOK

(* A step that leaves the queues alone. *)
LEMMA QuietMoves ==
  ASSUME TypeInv, UNCHANGED <<queue, latest, pending, newest, sent>>
  PROVE  Moves /\ SentGrows
  BY DEF Moves, Kept, SentGrows, TypeInv, TypeOK

LEMMA SubscribeTyped ==
  ASSUME TypeInv, NEW s \in Subs, Subscribe(s)
  PROVE  TypeInv' /\ Moves /\ SentGrows
<1> DEFINE t == TopicOf[s]
<1>1. /\ subs' = [subs EXCEPT ![t] = Append(@, s)]
      /\ task' = EnsureStarted(Listed \cup {s})
      /\ since' = [since EXCEPT ![s] = sent[t]]
      /\ UNCHANGED <<queue, latest, pending, handling, pub, stats, closing, sent, newest, handed, offered>>
  BY DEF Subscribe
<1>2. t \in Topics /\ subs \in [Topics -> Seq(Subs)] /\ subs[t] \in Seq(Subs)
  BY Assumed DEF TypeInv, TypeOK
<1>3. subs' \in [Topics -> Seq(Subs)]
  BY <1>1, <1>2
<1>4. SubsFit'
  <2>1. ASSUME NEW u \in Topics, NEW j \in DOMAIN subs'[u] PROVE TopicOf[subs'[u][j]] = u
    <3>1. CASE u # t
      BY <1>1, <1>2, <2>1, <3>1 DEF TypeInv, SubsFit
    <3>2. CASE u = t /\ j \in DOMAIN subs[t]
      BY <1>1, <1>2, <3>2 DEF TypeInv, SubsFit
    <3>3. CASE u = t /\ j \notin DOMAIN subs[t]
      <4>1. subs'[u] = Append(subs[t], s) /\ j \in 1..Len(subs[t]) + 1
        BY <1>1, <1>2, <2>1, <3>3
      <4>2. j = Len(subs[t]) + 1 /\ subs'[u][j] = s
        BY <1>2, <3>3, <4>1
      <4> QED
        BY <3>3, <4>2
    <3> QED
      BY <3>1, <3>2, <3>3
  <2> QED
    BY <2>1 DEF SubsFit
<1>5. since' \in [Subs -> [Sources -> Nat]]
  BY <1>1, <1>2 DEF TypeInv, TypeOK
<1>6. task' \in [Subs -> {"none", "running", "cancelled"}]
  BY <1>1, StartedTyped DEF TypeInv
<1>7. PubFit' /\ Moves /\ SentGrows
  BY <1>1, QuietMoves DEF TypeInv, PubFit
<1> QED
  BY <1>1, <1>3, <1>4, <1>5, <1>6, <1>7 DEF TypeInv, TypeOK

(* Removing an item of a list leaves items of the list. *)
LEMMA Removed ==
  ASSUME NEW S, NEW q \in Seq(S), NEW n \in DOMAIN q
  PROVE  /\ RemoveAt(q, n) \in Seq(S)
         /\ \A j \in DOMAIN RemoveAt(q, n) : \E i \in DOMAIN q : RemoveAt(q, n)[j] = q[i]
<1> DEFINE a == SubSeq(q, 1, n - 1)
           b == SubSeq(q, n + 1, Len(q))
<1>1. n \in 1..Len(q) /\ Len(q) \in Nat
  OBVIOUS
<1>2. /\ a \in Seq(S) /\ Len(a) = n - 1
      /\ \A j \in 1..Len(a) : j \in DOMAIN q /\ a[j] = q[j]
  BY <1>1
<1>3. /\ b \in Seq(S) /\ Len(b) = Len(q) - n
      /\ \A j \in 1..Len(b) : n + j \in DOMAIN q /\ b[j] = q[n + j]
  BY <1>1
<1> HIDE DEF a, b
<1>4. RemoveAt(q, n) = a \o b
  BY DEF RemoveAt, a, b
<1>5. a \o b \in Seq(S) /\ DOMAIN (a \o b) = 1..(Len(a) + Len(b))
  <2>1. a \in Seq(S) /\ b \in Seq(S)
    BY <1>2, <1>3
  <2>2. a \o b \in Seq(S) /\ Len(a \o b) = Len(a) + Len(b)
    BY <2>1
  <2> QED
    BY <2>2
<1>6. ASSUME NEW j \in DOMAIN (a \o b) PROVE \E i \in DOMAIN q : (a \o b)[j] = q[i]
  <2>1. CASE j <= Len(a)
    BY <1>1, <1>2, <1>3, <1>5, <2>1
  <2>2. CASE ~(j <= Len(a))
    <3>0. a \in Seq(S) /\ b \in Seq(S) /\ Len(a) \in Nat /\ Len(b) \in Nat
      BY <1>1, <1>2, <1>3
    <3>1. j - Len(a) \in 1..Len(b) /\ (a \o b)[j] = b[j - Len(a)]
      BY <3>0, <1>5, <2>2
    <3> QED
      BY <3>1, <1>3
  <2> QED
    BY <2>1, <2>2
<1> QED
  BY <1>4, <1>5, <1>6

LEMMA UnsubscribeTyped ==
  ASSUME TypeInv, NEW s \in Subs, Unsubscribe(s)
  PROVE  TypeInv' /\ Moves /\ SentGrows
<1> DEFINE t == TopicOf[s]
<1>1. /\ task' = [task EXCEPT ![s] = "cancelled"]
      /\ \/ handling' = [handling EXCEPT ![s] = NotBusy] /\ pub' = [pub EXCEPT ![s] = NotWaiting]
         \/ UNCHANGED <<handling, pub>>
      /\ UNCHANGED <<queue, latest, pending, stats, closing, history>>
  BY DEF Unsubscribe
<1>2. PICK n \in DOMAIN subs[t] : subs' = [subs EXCEPT ![t] = RemoveAt(@, n)]
  BY DEF Unsubscribe, Places
<1>3. t \in Topics /\ subs \in [Topics -> Seq(Subs)] /\ subs[t] \in Seq(Subs) /\ s \in Publishers
  BY Assumed DEF TypeInv, TypeOK
<1>4. /\ RemoveAt(subs[t], n) \in Seq(Subs)
      /\ \A j \in DOMAIN RemoveAt(subs[t], n) : \E i \in DOMAIN subs[t] : RemoveAt(subs[t], n)[j] = subs[t][i]
  BY <1>3, Removed
<1>5. subs' \in [Topics -> Seq(Subs)] /\ SubsFit'
  BY <1>2, <1>3, <1>4 DEF TypeInv, SubsFit
<1>6. NotBusy \in [src : Sources, no : Nat, relayed : BOOLEAN]
  BY Assumed DEF NotBusy
<1>7. /\ handling' \in [Subs -> [src : Sources, no : Nat, relayed : BOOLEAN]]
      /\ pub' \in [Publishers -> Waiting \cup {NotWaiting}]
      /\ task' \in [Subs -> {"none", "running", "cancelled"}]
  <2>1. /\ handling \in [Subs -> [src : Sources, no : Nat, relayed : BOOLEAN]]
        /\ pub \in [Publishers -> Waiting \cup {NotWaiting}]
        /\ task \in [Subs -> {"none", "running", "cancelled"}]
    BY DEF TypeInv, TypeOK
  <2>2. handling' \in [Subs -> [src : Sources, no : Nat, relayed : BOOLEAN]]
    BY <1>1, <1>6, <2>1
  <2>3. pub' \in [Publishers -> Waiting \cup {NotWaiting}]
    BY <1>1, <2>1
  <2>4. task' \in [Subs -> {"none", "running", "cancelled"}]
    BY <1>1, <2>1
  <2> QED
    BY <2>2, <2>3, <2>4
<1>8. PubFit'
  BY <1>1, <1>3 DEF TypeInv, TypeOK, PubFit
<1>9. Moves /\ SentGrows
  BY <1>1, QuietMoves DEF history
<1> QED
  BY <1>1, <1>5, <1>7, <1>8, <1>9 DEF TypeInv, TypeOK, history

LEMMA PublishTyped ==
  ASSUME TypeInv, QueuesFit, NEW x \in Producers, Publish(x)
  PROVE  TypeInv' /\ Moves /\ SentGrows
<1>1. PICK t \in Posts[x] : PublishLossless(x, t) \/ \E k \in Keys \cup {None} : PublishLossy(t, k)
  BY DEF Publish
<1>2. t \in Topics /\ x \in Publishers
  BY Assumed
<1>3. BusTyped' /\ SubsFit' /\ PubFit' /\ Moves /\ SentGrows
  BY <1>1, <1>2, PublishLosslessTyped, PublishLosslessMoves, PublishLossyTyped
<1>4. HandlersTyped'
  BY DEF Publish, TypeInv, TypeOK, HandlersTyped
<1> QED
  BY <1>3, <1>4, TypesAfter DEF TypeInv

LEMMA HandlerPublishesTyped ==
  ASSUME TypeInv, QueuesFit, NEW s \in Subs, HandlerPublishes(s)
  PROVE  TypeInv' /\ Moves /\ SentGrows
<1>1. /\ Relay[s] # None
      /\ handling' = [handling EXCEPT ![s].relayed = TRUE]
      /\ PublishLossless(s, Relay[s]) \/ \E k \in Keys \cup {None} : PublishLossy(Relay[s], k)
      /\ closing' = closing
  BY DEF HandlerPublishes
<1>2. Relay[s] \in Topics /\ s \in Publishers
  BY <1>1, Assumed
<1>3. BusTyped' /\ SubsFit' /\ PubFit' /\ Moves /\ SentGrows
  BY <1>1, <1>2, PublishLosslessTyped, PublishLosslessMoves, PublishLossyTyped
<1>4. HandlersTyped'
  BY <1>1 DEF TypeInv, TypeOK, HandlersTyped
<1> QED
  BY <1>3, <1>4, TypesAfter DEF TypeInv

LEMMA HandlerEndsTyped ==
  ASSUME TypeInv, NEW s \in Subs, HandlerReturns(s) \/ HandlerRaises(s)
  PROVE  TypeInv' /\ Moves /\ SentGrows
<1>1. /\ handling' = [handling EXCEPT ![s] = NotBusy]
      /\ UNCHANGED <<subs, queue, latest, pending, task, pub, closing, history>>
  BY DEF HandlerReturns, HandlerRaises, HandlerDone
<1>2. stats' = [stats EXCEPT !.delivered = @ + 1] \/ stats' = [stats EXCEPT !.errors = @ + 1]
  BY DEF HandlerReturns, HandlerRaises
<1>3. stats' \in [Counters -> Nat]
  <2>1. stats \in [Counters -> Nat]
    BY DEF TypeInv, TypeOK
  <2>2. stats.delivered + 1 \in Nat /\ stats.errors + 1 \in Nat
    BY <2>1 DEF Counters
  <2>3. stats' = [stats EXCEPT !["delivered"] = stats.delivered + 1]
        \/ stats' = [stats EXCEPT !["errors"] = stats.errors + 1]
    BY <1>2
  <2> QED
    BY <2>1, <2>2, <2>3
<1>4. NotBusy \in [src : Sources, no : Nat, relayed : BOOLEAN]
  BY Assumed DEF NotBusy
<1>5. handling' \in [Subs -> [src : Sources, no : Nat, relayed : BOOLEAN]]
  BY <1>1, <1>4 DEF TypeInv, TypeOK
<1>6. SubsFit' /\ PubFit' /\ Moves /\ SentGrows
  BY <1>1, QuietMoves DEF history, TypeInv, SubsFit, PubFit
<1> QED
  BY <1>1, <1>3, <1>5, <1>6 DEF TypeInv, TypeOK, history

LEMMA CloseTyped ==
  ASSUME TypeInv, CloseBegins \/ CloseEnds
  PROVE  TypeInv' /\ Moves /\ SentGrows
<1>1. /\ closing' \in BOOLEAN
      /\ UNCHANGED <<subs, queue, latest, pending, handling, pub, stats, history>>
  BY DEF CloseBegins, CloseEnds
<1>2. task' = EnsureStarted(Listed) \/ task' = [s \in Subs |-> IF s \in Listed THEN "none" ELSE task[s]]
  BY DEF CloseBegins, CloseEnds
<1>3. task' \in [Subs -> {"none", "running", "cancelled"}]
  BY <1>2, StartedTyped DEF TypeInv, TypeOK
<1>4. SubsFit' /\ PubFit' /\ Moves /\ SentGrows
  BY <1>1, QuietMoves DEF history, TypeInv, SubsFit, PubFit
<1> QED
  BY <1>1, <1>3, <1>4 DEF TypeInv, TypeOK, history

LEMMA TypeStep ==
  ASSUME TypeInv, QueuesFit, [Next]_vars
  PROVE  TypeInv' /\ Moves /\ SentGrows
<1>1. CASE UNCHANGED vars
  <2>1. UNCHANGED <<subs, queue, latest, pending, task, handling, pub, stats, closing, sent, since,
                    newest, handed, offered>>
    BY <1>1 DEF vars, history
  <2> QED
    BY <2>1, QuietMoves DEF TypeInv, TypeOK, SubsFit, PubFit
<1>2. ASSUME NEW s \in Subs, Subscribe(s) \/ Unsubscribe(s) PROVE TypeInv' /\ Moves /\ SentGrows
  BY <1>2, SubscribeTyped, UnsubscribeTyped
<1>3. ASSUME NEW x \in Producers, Publish(x) PROVE TypeInv' /\ Moves /\ SentGrows
  BY <1>3, PublishTyped
<1>4. ASSUME NEW x \in Publishers, PublisherResumes(x) PROVE TypeInv' /\ Moves /\ SentGrows
  <2>1. BusTyped' /\ SubsFit' /\ PubFit' /\ Moves /\ SentGrows
    BY <1>4, ResumeTyped, ResumeMoves
  <2>2. HandlersTyped'
    BY <1>4 DEF PublisherResumes, TypeInv, TypeOK, HandlersTyped
  <2> QED
    BY <2>1, <2>2, TypesAfter DEF TypeInv
<1>5. ASSUME NEW s \in Subs, Take(s) \/ HandlerPublishes(s) \/ HandlerReturns(s) \/ HandlerRaises(s)
      PROVE  TypeInv' /\ Moves /\ SentGrows
  BY <1>5, TakeTyped, HandlerPublishesTyped, HandlerEndsTyped
<1>6. CASE CloseBegins \/ CloseEnds
  BY <1>6, CloseTyped
<1> QED
  BY <1>1, <1>2, <1>3, <1>4, <1>5, <1>6 DEF Next
-----------------------------------------------------------------------------
(* No payload kept for a key, and none handed over, is newer than the last *)
(* event of the key.                                                       *)
Seen ==
  \A s \in LossySubs, k \in Keys :
    latest[s][k] <= sent[TopicOf[s]][k] /\ newest[s][k] <= sent[TopicOf[s]][k]

IInv == TypeInv /\ QueuesFit /\ Seen

LEMMA PostedNumber ==
  ASSUME TypeInv, NEW s \in Subs, NEW k \in Keys \cup {None}, NEW no \in Nat, PostedAt(s, k, no)
  PROVE  no \in Nat \ {0} /\ k \in Sources /\ TopicOf[s] \in Topics /\ s \in LossySubs
<1>1. k \in Sources /\ TopicOf[s] \in Topics
  BY Assumed
<1>2. sent[TopicOf[s]][k] \in Nat /\ no = sent[TopicOf[s]][k] + 1
  BY <1>1 DEF TypeInv, TypeOK, PostedAt
<1> QED
  BY <1>1, <1>2 DEF PostedAt, LossySubs

LEMMA FitStep ==
  ASSUME TypeInv, QueuesFit, TypeInv', Moves
  PROVE  QueuesFit'
<1> SUFFICES ASSUME NEW s \in Subs PROVE Fit(queue'[s], latest'[s], pending'[s])
  BY DEF QueuesFit, Fit, Tidy, KeysOf, Keyed, IsKey
<1>1. Fit(queue[s], latest[s], pending[s])
  BY DEF QueuesFit
<1>2. CASE Kept(s)
  BY <1>1, <1>2 DEF Kept
<1>3. CASE Put(s)
  <2>1. PICK x \in Publishers, no \in Nat : queue'[s] = Append(queue[s], Payload(x, no))
    BY <1>3 DEF Put, PutInto
  <2>2. Payload(x, no) \in Items /\ Payload(x, no).kind = "payload" /\ Payload(x, no).src \notin Keys
    BY ItemsTyped, Assumed
  <2>3. Tidy(queue[s])
    BY <1>1 DEF Fit
  <2>4. Tidy(queue'[s]) /\ KeysOf(queue'[s]) = KeysOf(queue[s])
    BY <2>1, <2>2, <2>3, AppendTidy
  <2>5. Len(queue'[s]) <= Cap
    BY DEF TypeInv, TypeOK
  <2>6. latest'[s] = latest[s] /\ pending'[s] = pending[s]
    BY <1>3 DEF Put
  <2> QED
    BY <1>1, <2>4, <2>5, <2>6 DEF Fit
<1>4. CASE Posted(s)
  <2>1. PICK k \in Keys \cup {None}, no \in Nat : PostedAt(s, k, no)
    BY <1>4 DEF Posted
  <2>2. Fit(QueueAfter(s, k, no), LatestAfter(s, k, no), PendingAfter(s, k))
    BY <2>1, PostedNumber, AfterFits
  <2> QED
    BY <2>1, <2>2 DEF PostedAt
<1>5. CASE Took(s)
  BY <1>5, TakenFits DEF Took
<1> QED
  BY <1>2, <1>3, <1>4, <1>5 DEF Moves

LEMMA SeenStep ==
  ASSUME TypeInv, QueuesFit, Seen, TypeInv', Moves, SentGrows
  PROVE  Seen'
<1> SUFFICES ASSUME NEW s \in LossySubs, NEW k \in Keys
             PROVE  latest'[s][k] <= sent'[TopicOf[s]][k] /\ newest'[s][k] <= sent'[TopicOf[s]][k]
  BY DEF Seen, LossySubs
<1> DEFINE t == TopicOf[s]
<1>1. s \in Subs /\ t \in Topics /\ t \in Lossy /\ k \in Sources
  BY Assumed DEF LossySubs
<1>2. /\ latest[s][k] \in Nat /\ newest[s][k] \in Nat /\ sent[t][k] \in Nat /\ sent'[t][k] \in Nat
      /\ latest[s] \in [Keys -> Nat] /\ newest[s] \in [Sources -> Nat]
  <2>1. /\ latest \in [Subs -> [Keys -> Nat]] /\ newest \in [Subs -> [Sources -> Nat]]
        /\ sent \in [Topics -> [Sources -> Nat]] /\ sent' \in [Topics -> [Sources -> Nat]]
    BY DEF TypeInv, TypeOK
  <2> HIDE DEF t
  <2> QED
    BY <1>1, <2>1
<1>3. latest[s][k] <= sent[t][k] /\ newest[s][k] <= sent[t][k] /\ sent[t][k] <= sent'[t][k]
  BY <1>1, <1>2 DEF Seen, SentGrows
<1> HIDE DEF t
<1>4. CASE Kept(s)
  BY <1>2, <1>3, <1>4 DEF Kept, t
<1>5. CASE Put(s)
  BY <1>1, <1>5 DEF Put, t
<1>6. CASE Posted(s)
  <2>1. PICK j \in Keys \cup {None}, no \in Nat : PostedAt(s, j, no)
    BY <1>6 DEF Posted
  <2>2. newest'[s] = newest[s] /\ latest'[s][k] = LatestAfter(s, j, no)[k] /\ sent'[t][j] = no
    BY <2>1 DEF PostedAt, t
  <2>3. LatestAfter(s, j, no)[k] \in {no, 0, latest[s][k]}
    BY DEF LatestAfter
  <2>4. k # j => LatestAfter(s, j, no)[k] \in {0, latest[s][k]}
    BY DEF LatestAfter
  <2> QED
    BY <1>2, <1>3, <2>2, <2>3, <2>4 DEF t
<1>7. CASE Took(s)
  <2>1. /\ queue[s] # <<>>
        /\ latest'[s] = LatestTaken(s)
        /\ newest'[s] = [newest[s] EXCEPT ![Head(queue[s]).src] = Handed(s)]
    BY <1>7 DEF Took
  <2>2. latest'[s][k] \in {0, latest[s][k]}
    BY <2>1 DEF LatestTaken
  <2>3. Tidy(queue[s])
    BY <1>1 DEF QueuesFit, Fit
  <2>4. Head(queue[s]).kind # "key" => Head(queue[s]).src \notin Keys
    BY <2>1, <2>3, TailTidy
  <2>5. newest'[s][k] \in {newest[s][k], latest[s][k]}
    BY <1>1, <1>2, <2>1, <2>4 DEF Handed
  <2> QED
    BY <1>2, <1>3, <2>2, <2>5 DEF t
<1> QED
  BY <1>1, <1>4, <1>5, <1>6, <1>7 DEF Moves

LEMMA InitIInv == Init => IInv
<1> SUFFICES ASSUME Init PROVE IInv
  OBVIOUS
<1>1. TypeOK
  <2>1. NotBusy \in [src : Sources, no : Nat, relayed : BOOLEAN]
    BY Assumed DEF NotBusy
  <2>2. <<>> \in Seq(Subs) /\ <<>> \in Seq(Items) /\ Len(<<>>) = 0
    OBVIOUS
  <2>3. subs \in [Topics -> Seq(Subs)] /\ queue \in [Subs -> Seq(Items)]
    BY <2>2 DEF Init
  <2>4. \A s \in Subs : Len(queue[s]) <= Cap
    BY <2>2, Assumed DEF Init
  <2>5. latest \in [Subs -> [Keys -> Nat]] /\ pending \in [Subs -> SUBSET Keys]
    BY DEF Init
  <2>6. /\ task \in [Subs -> {"none", "running", "cancelled"}]
        /\ handling \in [Subs -> [src : Sources, no : Nat, relayed : BOOLEAN]]
        /\ pub \in [Publishers -> Waiting \cup {NotWaiting}]
    BY <2>1 DEF Init
  <2>7. /\ stats \in [Counters -> Nat] /\ closing \in BOOLEAN
        /\ handed \in [Subs -> Nat] /\ offered \in [Subs -> Nat]
    BY DEF Init
  <2>8. /\ sent \in [Topics -> [Sources -> Nat]] /\ since \in [Subs -> [Sources -> Nat]]
        /\ newest \in [Subs -> [Sources -> Nat]]
    BY DEF Init
  <2> QED
    BY <2>3, <2>4, <2>5, <2>6, <2>7, <2>8 DEF TypeOK
<1>2. SubsFit /\ PubFit
  BY DEF Init, SubsFit, PubFit
<1>3. QueuesFit
  BY EmptyTidy, Assumed DEF Init, QueuesFit, Fit
<1>4. Seen
  BY Assumed DEF Init, Seen, LossySubs
<1> QED
  BY <1>1, <1>2, <1>3, <1>4 DEF IInv, TypeInv

LEMMA IInvStep == IInv /\ [Next]_vars => IInv' /\ Moves
  BY TypeStep, FitStep, SeenStep DEF IInv

LEMMA Invariance == Spec => []IInv
<1>1. IInv /\ [Next]_vars => IInv'
  BY IInvStep
<1> QED
  BY <1>1, InitIInv, PTL DEF Spec

(* Every state of the bus is well typed; in particular no queue grows      *)
(* beyond its size, on lossless topics (the publisher waits) and lossy     *)
(* ones (an event displaces another) alike.                                *)
THEOREM TypeCorrect == Spec => []TypeOK
<1>1. IInv => TypeOK
  BY DEF IInv, TypeInv
<1> QED
  BY <1>1, Invariance, PTL

(* The queue, the latest payloads and the pending keys of a subscription   *)
(* agree, whatever is published, evicted, taken or unsubscribed: a key     *)
(* never pends without an item that will take it out of the queue.         *)
THEOREM QueuesAgree == Spec => []QueueAgreesWithKeys
<1>1. ASSUME IInv PROVE QueueAgreesWithKeys
  <2> SUFFICES ASSUME NEW s \in Subs
               PROVE  /\ pending[s] = KeysQueued(s)
                      /\ pending[s] = {k \in Keys : latest[s][k] # 0}
                      /\ Len(queue[s]) = Cardinality(pending[s]) + Cardinality(Unkeyed(s))
    BY DEF QueueAgreesWithKeys
  <2>1. Fit(queue[s], latest[s], pending[s])
    BY <1>1 DEF IInv, QueuesFit
  <2>2. KeysQueued(s) = KeysOf(queue[s]) /\ Unkeyed(s) = Plain(queue[s])
    BY DEF KeysQueued, KeysOf, Keyed, IsKey, Unkeyed, Plain
  <2> QED
    BY <2>1, <2>2, FitCounts DEF Fit
<1> QED
  BY <1>1, Invariance, PTL
-----------------------------------------------------------------------------
(***************************************************************************)
(* The mailbox.  A step of the bus posts an event into it, takes one out,  *)
(* or leaves it alone; which item an event displaces is what the full      *)
(* queue has at its head.                                                  *)
(***************************************************************************)
Others(s) == Cardinality(Unkeyed(s))

LEMMA OthersCount ==
  ASSUME IInv, IInv', NEW s \in Subs
  PROVE  /\ IsFiniteSet(pending[s]) /\ Cardinality(pending[s]) \in Nat /\ pending[s] \subseteq Keys
         /\ Cardinality({k \in Keys : latest[s][k] # 0}) = Cardinality(pending[s])
         /\ pending[s] = {k \in Keys : latest[s][k] # 0} /\ latest[s] \in [Keys -> Nat]
         /\ Others(s) \in Nat /\ Len(queue[s]) = Cardinality(pending[s]) + Others(s)
         /\ Cardinality(pending'[s]) \in Nat /\ latest'[s] \in [Keys -> Nat]
         /\ Others(s)' \in Nat /\ Len(queue'[s]) = Cardinality(pending'[s]) + Others(s)'
<1>1. Fit(queue[s], latest[s], pending[s])
  BY DEF IInv, QueuesFit
<1>2. Fit(queue'[s], latest'[s], pending'[s])
  BY DEF IInv, QueuesFit, Fit, Tidy, KeysOf, Keyed, IsKey
<1>3. Others(s) = Cardinality(Plain(queue[s]))
  BY DEF Others, Unkeyed, Plain
<1>4. Others(s)' = Cardinality(Plain(queue'[s]))
  BY DEF Others, Unkeyed, Plain
<1>5. /\ Cardinality({k \in Keys : latest[s][k] # 0}) = Cardinality(pending[s])
      /\ IsFiniteSet(pending[s]) /\ Cardinality(pending[s]) \in Nat
      /\ Cardinality(Plain(queue[s])) \in Nat
      /\ Len(queue[s]) = Cardinality(pending[s]) + Cardinality(Plain(queue[s]))
  BY <1>1, FitCounts
<1>6. /\ Cardinality(pending'[s]) \in Nat /\ Cardinality(Plain(queue'[s])) \in Nat
      /\ Len(queue'[s]) = Cardinality(pending'[s]) + Cardinality(Plain(queue'[s]))
  BY <1>2, FitCounts
<1>7. latest[s] \in [Keys -> Nat] /\ latest'[s] \in [Keys -> Nat]
      /\ pending[s] = {k \in Keys : latest[s][k] # 0} /\ pending[s] \subseteq Keys
  BY <1>1, <1>2 DEF Fit
<1> QED
  BY <1>3, <1>4, <1>5, <1>6, <1>7

LEMMA WithKey ==
  ASSUME NEW P, IsFiniteSet(P), NEW k, k \notin P
  PROVE  Cardinality(P \cup {k}) = Cardinality(P) + 1
  BY FS_AddElement

LEMMA WithoutKey ==
  ASSUME NEW P, IsFiniteSet(P), NEW k \in P
  PROVE  IsFiniteSet(P \ {k}) /\ Cardinality(P \ {k}) = Cardinality(P) - 1
  BY FS_RemoveElement

(* The item at the head of a full queue. *)
LEMMA HeadIs ==
  ASSUME IInv, IInv', NEW s \in Subs, queue[s] # <<>>
  PROVE  \/ \E e \in pending[s] : Head(queue[s]) = KeyItem(e) /\ Head(queue[s]).kind = "key"
                                  /\ Head(queue[s]).src = e
                                  /\ {j \in Keys : Head(queue[s]) = KeyItem(j)} = {e}
         \/ /\ Head(queue[s]).kind # "key" /\ Head(queue[s]).src \notin Keys /\ Others(s) > 0
            /\ {j \in Keys : Head(queue[s]) = KeyItem(j)} = {}
<1>1. Tidy(queue[s]) /\ pending[s] = KeysOf(queue[s])
  BY DEF IInv, QueuesFit, Fit
<1>2. /\ Head(queue[s]).kind = "key" =>
           /\ Head(queue[s]).src \in KeysOf(queue[s]) /\ Head(queue[s]).src \in Keys
           /\ Head(queue[s]) = KeyItem(Head(queue[s]).src)
      /\ Head(queue[s]).kind # "key" =>
           /\ Head(queue[s]).src \notin Keys /\ 1 \in Plain(queue[s])
  BY <1>1, TailTidy
<1>3. \A j \in Keys : KeyItem(j).kind = "key" /\ KeyItem(j).src = j
  BY ItemsTyped
<1>4. CASE Head(queue[s]).kind = "key"
  <2>1. {j \in Keys : Head(queue[s]) = KeyItem(j)} = {Head(queue[s]).src}
    BY <1>2, <1>3, <1>4
  <2> QED
    BY <1>1, <1>2, <1>4, <2>1
<1>5. CASE Head(queue[s]).kind # "key"
  <2>1. Others(s) = Cardinality(Plain(queue[s])) /\ Others(s) \in Nat
    BY OthersCount DEF Others, Unkeyed, Plain
  <2>2. IsFiniteSet(Plain(queue[s])) /\ Plain(queue[s]) # {}
    BY <1>1, <1>2, <1>5, Counts
  <2>3. Others(s) > 0
    BY <2>1, <2>2, FS_EmptySet
  <2> QED
    BY <1>2, <1>3, <1>5, <2>3
<1> QED
  BY <1>4, <1>5

(* What is left over when a key leaves the queue with its item. *)
LEMMA KeyLeaves ==
  ASSUME NEW c \in Nat, NEW o \in Nat, NEW d \in Nat, NEW r \in Nat, NEW l, NEW m,
         l = c + o, m = d + r, m = l - 1, d = c - 1
  PROVE  r = o
  OBVIOUS

LEMMA TookIsTake ==
  ASSUME IInv, IInv', NEW s \in LossySubs, Took(s)
  PROVE  Mailbox(s)!Next
<1>1. s \in Subs /\ newest[s] \in [Sources -> Nat]
  BY DEF LossySubs, IInv, TypeInv, TypeOK
<1>2. /\ queue[s] # <<>> /\ queue'[s] = Tail(queue[s])
      /\ latest'[s] = LatestTaken(s)
      /\ pending'[s] = PendingTaken(s)
      /\ newest'[s] = [newest[s] EXCEPT ![Head(queue[s]).src] = Handed(s)]
  BY DEF Took
<1>3. /\ IsFiniteSet(pending[s]) /\ Cardinality(pending[s]) \in Nat
      /\ pending[s] \subseteq Keys /\ pending[s] = {k \in Keys : latest[s][k] # 0}
      /\ latest[s] \in [Keys -> Nat]
      /\ Others(s) \in Nat /\ Len(queue[s]) = Cardinality(pending[s]) + Others(s)
      /\ Others(s)' \in Nat /\ Len(queue'[s]) = Cardinality(pending'[s]) + Others(s)'
  BY <1>1, OthersCount
<1>4. Len(queue'[s]) = Len(queue[s]) - 1
  BY <1>1, <1>2, TailTidy DEF IInv, QueuesFit, Fit
<1>5. ASSUME NEW e \in pending[s], Head(queue[s]).kind = "key", Head(queue[s]).src = e,
             {j \in Keys : Head(queue[s]) = KeyItem(j)} = {e}
      PROVE  Mailbox(s)!Take(e)
  <2>0. pending'[s] = pending[s] \ {e}
    BY <1>2, <1>5 DEF PendingTaken
  <2>1. Others(s)' = Others(s)
    <3>1. Cardinality(pending'[s]) = Cardinality(pending[s]) - 1
      BY <1>3, <2>0, WithoutKey
    <3>2. /\ Cardinality(pending[s]) \in Nat /\ Others(s) \in Nat /\ Others(s)' \in Nat
          /\ Len(queue[s]) = Cardinality(pending[s]) + Others(s)
          /\ Len(queue'[s]) = Cardinality(pending'[s]) + Others(s)'
      BY <1>3
    <3>3. Cardinality(pending'[s]) \in Nat
      BY <1>1, OthersCount
    <3> QED
      BY <1>4, <3>1, <3>2, <3>3, KeyLeaves
  <2>2. latest'[s] = [latest[s] EXCEPT ![e] = 0] /\ latest[s][e] # 0
    <3>1. \A k \in Keys : Head(queue[s]) = KeyItem(k) <=> k = e
      BY <1>3, <1>5
    <3>2. latest'[s] = [k \in Keys |-> IF k = e THEN 0 ELSE latest[s][k]]
      BY <1>2, <3>1 DEF LatestTaken
    <3>3. latest[s] \in [Keys -> Nat] /\ e \in Keys /\ latest[s][e] # 0
      BY <1>3, <1>5
    <3> QED
      BY <3>2, <3>3
  <2>3. newest'[s] = [newest[s] EXCEPT ![e] = latest[s][e]]
    BY <1>2, <1>5 DEF Handed
  <2>4. [k \in Keys |-> newest'[s][k]] = [[k \in Keys |-> newest[s][k]] EXCEPT ![e] = latest[s][e]]
    BY <1>1, <1>3, <2>3, Assumed
  <2> QED
    BY <2>1, <2>2, <2>4 DEF Mailbox!Take, Others
<1>6. ASSUME Head(queue[s]).kind # "key", Head(queue[s]).src \notin Keys, Others(s) > 0,
             {j \in Keys : Head(queue[s]) = KeyItem(j)} = {}
      PROVE  Mailbox(s)!TakeOther
  <2>0. pending'[s] = pending[s]
    BY <1>2, <1>6 DEF PendingTaken
  <2>1. Others(s)' = Others(s) - 1
    BY <1>3, <1>4, <2>0
  <2>2. latest'[s] = latest[s]
    BY <1>2, <1>3, <1>6 DEF LatestTaken
  <2>3. [k \in Keys |-> newest'[s][k]] = [k \in Keys |-> newest[s][k]]
    BY <1>1, <1>2, <1>6, Assumed
  <2> QED
    BY <1>6, <2>1, <2>2, <2>3 DEF Mailbox!TakeOther, Others
<1> QED
  BY <1>1, <1>2, <1>3, <1>5, <1>6, HeadIs DEF Mailbox!Next
(* The abstract module counts with a Cardinality of its own.               *)
LEMMA SameCardinality ==
  ASSUME NEW s, NEW S
  PROVE  Mailbox(s)!Cardinality(S) = Cardinality(S)
  BY DEF Mailbox!Cardinality, Cardinality

LEMMA PostedIsPost ==
  ASSUME IInv, IInv', NEW s \in LossySubs, Posted(s)
  PROVE  Mailbox(s)!Next
<1>1. s \in Subs /\ newest[s] \in [Sources -> Nat]
  BY DEF LossySubs, IInv, TypeInv, TypeOK
<1>2. PICK k \in Keys \cup {None}, no \in Nat : PostedAt(s, k, no)
  BY DEF Posted
<1>3. /\ no = sent[TopicOf[s]][k] + 1
      /\ queue'[s] = QueueAfter(s, k, no)
      /\ latest'[s] = LatestAfter(s, k, no)
      /\ pending'[s] = PendingAfter(s, k)
      /\ newest'[s] = newest[s]
  BY <1>2 DEF PostedAt
<1>4. no \in Nat \ {0} /\ k \in Sources /\ TopicOf[s] \in Topics /\ TypeInv /\ QueuesFit
  BY <1>1, <1>2, PostedNumber DEF IInv
<1>5. /\ IsFiniteSet(pending[s]) /\ Cardinality(pending[s]) \in Nat /\ pending[s] \subseteq Keys
      /\ Cardinality({j \in Keys : latest[s][j] # 0}) = Cardinality(pending[s])
      /\ pending[s] = {j \in Keys : latest[s][j] # 0} /\ latest[s] \in [Keys -> Nat]
      /\ Others(s) \in Nat /\ Len(queue[s]) = Cardinality(pending[s]) + Others(s)
      /\ Cardinality(pending'[s]) \in Nat /\ latest'[s] \in [Keys -> Nat]
      /\ Others(s)' \in Nat /\ Len(queue'[s]) = Cardinality(pending'[s]) + Others(s)'
  BY <1>1, OthersCount
<1>6. /\ Cardinality({j \in Keys : latest[s][j] # 0}) + Others(s) = Len(queue[s])
      /\ Len(queue[s]) \in Nat /\ Cap \in Nat /\ Cap > 0 /\ (Full(s) <=> Len(queue[s]) = Cap)
      /\ ~Full(s) => Len(queue[s]) < Cap
  BY <1>1, <1>4, <1>5, RoomIs, Assumed DEF Full
<1>7. [j \in Keys |-> newest'[s][j]] = [j \in Keys |-> newest[s][j]]
  BY <1>3
<1>8. ~Coalesces(s, k) => Len(queue'[s]) = IF Full(s) THEN Len(queue[s]) ELSE Len(queue[s]) + 1
  <2>1. ~Coalesces(s, k) => Len(queue'[s]) = Len(Room(s)) + 1
    BY <1>1, <1>3, <1>4, AfterFits
  <2>2. Full(s) => Len(Room(s)) = Len(queue[s]) - 1
    BY <1>1, <1>4, RoomIs, TailTidy DEF Room, QueuesFit, Fit
  <2>3. ~Full(s) => Len(Room(s)) = Len(queue[s])
    BY DEF Room
  <2> QED
    BY <1>6, <2>1, <2>2, <2>3
<1>9. k \in Keys => /\ latest'[s][k] = no /\ latest'[s][k] > latest[s][k]
                    /\ latest'[s][k] > newest[s][k]
  <2> SUFFICES ASSUME k \in Keys
               PROVE  latest'[s][k] = no /\ no > latest[s][k] /\ no > newest[s][k]
    OBVIOUS
  <2>1. latest'[s][k] = no
    BY <1>3 DEF LatestAfter
  <2>2. latest[s][k] <= sent[TopicOf[s]][k] /\ newest[s][k] <= sent[TopicOf[s]][k]
    BY DEF IInv, Seen
  <2>3. sent[TopicOf[s]][k] \in Nat /\ latest[s][k] \in Nat /\ newest[s][k] \in Nat
    <3>1. sent \in [Topics -> [Sources -> Nat]]
      BY <1>4 DEF TypeInv, TypeOK
    <3>2. k \in Sources /\ TopicOf[s] \in Topics /\ newest[s] \in [Sources -> Nat]
          /\ latest[s] \in [Keys -> Nat]
      BY <1>1, <1>4, <1>5
    <3> QED
      BY <3>1, <3>2
  <2> QED
    BY <1>3, <2>1, <2>2, <2>3
(* What the event displaces, if anything. *)
<1> DEFINE lost == {j \in Keys : Head(queue[s]) = KeyItem(j)}
<1>10. /\ Coalesces(s, k) \/ ~Full(s) =>
            /\ pending'[s] = pending[s] \cup ({k} \cap Keys)
            /\ \A j \in Keys \ {k} : latest'[s][j] = latest[s][j]
       /\ ~Coalesces(s, k) /\ Full(s) =>
            /\ pending'[s] = (pending[s] \ lost) \cup ({k} \cap Keys)
            /\ \A j \in Keys \ {k} : latest'[s][j] = IF j \in lost THEN 0 ELSE latest[s][j]
  BY <1>3 DEF PendingAfter, LatestAfter, Evicts, Evicted
<1>11. Full(s) => \/ \E e \in pending[s] : lost = {e}
                  \/ Others(s) > 0 /\ lost = {}
  BY <1>1, <1>4, RoomIs, HeadIs
<1> HIDE DEF lost
<1>12. Coalesces(s, k) <=> k \in pending[s]
  BY DEF Coalesces
<1>13. CASE k \in Keys
  <2>1. latest'[s][k] > latest[s][k] /\ latest'[s][k] > newest[s][k] /\ {k} \cap Keys = {k}
    BY <1>9, <1>13
  <2>2. SUFFICES \/ latest[s][k] # 0 /\ Mailbox(s)!Alone({k}) /\ Others(s)' = Others(s)
                 \/ latest[s][k] = 0 /\ Mailbox(s)!Held < Cap /\ Mailbox(s)!Alone({k}) /\ Others(s)' = Others(s)
                 \/ latest[s][k] = 0 /\ Mailbox(s)!Held = Cap /\ Mailbox(s)!Displace({k})
    BY <1>5, <1>7, <1>13, <2>1 DEF Mailbox!Next, Mailbox!Post, Others
  <2>3. Mailbox(s)!Held = Len(queue[s])
    BY <1>6, SameCardinality DEF Mailbox!Held, Others
  <2>4. CASE Coalesces(s, k)
    <3>1. latest[s][k] # 0 /\ pending'[s] = pending[s]
      BY <1>5, <1>10, <1>12, <2>4
    <3>2. queue'[s] = queue[s]
      BY <1>3, <2>4 DEF QueueAfter
    <3>3. Others(s)' = Others(s)
      BY <1>5, <3>1, <3>2
    <3> QED
      BY <1>10, <2>4, <3>1, <3>3 DEF Mailbox!Alone
  <2>5. CASE ~Coalesces(s, k) /\ ~Full(s)
    <3>1. latest[s][k] = 0 /\ k \notin pending[s] /\ pending'[s] = pending[s] \cup {k}
      BY <1>5, <1>10, <1>12, <1>13, <2>1, <2>5
    <3>2. Cardinality(pending'[s]) = Cardinality(pending[s]) + 1
      BY <1>5, <3>1, WithKey
    <3>3. Others(s)' = Others(s)
      BY <1>5, <1>6, <1>8, <2>5, <3>2
    <3> QED
      BY <1>6, <1>10, <2>3, <2>5, <3>1, <3>3 DEF Mailbox!Alone
  <2>6. CASE ~Coalesces(s, k) /\ Full(s)
    <3>1. /\ latest[s][k] = 0 /\ k \notin pending[s] /\ pending'[s] = (pending[s] \ lost) \cup {k}
          /\ Len(queue'[s]) = Len(queue[s]) /\ Mailbox(s)!Held = Cap
      BY <1>5, <1>6, <1>8, <1>10, <1>12, <1>13, <2>1, <2>3, <2>6
    <3>2. ASSUME NEW e \in pending[s], lost = {e} PROVE Mailbox(s)!Displace({k})
      <4>1. IsFiniteSet(pending[s] \ {e}) /\ Cardinality(pending[s] \ {e}) = Cardinality(pending[s]) - 1
        BY <1>5, WithoutKey
      <4>2. Cardinality(pending'[s]) = Cardinality(pending[s] \ {e}) + 1
        BY <3>1, <3>2, <4>1, WithKey
      <4>3. Others(s)' = Others(s)
        BY <1>5, <3>1, <4>1, <4>2
      <4>4. e \in Keys \ {k} /\ latest[s][e] # 0 /\ latest'[s][e] = 0
        BY <1>5, <1>10, <2>6, <3>1, <3>2
      <4>5. \A j \in Keys \ ({k} \cup {e}) : latest'[s][j] = latest[s][j]
        BY <1>10, <2>6, <3>2
      <4> QED
        BY <4>3, <4>4, <4>5 DEF Mailbox!Displace, Mailbox!Alone, Others
    <3>3. ASSUME Others(s) > 0, lost = {} PROVE Mailbox(s)!Displace({k})
      <4>0. pending'[s] = pending[s] \cup {k}
        BY <3>1, <3>3
      <4>1. Cardinality(pending'[s]) = Cardinality(pending[s]) + 1
        BY <1>5, <3>1, <4>0, WithKey
      <4>2. Others(s)' = Others(s) - 1
        BY <1>5, <3>1, <4>1
      <4>3. \A j \in Keys \ {k} : latest'[s][j] = latest[s][j]
        BY <1>10, <2>6, <3>3
      <4> QED
        BY <3>3, <4>2, <4>3 DEF Mailbox!Displace, Mailbox!Alone, Others
    <3> QED
      BY <1>11, <2>6, <3>1, <3>2, <3>3
  <2> QED
    BY <2>4, <2>5, <2>6
<1>14. CASE k \notin Keys
  <2>1. ~Coalesces(s, k) /\ {k} \cap Keys = {} /\ Keys \ {k} = Keys
    BY <1>5, <1>12, <1>14
  <2>2. SUFFICES
          \/ Mailbox(s)!Held < Cap /\ Mailbox(s)!Alone({}) /\ Others(s)' = Others(s) + 1
          \/ Mailbox(s)!Held = Cap /\ \E e \in Keys : latest[s][e] # 0 /\ latest'[s][e] = 0
                                                     /\ Mailbox(s)!Alone({e}) /\ Others(s)' = Others(s) + 1
          \/ Mailbox(s)!Held = Cap /\ Others(s) > 0 /\ Mailbox(s)!Alone({}) /\ Others(s)' = Others(s)
    BY <1>5, <1>7 DEF Mailbox!Next, Mailbox!PostOther, Others
  <2>3. Mailbox(s)!Held = Len(queue[s])
    BY <1>6, SameCardinality DEF Mailbox!Held, Others
  <2>4. CASE ~Full(s)
    <3>1. pending'[s] = pending[s] /\ \A j \in Keys : latest'[s][j] = latest[s][j]
      BY <1>10, <2>1, <2>4
    <3>2. Others(s)' = Others(s) + 1
      BY <1>5, <1>6, <1>8, <2>1, <2>4, <3>1
    <3> QED
      BY <1>6, <2>3, <2>4, <3>1, <3>2 DEF Mailbox!Alone
  <2>5. CASE Full(s)
    <3>1. /\ pending'[s] = pending[s] \ lost
          /\ Len(queue'[s]) = Len(queue[s]) /\ Mailbox(s)!Held = Cap
          /\ \A j \in Keys : latest'[s][j] = IF j \in lost THEN 0 ELSE latest[s][j]
      BY <1>6, <1>8, <1>10, <2>1, <2>3, <2>5
    <3>2. CASE \E e \in pending[s] : lost = {e}
      <4>1. PICK e \in pending[s] : lost = {e}
        BY <3>2
      <4>2. Cardinality(pending'[s]) = Cardinality(pending[s]) - 1
        BY <1>5, <3>1, <4>1, WithoutKey
      <4>3. Others(s)' = Others(s) + 1
        BY <1>5, <3>1, <4>2
      <4>4. e \in Keys /\ latest[s][e] # 0 /\ latest'[s][e] = 0
        BY <1>5, <3>1, <4>1
      <4>5. \A j \in Keys \ {e} : latest'[s][j] = latest[s][j]
        BY <3>1, <4>1
      <4> QED
        BY <3>1, <4>3, <4>4, <4>5 DEF Mailbox!Alone
    <3>3. CASE Others(s) > 0 /\ lost = {}
      <4>1. Others(s)' = Others(s)
        BY <1>5, <3>1, <3>3
      <4>2. \A j \in Keys : latest'[s][j] = latest[s][j]
        BY <3>1, <3>3
      <4> QED
        BY <3>1, <3>3, <4>1, <4>2 DEF Mailbox!Alone
    <3> QED
      BY <1>11, <2>5, <3>2, <3>3
  <2> QED
    BY <2>4, <2>5
<1> QED
  BY <1>13, <1>14

(* Every lossy subscription, whatever else the bus does, implements the    *)
(* mailbox that keeps the newest event of each key: an event displaces     *)
(* another only when the queue is full, and never a newer one of its key.  *)
THEOREM KeepsLatest == Spec => LossyKeepsLatest
<1>1. Init => \A s \in LossySubs : Mailbox(s)!Init
  <2> SUFFICES ASSUME Init, NEW s \in LossySubs PROVE Mailbox(s)!Init
    OBVIOUS
  <2>1. s \in Subs
    BY DEF LossySubs
  <2>2. queue[s] = <<>> /\ latest[s] = [k \in Keys |-> 0] /\ newest[s] = [x \in Sources |-> 0]
    BY <2>1 DEF Init
  <2>3. Unkeyed(s) = {}
    BY <2>2 DEF Unkeyed
  <2>4. Cardinality(Unkeyed(s)) = 0
    BY <2>3, FS_EmptySet
  <2>5. [k \in Keys |-> newest[s][k]] = [k \in Keys |-> 0]
    BY <2>2, Assumed
  <2> QED
    BY <2>2, <2>4, <2>5 DEF Mailbox!Init
<1>2. ASSUME IInv, IInv', Moves, NEW s \in LossySubs
      PROVE  [Mailbox(s)!Next]_(Mailbox(s)!vars)
  <2>1. s \in Subs /\ TopicOf[s] \in Lossy
    BY DEF LossySubs
  <2>2. CASE Kept(s)
    BY <2>2 DEF Kept, Mailbox!vars, Unkeyed
  <2>3. CASE Posted(s)
    BY <1>2, <2>3, PostedIsPost
  <2>4. CASE Took(s)
    BY <1>2, <2>4, TookIsTake
  <2> QED
    BY <1>2, <2>1, <2>2, <2>3, <2>4 DEF Moves, Put
<1>3. IInv /\ IInv' /\ [Next]_vars =>
        [\A s \in LossySubs : [Mailbox(s)!Next]_(Mailbox(s)!vars)]_vars
  BY <1>2, IInvStep
<1> QED
  BY <1>1, <1>3, Invariance, PTL DEF Spec, LossyKeepsLatest
-----------------------------------------------------------------------------
(***************************************************************************)
(* Drops.  While a subscription is listed, what it keeps of a key is the   *)
(* newest event of the key; so an event is missed only when an event of    *)
(* another key, or of none, displaces it, and that drop is counted.        *)
(***************************************************************************)
Missed(s, t) ==
  {k \in Keys : sent[t][k] > since[s][k] /\ sent[t][k] \notin {latest[s][k], newest[s][k]}}

Current == \A t \in Lossy : \A s \in Subscribed(t), k \in Keys : latest[s][k] \in {0, sent[t][k]}
Unused  == \A s \in LossySubs : task[s] = "none" /\ s \notin Listed => queue[s] = <<>>
PlainSent ==
  \A s \in LossySubs : Plain(queue[s]) # {} => sent[TopicOf[s]][None] # 0
DropsCounted ==
  \A t \in Lossy : \A s \in Subscribed(t) :
    IsFiniteSet(Missed(s, t)) /\ Cardinality(Missed(s, t)) <= stats.dropped
KeysSuffice ==
  Cardinality(Keys) <= Cap /\ (\A t \in Topics : sent[t][None] = 0) => stats.dropped = 0

DropInv == Current /\ Unused /\ PlainSent /\ DropsCounted /\ KeysSuffice

(* A step that publishes nothing on a lossy topic and subscribes nobody. *)
Calm ==
  /\ \A t \in Lossy : sent'[t] = sent[t]
  /\ since' = since /\ stats'.dropped = stats.dropped
  /\ \A t \in Topics : Subscribed(t)' \subseteq Subscribed(t)
  /\ \A s \in Subs : task'[s] = "none" /\ s \notin Listed' => task[s] = "none" /\ s \notin Listed

(* The payloads of a tail were in the sequence. *)
LEMMA TailPlain ==
  ASSUME NEW q, Tidy(q), q # <<>>
  PROVE  Plain(Tail(q)) # {} => Plain(q) # {}
<1>1. q \in Seq(Items) /\ Len(q) \in Nat /\ DOMAIN q = 1..Len(q) /\ DOMAIN Tail(q) = 1..(Len(q) - 1)
  BY DEF Tidy
<1>2. \A j \in 1..(Len(q) - 1) : Tail(q)[j] = q[j + 1] /\ j + 1 \in 1..Len(q)
  BY <1>1
<1> QED
  BY <1>1, <1>2 DEF Plain

LEMMA AppendPlain ==
  ASSUME NEW q, Tidy(q), NEW e \in Items
  PROVE  Plain(Append(q, e)) # {} => Plain(q) # {} \/ e.kind = "payload"
<1>1. /\ q \in Seq(Items) /\ Len(q) \in Nat /\ DOMAIN q = 1..Len(q)
      /\ DOMAIN Append(q, e) = 1..(Len(q) + 1)
  BY DEF Tidy
<1>2. \A j \in 1..(Len(q) + 1) : Append(q, e)[j] = IF j \in 1..Len(q) THEN q[j] ELSE e
  BY <1>1
<1> QED
  BY <1>1, <1>2 DEF Plain

LEMMA MissedTyped ==
  ASSUME IInv, NEW t \in Lossy, NEW s \in Subscribed(t)
  PROVE  /\ s \in LossySubs /\ s \in Subs /\ TopicOf[s] = t /\ t \in Topics
         /\ \A k \in Keys : latest[s][k] \in Nat /\ newest[s][k] \in Nat /\ sent[t][k] \in Nat
                            /\ since[s][k] \in Nat
<1>1. s \in Subs /\ TopicOf[s] = t /\ t \in Topics
  BY Assumed, ListedAre DEF IInv
<1>2. /\ latest \in [Subs -> [Keys -> Nat]] /\ newest \in [Subs -> [Sources -> Nat]]
      /\ sent \in [Topics -> [Sources -> Nat]] /\ since \in [Subs -> [Sources -> Nat]]
  BY DEF IInv, TypeInv, TypeOK
<1>3. s \in LossySubs
  BY <1>1 DEF LossySubs
<1> QED
  BY <1>1, <1>2, <1>3, Assumed

LEMMA FewerMissed ==
  ASSUME NEW S, NEW T, IsFiniteSet(S), T \subseteq S, NEW n, Cardinality(S) <= n, n \in Nat
  PROVE  IsFiniteSet(T) /\ Cardinality(T) <= n
<1>1. IsFiniteSet(T) /\ Cardinality(T) <= Cardinality(S)
  BY FS_Subset
<1>2. Cardinality(S) \in Nat /\ Cardinality(T) \in Nat
  BY <1>1, FS_CardinalityType
<1> QED
  BY <1>1, <1>2

LEMMA DroppedTyped == TypeOK => stats.dropped \in Nat
  BY DEF TypeOK, Counters

LEMMA CalmStep ==
  ASSUME IInv, IInv', DropInv, Moves, SentGrows, Calm
  PROVE  DropInv'
<1>1. ASSUME NEW s \in LossySubs
      PROVE  /\ Kept(s) \/ Took(s)
             /\ s \in Subs /\ TopicOf[s] \in Lossy /\ TopicOf[s] \in Topics
             /\ sent'[TopicOf[s]] = sent[TopicOf[s]]
  <2>1. s \in Subs /\ TopicOf[s] \in Lossy /\ TopicOf[s] \in Topics
    BY Assumed DEF LossySubs
  <2>2. ~Put(s)
    BY <2>1 DEF Put
  <2>3. ~Posted(s)
    <3>1. SUFFICES ASSUME NEW k \in Keys \cup {None}, NEW no \in Nat, PostedAt(s, k, no) PROVE FALSE
      BY DEF Posted
    <3>0. k \in Sources /\ sent \in [Topics -> [Sources -> Nat]]
      BY Assumed DEF IInv, TypeInv, TypeOK
    <3>2. sent[TopicOf[s]][k] \in Nat
      BY <2>1, <3>0
    <3>3. sent'[TopicOf[s]][k] = sent[TopicOf[s]][k]
      BY <2>1 DEF Calm
    <3> QED
      BY <3>1, <3>2, <3>3 DEF PostedAt
  <2> QED
    BY <2>1, <2>2, <2>3 DEF Moves, Calm
<1>2. ASSUME NEW s \in LossySubs, Took(s)
      PROVE  /\ queue[s] # <<>> /\ queue'[s] = Tail(queue[s])
             /\ \A k \in Keys : \/ latest'[s][k] = latest[s][k] /\ newest'[s][k] = newest[s][k]
                                \/ latest[s][k] # 0 /\ newest'[s][k] = latest[s][k] /\ latest'[s][k] = 0
  <2>1. /\ queue[s] # <<>> /\ queue'[s] = Tail(queue[s])
        /\ latest'[s] = LatestTaken(s)
        /\ newest'[s] = [newest[s] EXCEPT ![Head(queue[s]).src] = Handed(s)]
    BY <1>2 DEF Took
  <2>2. Tidy(queue[s]) /\ newest[s] \in [Sources -> Nat]
    BY <1>1 DEF IInv, QueuesFit, Fit, TypeInv, TypeOK
  <2>3. /\ Head(queue[s]).kind = "key" =>
             Head(queue[s]).src \in Keys /\ Head(queue[s]) = KeyItem(Head(queue[s]).src)
        /\ Head(queue[s]).kind # "key" => Head(queue[s]).src \notin Keys
    BY <2>1, <2>2, TailTidy
  <2>4. ASSUME NEW k \in Keys
        PROVE  \/ latest'[s][k] = latest[s][k] /\ newest'[s][k] = newest[s][k]
               \/ latest[s][k] # 0 /\ newest'[s][k] = latest[s][k] /\ latest'[s][k] = 0
    <3>1. KeyItem(k).kind = "key" /\ KeyItem(k).src = k /\ k \in Sources
      BY ItemsTyped, Assumed
    <3>2. latest'[s][k] = IF Head(queue[s]) = KeyItem(k) THEN 0 ELSE latest[s][k]
      BY <2>1 DEF LatestTaken
    <3>3. newest'[s][k] = IF k = Head(queue[s]).src THEN Handed(s) ELSE newest[s][k]
      BY <2>1, <2>2, <3>1
    <3>4. CASE Head(queue[s]) = KeyItem(k)
      <4>1. latest[s][k] # 0
        BY <1>1, <2>1, <2>2, <3>1, <3>4, TailTidy DEF IInv, QueuesFit, Fit
      <4> QED
        BY <3>1, <3>2, <3>3, <3>4, <4>1 DEF Handed
    <3>5. CASE Head(queue[s]) # KeyItem(k)
      <4>1. k # Head(queue[s]).src
        BY <2>3, <3>5
      <4> QED
        BY <3>2, <3>3, <3>5, <4>1
    <3> QED
      BY <3>4, <3>5
  <2> QED
    BY <2>1, <2>4
<1>3. Current' /\ DropsCounted'
  <2> SUFFICES ASSUME NEW t \in Lossy, NEW s \in Subscribed(t)'
               PROVE  /\ \A k \in Keys : latest'[s][k] \in {0, sent'[t][k]}
                      /\ IsFiniteSet(Missed(s, t)') /\ Cardinality(Missed(s, t)') <= stats'.dropped
    BY DEF Current, DropsCounted
  <2>1. t \in Topics /\ s \in Subscribed(t)
    BY Assumed DEF Calm
  <2>2. s \in LossySubs /\ TopicOf[s] = t
    BY <2>1, MissedTyped
  <2>3. sent'[t] = sent[t] /\ since' = since /\ stats'.dropped = stats.dropped
    BY DEF Calm
  <2>4. \A k \in Keys : latest[s][k] \in {0, sent[t][k]}
    BY <2>1 DEF DropInv, Current
  <2>5. \A k \in Keys :
          \/ latest'[s][k] = latest[s][k] /\ newest'[s][k] = newest[s][k]
          \/ latest[s][k] # 0 /\ newest'[s][k] = latest[s][k] /\ latest'[s][k] = 0
    BY <1>1, <1>2, <2>2 DEF Kept
  <2>6. \A k \in Keys : latest'[s][k] \in {0, sent'[t][k]}
    BY <2>3, <2>4, <2>5
  <2>7. Missed(s, t)' \subseteq Missed(s, t)
    BY <2>3, <2>4, <2>5 DEF Missed
  <2>8. IsFiniteSet(Missed(s, t)) /\ Cardinality(Missed(s, t)) <= stats.dropped /\ stats.dropped \in Nat
    BY <2>1, DroppedTyped DEF DropInv, DropsCounted, IInv, TypeInv
  <2>9. IsFiniteSet(Missed(s, t)') /\ Cardinality(Missed(s, t)') <= stats'.dropped
    BY <2>3, <2>7, <2>8, FewerMissed
  <2> QED
    BY <2>6, <2>9
<1>4. Unused'
  <2> SUFFICES ASSUME NEW s \in LossySubs, task'[s] = "none", s \notin Listed' PROVE queue'[s] = <<>>
    BY DEF Unused, LossySubs
  <2>1. task[s] = "none" /\ s \notin Listed
    BY <1>1 DEF Calm
  <2>2. queue[s] = <<>>
    BY <2>1 DEF DropInv, Unused
  <2> QED
    BY <1>1, <1>2, <2>2 DEF Kept
<1>5. PlainSent'
  <2> SUFFICES ASSUME NEW s \in LossySubs, Plain(queue'[s]) # {} PROVE sent'[TopicOf[s]][None] # 0
    BY DEF PlainSent, LossySubs, Plain
  <2>1. Plain(queue[s]) # {}
    <3>1. CASE Kept(s)
      BY <3>1 DEF Kept
    <3>2. CASE Took(s)
      BY <1>1, <1>2, <3>2, TailPlain DEF IInv, QueuesFit, Fit
    <3> QED
      BY <1>1, <3>1, <3>2
  <2> QED
    BY <1>1, <2>1 DEF DropInv, PlainSent
<1>6. KeysSuffice'
  <2> SUFFICES ASSUME Cardinality(Keys) <= Cap, \A t \in Topics : sent'[t][None] = 0
               PROVE  stats'.dropped = 0
    BY DEF KeysSuffice
  <2>1. \A t \in Topics : sent[t][None] = 0
    <3>1. \A t \in Topics : sent[t][None] \in Nat /\ sent'[t][None] >= sent[t][None]
      BY Assumed DEF IInv, TypeInv, TypeOK, SentGrows
    <3> QED
      BY <3>1
  <2> QED
    BY <2>1 DEF Calm, DropInv, KeysSuffice
<1> QED
  BY <1>3, <1>4, <1>5, <1>6 DEF DropInv
LEMMA SubscribeDrops ==
  ASSUME IInv, IInv', DropInv, NEW s \in Subs, Subscribe(s)
  PROVE  DropInv'
<1> DEFINE t == TopicOf[s]
<1>1. /\ task[s] = "none" /\ s \notin Listed
      /\ subs' = [subs EXCEPT ![t] = Append(@, s)]
      /\ task' = EnsureStarted(Listed \cup {s})
      /\ since' = [since EXCEPT ![s] = sent[t]]
      /\ UNCHANGED <<queue, latest, pending, handling, pub, stats, closing, sent, newest, handed, offered>>
  BY DEF Subscribe
<1>2. t \in Topics /\ subs \in [Topics -> Seq(Subs)] /\ subs[t] \in Seq(Subs)
  BY Assumed DEF IInv, TypeInv, TypeOK
<1>3. \A u \in Topics : Subscribed(u)' = IF u = t THEN Subscribed(t) \cup {s} ELSE Subscribed(u)
  <2>1. Subscribed(t)' = Subscribed(t) \cup {s}
    <3>1. /\ subs'[t] = Append(subs[t], s) /\ DOMAIN subs[t] = 1..Len(subs[t]) /\ Len(subs[t]) \in Nat
          /\ DOMAIN subs'[t] = 1..(Len(subs[t]) + 1)
      BY <1>1, <1>2
    <3>2. \A j \in 1..(Len(subs[t]) + 1) : subs'[t][j] = IF j \in 1..Len(subs[t]) THEN subs[t][j] ELSE s
      BY <1>2, <3>1
    <3>3. Len(subs[t]) + 1 \in 1..(Len(subs[t]) + 1) /\ Len(subs[t]) + 1 \notin 1..Len(subs[t])
          /\ 1..Len(subs[t]) \subseteq 1..(Len(subs[t]) + 1)
      BY <3>1
    <3> QED
      BY <3>1, <3>2, <3>3 DEF Subscribed, Places
  <2>2. \A u \in Topics : u # t => subs'[u] = subs[u]
    BY <1>1, <1>2
  <2> QED
    BY <2>1, <2>2 DEF Subscribed, Places
<1>4. Listed' = Listed \cup {s}
  BY <1>2, <1>3 DEF Listed
<1>5. Current' /\ DropsCounted'
  <2> SUFFICES ASSUME NEW u \in Lossy, NEW v \in Subscribed(u)'
               PROVE  /\ \A k \in Keys : latest'[v][k] \in {0, sent'[u][k]}
                      /\ IsFiniteSet(Missed(v, u)') /\ Cardinality(Missed(v, u)') <= stats'.dropped
    BY DEF Current, DropsCounted
  <2>0. u \in Topics
    BY Assumed
  <2>1. CASE v \in Subscribed(u)
    <3>1. v \in Listed /\ v # s /\ v \in Subs
      BY <1>1, <2>0, <2>1, ListedAre DEF Listed, IInv
    <3>2. since'[v] = since[v]
      BY <1>1, <3>1 DEF IInv, TypeInv, TypeOK
    <3>3. Missed(v, u)' = Missed(v, u)
      BY <1>1, <3>2 DEF Missed
    <3> QED
      BY <1>1, <2>1, <3>3 DEF DropInv, Current, DropsCounted
  <2>2. CASE v \notin Subscribed(u)
    <3>1. v = s /\ u = t
      BY <1>3, <2>0, <2>2
    <3>2. queue[s] = <<>>
      BY <1>1, <3>1 DEF DropInv, Unused, LossySubs
    <3>3. \A k \in Keys : latest[s][k] = 0
      BY <3>2, EmptyTidy DEF IInv, QueuesFit, Fit
    <3>4. since'[s] = sent[t]
      BY <1>1 DEF IInv, TypeInv, TypeOK
    <3>5. \A k \in Keys : sent[t][k] \in Nat
      <4>1. sent \in [Topics -> [Sources -> Nat]] /\ \A k \in Keys : k \in Sources
        BY Assumed DEF IInv, TypeInv, TypeOK
      <4> QED
        BY <1>2, <4>1
    <3>6. Missed(v, u)' = {}
      BY <1>1, <3>1, <3>4, <3>5 DEF Missed
    <3>7. IsFiniteSet({}) /\ Cardinality({}) = 0 /\ stats.dropped \in Nat
      BY FS_EmptySet, DroppedTyped DEF IInv, TypeInv
    <3> QED
      BY <1>1, <3>1, <3>3, <3>6, <3>7
  <2> QED
    BY <2>1, <2>2
<1>6. Unused'
  BY <1>1, <1>4 DEF DropInv, Unused, EnsureStarted, LossySubs
<1>7. PlainSent' /\ KeysSuffice'
  BY <1>1 DEF DropInv, PlainSent, KeysSuffice, LossySubs, Plain
<1> QED
  BY <1>5, <1>6, <1>7 DEF DropInv
(* An event of a lossy topic.  With finitely many keys that fit the queue  *)
(* and no event without one, nothing is evicted.                           *)
LEMMA NothingEvicted ==
  ASSUME IInv, PlainSent, IsFiniteSet(Keys), Cardinality(Keys) <= Cap,
         NEW s \in LossySubs, sent[TopicOf[s]][None] = 0, NEW k \in Keys
  PROVE  ~Evicts(s, k)
<1>1. SUFFICES ASSUME k \notin pending[s], Full(s) PROVE FALSE
  BY DEF Evicts, Coalesces
<1>2. s \in Subs /\ Fit(queue[s], latest[s], pending[s])
  BY DEF LossySubs, IInv, QueuesFit
<1>3. Plain(queue[s]) = {}
  BY DEF PlainSent
<1>4. /\ IsFiniteSet(pending[s]) /\ Cardinality(pending[s]) \in Nat
      /\ Len(queue[s]) = Cardinality(pending[s]) + Cardinality(Plain(queue[s]))
  BY <1>2, FitCounts
<1>5. Len(queue[s]) = Cardinality(pending[s])
  BY <1>3, <1>4, FS_EmptySet
<1>6. pending[s] \subseteq Keys \ {k}
  BY <1>1, <1>2 DEF Fit
<1>7. IsFiniteSet(Keys \ {k}) /\ Cardinality(Keys \ {k}) = Cardinality(Keys) - 1
  BY WithoutKey
<1>8. Cardinality(pending[s]) <= Cardinality(Keys \ {k}) /\ Cardinality(Keys) \in Nat
  BY <1>6, <1>7, FS_Subset, FS_CardinalityType
<1> QED
  BY <1>1, <1>4, <1>5, <1>7, <1>8, Assumed DEF Full

LEMMA LossyDrops ==
  ASSUME IInv, IInv', DropInv, SentGrows, IsFiniteSet(Keys),
         NEW t \in Topics, NEW k \in Keys \cup {None}, PublishLossy(t, k)
  PROVE  DropInv'
<1> DEFINE no      == sent[t][k] + 1
           listed  == Subscribed(t)
           evicted == {s \in listed : Evicts(s, k)}
<1>1. /\ t \in Lossy
      /\ sent' = [sent EXCEPT ![t][k] = no]
      /\ queue' = [s \in Subs |-> IF s \in listed THEN QueueAfter(s, k, no) ELSE queue[s]]
      /\ latest' = [s \in Subs |-> IF s \in listed THEN LatestAfter(s, k, no) ELSE latest[s]]
      /\ task' = EnsureStarted(Listed)
      /\ stats' = [Counted(t) EXCEPT
           !.coalesced = @ + Cardinality({s \in listed : Coalesces(s, k)}),
           !.dropped   = @ + Cardinality(evicted)]
      /\ UNCHANGED <<subs, since, newest>>
  BY DEF PublishLossy
<1>2. /\ k \in Sources /\ sent \in [Topics -> [Sources -> Nat]]
      /\ sent[t][k] \in Nat /\ no \in Nat \ {0}
  <2>1. k \in Sources /\ sent \in [Topics -> [Sources -> Nat]]
    BY Assumed DEF IInv, TypeInv, TypeOK
  <2> QED
    BY <2>1
<1>3. /\ listed \subseteq Subs /\ IsFiniteSet(listed) /\ \A s \in listed : TopicOf[s] = t
      /\ IsFiniteSet(evicted) /\ Cardinality(evicted) \in Nat
  BY ListedAre, FS_Subset, FS_CardinalityType DEF IInv
<1>4. stats'.dropped = stats.dropped + Cardinality(evicted) /\ stats.dropped \in Nat
  <2>1. Counted(t) \in [Counters -> Nat] /\ Counted(t).dropped = stats.dropped /\ stats.dropped \in Nat
    BY CountedTyped, DroppedTyped DEF IInv, TypeInv, TypeOK, Counted, Counters
  <2> DEFINE c == Cardinality({s \in listed : Coalesces(s, k)})
             d == Cardinality(evicted)
  <2>2. stats' = [Counted(t) EXCEPT !.coalesced = @ + c, !.dropped = @ + d]
    BY <1>1
  <2> HIDE DEF c, d
  <2>3. stats'.dropped = Counted(t).dropped + d
    BY <2>1, <2>2 DEF Counters
  <2> QED
    BY <2>1, <2>3 DEF d
<1> HIDE DEF evicted
<1>5. \A u \in Topics : Subscribed(u)' = Subscribed(u)
  BY <1>1 DEF Subscribed, Places
<1>6. Current' /\ DropsCounted'
  <2> SUFFICES ASSUME NEW u \in Lossy, NEW s \in Subscribed(u)
               PROVE  /\ \A j \in Keys : latest'[s][j] \in {0, sent'[u][j]}
                      /\ IsFiniteSet(Missed(s, u)') /\ Cardinality(Missed(s, u)') <= stats'.dropped
    BY <1>5, Assumed DEF Current, DropsCounted
  <2>1. /\ s \in LossySubs /\ s \in Subs /\ TopicOf[s] = u /\ u \in Topics
        /\ \A j \in Keys : /\ latest[s][j] \in Nat /\ newest[s][j] \in Nat
                           /\ sent[u][j] \in Nat /\ since[s][j] \in Nat
    BY MissedTyped
  <2>2. /\ \A j \in Keys : latest[s][j] \in {0, sent[u][j]}
        /\ IsFiniteSet(Missed(s, u)) /\ Cardinality(Missed(s, u)) <= stats.dropped
    BY DEF DropInv, Current, DropsCounted
  <2>3. CASE u # t
    <3>1. s \notin listed /\ sent'[u] = sent[u]
      BY <1>1, <1>2, <1>3, <2>1, <2>3
    <3>2. latest'[s] = latest[s] /\ since'[s] = since[s] /\ newest'[s] = newest[s]
      BY <1>1, <2>1, <3>1
    <3>3. Missed(s, u)' = Missed(s, u)
      BY <3>1, <3>2 DEF Missed
    <3>4. Cardinality(Missed(s, u)) \in Nat
      BY <2>2, FS_CardinalityType
    <3> QED
      BY <1>3, <1>4, <2>2, <3>1, <3>2, <3>3, <3>4
  <2>4. CASE u = t
    <3>1. s \in listed /\ \A j \in Sources : sent'[t][j] = IF j = k THEN no ELSE sent[t][j]
      BY <1>1, <1>2, <2>4
    <3> DEFINE lost == {j \in Keys : Evicts(s, k) /\ Evicted(s) = KeyItem(j)}
    <3>2. \A j \in Keys : latest'[s][j] = IF j = k THEN no ELSE IF j \in lost THEN 0 ELSE latest[s][j]
      BY <1>1, <2>1, <3>1 DEF LatestAfter
    <3>3. since'[s] = since[s] /\ newest'[s] = newest[s]
      BY <1>1
    <3>4. Missed(s, u)' \subseteq Missed(s, u) \cup lost
      BY <2>4, <3>1, <3>2, <3>3, Assumed DEF Missed
    <3>5. \A j \in Keys : latest'[s][j] \in {0, sent'[u][j]}
      BY <2>2, <2>4, <3>1, <3>2, Assumed
    <3>6. CASE ~Evicts(s, k)
      <4>1. Missed(s, u)' \subseteq Missed(s, u)
        BY <3>4, <3>6
      <4>2. IsFiniteSet(Missed(s, u)') /\ Cardinality(Missed(s, u)') <= stats.dropped
        BY <1>4, <2>2, <4>1, FewerMissed
      <4>3. Cardinality(Missed(s, u)') \in Nat
        BY <4>2, FS_CardinalityType
      <4> QED
        BY <1>3, <1>4, <3>5, <4>2, <4>3
    <3>7. CASE Evicts(s, k)
      <4>1. evicted # {}
        BY <3>1, <3>7 DEF evicted
      <4>2. Cardinality(evicted) >= 1
        BY <1>3, <4>1, FS_EmptySet
      <4>3. PICK e : lost \subseteq {e}
        <5>1. \A i, j \in lost : i = j
          <6>1. \A j \in lost : Evicted(s) = KeyItem(j) /\ KeyItem(j).src = j
            BY ItemsTyped
          <6> QED
            BY <6>1
        <5> QED
          BY <5>1
      <4>4. /\ IsFiniteSet(Missed(s, u) \cup {e})
            /\ Cardinality(Missed(s, u) \cup {e}) <= stats.dropped + 1
        <5>1. /\ IsFiniteSet(Missed(s, u) \cup {e}) /\ Cardinality(Missed(s, u)) \in Nat
              /\ \/ Cardinality(Missed(s, u) \cup {e}) = Cardinality(Missed(s, u))
                 \/ Cardinality(Missed(s, u) \cup {e}) = Cardinality(Missed(s, u)) + 1
          BY <2>2, FS_AddElement, FS_CardinalityType
        <5> QED
          BY <1>4, <2>2, <5>1
      <4>5. Missed(s, u)' \subseteq Missed(s, u) \cup {e}
        BY <3>4, <4>3
      <4>6. IsFiniteSet(Missed(s, u)') /\ Cardinality(Missed(s, u)') <= stats.dropped + 1
        <5>1. stats.dropped + 1 \in Nat
          BY <1>4
        <5> QED
          BY <4>4, <4>5, <5>1, FewerMissed
      <4>7. Cardinality(Missed(s, u)') \in Nat
        BY <4>6, FS_CardinalityType
      <4> QED
        BY <1>3, <1>4, <3>5, <4>2, <4>6, <4>7
    <3> QED
      BY <3>6, <3>7
  <2> QED
    BY <2>3, <2>4
<1>7. Unused'
  <2> SUFFICES ASSUME NEW s \in LossySubs, task'[s] = "none", s \notin Listed' PROVE queue'[s] = <<>>
    BY DEF Unused, LossySubs
  <2>1. s \in Subs /\ s \notin Listed /\ task[s] = "none"
    BY <1>1, <1>5 DEF Listed, EnsureStarted, LossySubs
  <2>2. s \notin listed /\ queue[s] = <<>>
    BY <2>1 DEF Listed, DropInv, Unused
  <2> QED
    BY <1>1, <2>1, <2>2
<1>8. PlainSent'
  <2> SUFFICES ASSUME NEW s \in LossySubs, Plain(queue'[s]) # {} PROVE sent'[TopicOf[s]][None] # 0
    BY DEF PlainSent, LossySubs, Plain
  <2>1. s \in Subs /\ TopicOf[s] \in Topics
    BY Assumed DEF LossySubs
  <2>2. sent[TopicOf[s]][None] \in Nat /\ sent'[TopicOf[s]][None] >= sent[TopicOf[s]][None]
        /\ sent'[TopicOf[s]][None] \in Nat
    <3>1. sent' \in [Topics -> [Sources -> Nat]] /\ None \in Sources
      BY Assumed DEF IInv, TypeInv, TypeOK
    <3> QED
      BY <1>2, <2>1, <3>1 DEF SentGrows
  <2>3. CASE Plain(queue[s]) # {}
    BY <2>2, <2>3 DEF DropInv, PlainSent
  <2>4. CASE Plain(queue[s]) = {}
    <3>1. s \in listed /\ queue'[s] = QueueAfter(s, k, no) /\ TopicOf[s] = t
      BY <1>1, <1>3, <2>1, <2>4
    <3>2. ~Coalesces(s, k)
      BY <2>4, <3>1 DEF QueueAfter
    <3>3. queue'[s] = Append(Room(s), NewItem(k, no))
      BY <3>1, <3>2 DEF QueueAfter, Room, NewItem
    <3>4. Tidy(Room(s)) /\ Tidy(queue[s]) /\ (Full(s) => queue[s] # <<>>)
      BY <2>1, RoomIs DEF IInv, QueuesFit, Fit
    <3>5. Plain(Room(s)) = {}
      BY <2>4, <3>4, TailPlain DEF Room
    <3>6. NewItem(k, no) \in Items /\ (k \in Keys => NewItem(k, no).kind = "key")
      BY <1>2, ItemsTyped DEF NewItem
    <3>7. k = None
      BY <3>3, <3>4, <3>5, <3>6, AppendPlain
    <3> QED
      BY <1>1, <1>2, <3>1, <3>7
  <2> QED
    BY <2>3, <2>4
<1>9. KeysSuffice'
  <2> SUFFICES ASSUME Cardinality(Keys) <= Cap, \A u \in Topics : sent'[u][None] = 0
               PROVE  stats'.dropped = 0
    BY DEF KeysSuffice
  <2>1. k \in Keys
    <3>1. k # None
      BY <1>1, <1>2
    <3> QED
      BY <3>1
  <2>2. \A u \in Topics : sent[u][None] = 0
    <3>1. \A u \in Topics : sent[u][None] \in Nat /\ sent'[u][None] >= sent[u][None]
      BY <1>2, Assumed DEF SentGrows
    <3> QED
      BY <3>1
  <2>3. \A s \in listed : s \in LossySubs
    BY <1>1, <1>3 DEF LossySubs
  <2>4. \A s \in listed : ~Evicts(s, k)
    BY <1>3, <2>1, <2>2, <2>3, NothingEvicted DEF DropInv
  <2>5. evicted = {}
    BY <2>4 DEF evicted
  <2>6. stats.dropped = 0
    BY <2>2 DEF DropInv, KeysSuffice
  <2> QED
    BY <1>4, <2>5, <2>6, FS_EmptySet
<1> QED
  BY <1>6, <1>7, <1>8, <1>9 DEF DropInv
LEMMA PublishLosslessCalm ==
  ASSUME TypeInv, NEW x \in Publishers, NEW t \in Topics, PublishLossless(x, t)
  PROVE  Calm
<1>1. /\ t \notin Lossy
      /\ sent' = [sent EXCEPT ![t][x] = @ + 1]
      /\ UNCHANGED <<subs, since>>
      /\ task' = EnsureStarted(Listed) /\ stats' = Counted(t)
  BY DEF PublishLossless
<1>2. \A u \in Lossy : sent'[u] = sent[u]
  BY <1>1, Assumed DEF TypeInv, TypeOK
<1>3. stats'.dropped = stats.dropped
  BY <1>1 DEF TypeInv, TypeOK, Counted, Counters
<1>4. \A u \in Topics : Subscribed(u)' = Subscribed(u)
  BY <1>1 DEF Subscribed, Places
<1>5. Listed' = Listed
  BY <1>4 DEF Listed
<1> QED
  BY <1>1, <1>2, <1>3, <1>4, <1>5 DEF Calm, EnsureStarted

(* A step that changes neither subscriptions nor what was published. *)
LEMMA QuietCalm ==
  ASSUME TypeInv, UNCHANGED <<subs, sent, since>>, stats'.dropped = stats.dropped,
         \A s \in Subs : s \notin Listed => task'[s] = task[s]
  PROVE  Calm
<1>1. \A u \in Topics : Subscribed(u)' = Subscribed(u)
  BY DEF Subscribed, Places
<1>2. Listed' = Listed
  BY <1>1 DEF Listed
<1> QED
  BY <1>1, <1>2 DEF Calm

(* A list without one of its items keeps the others. *)
LEMMA OthersStay ==
  ASSUME NEW S, NEW q \in Seq(S), NEW n \in DOMAIN q, NEW i \in DOMAIN q, i # n
  PROVE  \E j \in DOMAIN RemoveAt(q, n) : RemoveAt(q, n)[j] = q[i]
<1> DEFINE a == SubSeq(q, 1, n - 1)
           b == SubSeq(q, n + 1, Len(q))
<1>1. n \in 1..Len(q) /\ i \in 1..Len(q) /\ Len(q) \in Nat
  OBVIOUS
<1>2. a \in Seq(S) /\ Len(a) = n - 1 /\ \A j \in 1..(n - 1) : a[j] = q[j]
  BY <1>1
<1>3. b \in Seq(S) /\ Len(b) = Len(q) - n /\ \A j \in 1..(Len(q) - n) : b[j] = q[n + j]
  BY <1>1
<1> HIDE DEF a, b
<1>4. RemoveAt(q, n) = a \o b
  BY DEF RemoveAt, a, b
<1>5. /\ DOMAIN (a \o b) = 1..(Len(q) - 1)
      /\ \A j \in 1..(Len(q) - 1) : (a \o b)[j] = IF j <= n - 1 THEN a[j] ELSE b[j - (n - 1)]
  <2>1. a \in Seq(S) /\ b \in Seq(S) /\ Len(a) = n - 1 /\ Len(b) = Len(q) - n
    BY <1>2, <1>3
  <2>2. DOMAIN (a \o b) = 1..(Len(a) + Len(b))
    <3>1. a \in Seq(S) /\ b \in Seq(S)
      BY <2>1
    <3>2. a \o b \in Seq(S) /\ Len(a \o b) = Len(a) + Len(b)
      BY <3>1
    <3> QED
      BY <3>2
  <2>3. Len(a) + Len(b) = Len(q) - 1 /\ Len(a) \in Nat /\ Len(b) \in Nat
    BY <1>1, <2>1
  <2>4. ASSUME NEW j \in 1..(Len(q) - 1)
        PROVE  (a \o b)[j] = IF j <= n - 1 THEN a[j] ELSE b[j - (n - 1)]
    <3>1. CASE j <= Len(a)
      <4>1. (a \o b)[j] = a[j]
        BY <2>1, <2>3, <3>1
      <4> QED
        BY <2>1, <3>1, <4>1
    <3>2. CASE ~(j <= Len(a))
      <4>0. /\ a \in Seq(S) /\ b \in Seq(S) /\ Len(a) \in Nat /\ Len(b) \in Nat
            /\ a \o b \in Seq(S) /\ DOMAIN (a \o b) = 1..(Len(a) + Len(b))
            /\ j \in DOMAIN (a \o b)
        BY <2>1, <2>2, <2>3
      <4>1. j - Len(a) \in 1..Len(b) /\ (a \o b)[j] = b[j - Len(a)]
        BY <4>0, <3>2
      <4> QED
        BY <2>1, <3>2, <4>1
    <3> QED
      BY <3>1, <3>2
  <2> QED
    BY <2>2, <2>3, <2>4
<1>6. CASE i < n
  <2>1. i \in 1..(n - 1) /\ i \in 1..(Len(q) - 1) /\ i <= n - 1
    BY <1>1, <1>6
  <2>2. (a \o b)[i] = q[i]
    BY <1>2, <1>5, <2>1
  <2> QED
    BY <1>4, <1>5, <2>1, <2>2
<1>7. CASE i > n
  <2>1. i - 1 \in 1..(Len(q) - 1) /\ ~(i - 1 <= n - 1) /\ i - n \in 1..(Len(q) - n)
    BY <1>1, <1>7
  <2>2. (i - 1) - (n - 1) = i - n /\ n + (i - n) = i
    BY <1>1
  <2>3. (a \o b)[i - 1] = b[(i - 1) - (n - 1)] /\ b[i - n] = q[n + (i - n)]
    BY <1>3, <1>5, <2>1
  <2> QED
    BY <1>4, <1>5, <2>1, <2>2, <2>3
<1> QED
  BY <1>1, <1>6, <1>7

LEMMA UnsubscribeCalm ==
  ASSUME TypeInv, NEW s \in Subs, Unsubscribe(s)
  PROVE  Calm
<1> DEFINE t == TopicOf[s]
<1>1. /\ task' = [task EXCEPT ![s] = "cancelled"]
      /\ UNCHANGED <<stats, sent, since>>
  BY DEF Unsubscribe, history
<1>2. PICK n \in DOMAIN subs[t] : subs[t][n] = s /\ subs' = [subs EXCEPT ![t] = RemoveAt(@, n)]
  BY DEF Unsubscribe, Places
<1>3. t \in Topics /\ subs \in [Topics -> Seq(Subs)] /\ subs[t] \in Seq(Subs)
  BY Assumed DEF TypeInv, TypeOK
<1>4. \A u \in Topics : subs'[u] = IF u = t THEN RemoveAt(subs[t], n) ELSE subs[u]
  BY <1>2, <1>3
<1>5. \A u \in Topics : Subscribed(u)' \subseteq Subscribed(u)
  <2>1. \A j \in DOMAIN RemoveAt(subs[t], n) :
          \E i \in DOMAIN subs[t] : RemoveAt(subs[t], n)[j] = subs[t][i]
    BY <1>3, Removed
  <2> QED
    BY <1>4, <2>1 DEF Subscribed, Places
<1>6. \A u \in Topics : Subscribed(u) \ {s} \subseteq Subscribed(u)'
  BY <1>2, <1>3, <1>4, OthersStay DEF Subscribed, Places
<1>7. Listed \ {s} \subseteq Listed'
  BY <1>6 DEF Listed
<1>8. \A v \in Subs : task'[v] = IF v = s THEN "cancelled" ELSE task[v]
  BY <1>1 DEF TypeInv, TypeOK
<1> QED
  BY <1>1, <1>5, <1>7, <1>8 DEF Calm

LEMMA DropsStep ==
  ASSUME IInv, DropInv, IsFiniteSet(Keys), [Next]_vars
  PROVE  DropInv'
<1>1. IInv' /\ Moves /\ SentGrows /\ TypeInv
  BY IInvStep, TypeStep DEF IInv
<1>2. CASE Calm
  BY <1>1, <1>2, CalmStep
<1>3. ASSUME NEW t \in Topics, NEW k \in Keys \cup {None}, PublishLossy(t, k)
      PROVE  DropInv'
  BY <1>1, <1>3, LossyDrops
<1>4. ASSUME NEW x \in Publishers, NEW t \in Topics,
             PublishLossless(x, t) \/ \E k \in Keys \cup {None} : PublishLossy(t, k)
      PROVE  DropInv'
  BY <1>1, <1>2, <1>3, <1>4, PublishLosslessCalm
<1>5. CASE UNCHANGED vars
  <2>1. UNCHANGED <<subs, sent, since, stats, task>>
    BY <1>5 DEF vars, history
  <2> QED
    BY <1>1, <1>2, <2>1, QuietCalm
<1>6. ASSUME NEW s \in Subs, Subscribe(s) PROVE DropInv'
  BY <1>1, <1>6, SubscribeDrops
<1>7. ASSUME NEW s \in Subs, Unsubscribe(s) PROVE DropInv'
  BY <1>1, <1>2, <1>7, UnsubscribeCalm
<1>8. ASSUME NEW x \in Producers, Publish(x) PROVE DropInv'
  BY <1>4, <1>8, Assumed DEF Publish
<1>9. ASSUME NEW x \in Publishers, PublisherResumes(x) PROVE DropInv'
  <2>1. UNCHANGED <<subs, sent, since, stats, task>>
    BY <1>9 DEF PublisherResumes
  <2> QED
    BY <1>1, <1>2, <2>1, QuietCalm
<1>10. ASSUME NEW s \in Subs, Take(s) PROVE DropInv'
  <2>1. UNCHANGED <<subs, sent, since, stats, task>>
    BY <1>10 DEF Take
  <2> QED
    BY <1>1, <1>2, <2>1, QuietCalm
<1>11. ASSUME NEW s \in Subs, HandlerPublishes(s) PROVE DropInv'
  BY <1>4, <1>11, Assumed DEF HandlerPublishes
<1>12. ASSUME NEW s \in Subs, HandlerReturns(s) \/ HandlerRaises(s) PROVE DropInv'
  <2>1. UNCHANGED <<subs, sent, since, task>>
    BY <1>12 DEF HandlerReturns, HandlerRaises, HandlerDone, history
  <2>2. stats' = [stats EXCEPT !.delivered = @ + 1] \/ stats' = [stats EXCEPT !.errors = @ + 1]
    BY <1>12 DEF HandlerReturns, HandlerRaises
  <2>3. stats'.dropped = stats.dropped
    BY <1>1, <2>2 DEF TypeInv, TypeOK, Counters
  <2> QED
    BY <1>1, <1>2, <2>1, <2>3, QuietCalm
<1>13. CASE CloseBegins \/ CloseEnds
  <2>1. UNCHANGED <<subs, sent, since, stats>>
    BY <1>13 DEF CloseBegins, CloseEnds, history
  <2>2. \A s \in Subs : s \notin Listed => task'[s] = task[s]
    BY <1>13 DEF CloseBegins, CloseEnds, EnsureStarted
  <2> QED
    BY <1>1, <1>2, <2>1, <2>2, QuietCalm
<1> QED
  BY <1>5, <1>6, <1>7, <1>8, <1>9, <1>10, <1>11, <1>12, <1>13 DEF Next

(* With finitely many keys: to every lossy subscription the newest event   *)
(* of each key is still kept or was handed over, but for as many keys as   *)
(* drops were counted; and keys that fit the queue are never dropped.      *)
THEOREM DropsAreCounted ==
  ASSUME IsFiniteSet(Keys)
  PROVE  Spec => []FreshestKept
<1>1. Init => DropInv
  <2> SUFFICES ASSUME Init PROVE DropInv
    OBVIOUS
  <2>1. \A t \in Topics : Subscribed(t) = {}
    BY DEF Init, Subscribed, Places
  <2>2. Current /\ DropsCounted
    BY <2>1, Assumed DEF Current, DropsCounted
  <2>3. Unused /\ PlainSent /\ KeysSuffice
    BY EmptyTidy DEF Init, Unused, PlainSent, KeysSuffice, LossySubs, Counters
  <2> QED
    BY <2>2, <2>3 DEF DropInv
<1>2. IInv /\ DropInv /\ [Next]_vars => DropInv'
  BY DropsStep
<1>3. DropInv => FreshestKept
  BY DEF DropInv, DropsCounted, KeysSuffice, FreshestKept, Missed
<1> QED
  BY <1>1, <1>2, <1>3, Invariance, PTL DEF Spec
-----------------------------------------------------------------------------
(***************************************************************************)
(* Order.  What a queue holds of a publisher is a run of its events, in    *)
(* order and without a gap.                                                *)
(***************************************************************************)
FromOf(q, x) == {j \in DOMAIN q : q[j].src = x}
Run(q, x, first, last) ==
  /\ \A i, j \in FromOf(q, x) : i < j => q[i].no < q[j].no
  /\ {q[j].no : j \in FromOf(q, x)} = first..last
  /\ first \in Nat /\ last \in Int /\ 1 <= first /\ first <= last + 1

LEMMA EmptyRun ==
  ASSUME NEW x, NEW first \in Nat, 1 <= first
  PROVE  Run(<<>>, x, first, first - 1)
<1>1. FromOf(<<>>, x) = {}
  BY DEF FromOf
<1>2. first..(first - 1) = {}
  OBVIOUS
<1> QED
  BY <1>1, <1>2 DEF Run

LEMMA AppendRun ==
  ASSUME NEW q \in Seq(Items), NEW e \in Items, NEW x, NEW first, NEW last, Run(q, x, first, last)
  PROVE  /\ e.src = x /\ e.no = last + 1 => Run(Append(q, e), x, first, last + 1)
         /\ e.src # x => Run(Append(q, e), x, first, last)
<1> DEFINE r == Append(q, e)
           n == Len(q) + 1
<1>1. /\ Len(q) \in Nat /\ DOMAIN q = 1..Len(q) /\ DOMAIN r = 1..n /\ r[n] = e
      /\ \A j \in 1..Len(q) : r[j] = q[j] /\ j \in 1..n /\ j < n
      /\ n \in 1..n /\ \A j \in 1..n : j = n \/ j \in 1..Len(q)
  OBVIOUS
<1>2. /\ \A i, j \in FromOf(q, x) : i < j => q[i].no < q[j].no
      /\ {q[j].no : j \in FromOf(q, x)} = first..last
      /\ first \in Nat /\ last \in Int /\ 1 <= first /\ first <= last + 1
  BY DEF Run
<1> HIDE DEF r, n
<1>3. CASE e.src # x
  <2>1. FromOf(r, x) = FromOf(q, x)
    BY <1>1, <1>3 DEF FromOf
  <2>2. \A j \in FromOf(q, x) : r[j] = q[j]
    BY <1>1 DEF FromOf
  <2>3. {r[j].no : j \in FromOf(r, x)} = {q[j].no : j \in FromOf(q, x)}
    BY <2>1, <2>2
  <2>4. \A i, j \in FromOf(r, x) : i < j => r[i].no < r[j].no
    BY <1>2, <2>1, <2>2
  <2>5. {r[j].no : j \in FromOf(r, x)} = first..last
    BY <1>2, <2>3
  <2>6. Run(r, x, first, last)
    BY <1>2, <2>4, <2>5 DEF Run
  <2> QED
    BY <1>3, <2>6 DEF r
<1>4. CASE e.src = x /\ e.no = last + 1
  <2>1. FromOf(r, x) = FromOf(q, x) \cup {n} /\ n \notin FromOf(q, x)
    BY <1>1, <1>4 DEF FromOf
  <2>2. \A j \in FromOf(q, x) : r[j] = q[j] /\ j < n /\ j \in Int
    BY <1>1 DEF FromOf
  <2>3. {r[j].no : j \in FromOf(r, x)} = {q[j].no : j \in FromOf(q, x)} \cup {last + 1}
    BY <1>1, <1>4, <2>1, <2>2
  <2>4. {r[j].no : j \in FromOf(r, x)} = first..(last + 1)
    <3>1. (first..last) \cup {last + 1} = first..(last + 1)
      BY <1>2
    <3> QED
      BY <1>2, <2>3, <3>1
  <2>5. \A j \in FromOf(q, x) : q[j].no < last + 1
    <3>1. \A j \in FromOf(q, x) : q[j].no \in first..last
      BY <1>2
    <3> QED
      BY <1>2, <3>1
  <2>6. n \in Int
    BY <1>1 DEF n
  <2>7. ASSUME NEW i \in FromOf(r, x), NEW j \in FromOf(r, x), i < j PROVE r[i].no < r[j].no
    <3>1. i \in FromOf(q, x)
      BY <2>1, <2>2, <2>6, <2>7
    <3>2. CASE j \in FromOf(q, x)
      BY <1>2, <2>2, <2>7, <3>1, <3>2
    <3>3. CASE j = n
      BY <1>1, <1>4, <2>2, <2>5, <3>1, <3>3
    <3> QED
      BY <2>1, <3>2, <3>3
  <2>8. last + 1 \in Int /\ first <= last + 1 + 1
    BY <1>2
  <2> QED
    BY <1>2, <1>4, <2>4, <2>7, <2>8 DEF Run, r
<1> QED
  BY <1>3, <1>4 DEF r

(* The head of a queue is the first of its publisher. *)
LEMMA TailRun ==
  ASSUME NEW q \in Seq(Items), q # <<>>, NEW x, NEW first, NEW last, Run(q, x, first, last)
  PROVE  /\ Head(q).src = x => Head(q).no = first /\ Run(Tail(q), x, first + 1, last)
         /\ Head(q).src # x => Run(Tail(q), x, first, last)
<1> DEFINE r == Tail(q)
<1>1. /\ Len(q) \in Nat /\ Len(q) >= 1 /\ DOMAIN q = 1..Len(q) /\ DOMAIN r = 1..(Len(q) - 1) /\ Head(q) = q[1]
      /\ \A j \in 1..(Len(q) - 1) : r[j] = q[j + 1] /\ j + 1 \in 1..Len(q) /\ j \in Int
      /\ \A j \in 1..Len(q) : j \in Int /\ (j = 1 \/ (j - 1 \in 1..(Len(q) - 1) /\ 1 < j /\ (j - 1) + 1 = j))
      /\ 1 \in 1..Len(q)
  OBVIOUS
<1>2. /\ \A i, j \in FromOf(q, x) : i < j => q[i].no < q[j].no
      /\ {q[j].no : j \in FromOf(q, x)} = first..last
      /\ first \in Nat /\ last \in Int /\ 1 <= first /\ first <= last + 1
  BY DEF Run
<1> HIDE DEF r
<1>3. \A j \in FromOf(r, x) : j \in Int /\ j + 1 \in FromOf(q, x) /\ r[j] = q[j + 1] /\ 1 < j + 1
  BY <1>1 DEF FromOf
<1>4. \A j \in FromOf(q, x) : j # 1 => j - 1 \in FromOf(r, x) /\ r[j - 1] = q[j]
  BY <1>1 DEF FromOf
<1>5. \A i, j \in FromOf(r, x) : i < j => r[i].no < r[j].no
  <2>1. \A i, j \in FromOf(r, x) : i < j => i + 1 < j + 1
    BY <1>3
  <2> QED
    BY <1>2, <1>3, <2>1
<1>6. {r[j].no : j \in FromOf(r, x)} = {q[j].no : j \in FromOf(q, x) \ {1}}
  <2>1. ASSUME NEW j \in FromOf(r, x) PROVE j + 1 \in FromOf(q, x) \ {1} /\ r[j].no = q[j + 1].no
    BY <1>3
  <2>2. ASSUME NEW j \in FromOf(q, x) \ {1} PROVE j - 1 \in FromOf(r, x) /\ r[j - 1].no = q[j].no
    BY <1>4
  <2> QED
    BY <2>1, <2>2
<1>7. CASE Head(q).src # x
  <2>1. 1 \notin FromOf(q, x)
    BY <1>1, <1>7 DEF FromOf
  <2>2. {r[j].no : j \in FromOf(r, x)} = first..last
    BY <1>2, <1>6, <2>1
  <2> QED
    BY <1>2, <1>5, <1>7, <2>2 DEF Run, r
<1>8. CASE Head(q).src = x
  <2>1. 1 \in FromOf(q, x)
    BY <1>1, <1>8 DEF FromOf
  <2>2. q[1].no \in first..last
    BY <1>2, <2>1
  <2>3. \A j \in FromOf(q, x) : j # 1 => q[1].no < q[j].no
    BY <1>2, <1>3, <1>4, <2>1
  <2>4. q[1].no = first
    <3>1. first \in first..last
      BY <1>2, <2>2
    <3>2. PICK j \in FromOf(q, x) : q[j].no = first
      BY <1>2, <3>1
    <3> QED
      BY <1>2, <2>2, <2>3, <3>2
  <2>5. {r[j].no : j \in FromOf(r, x)} = (first..last) \ {first}
    <3>1. {q[j].no : j \in FromOf(q, x) \ {1}} = (first..last) \ {first}
      <4>1. ASSUME NEW j \in FromOf(q, x) \ {1} PROVE q[j].no \in (first..last) \ {first}
        <5>1. q[j].no \in first..last /\ first < q[j].no
          BY <1>2, <2>3, <2>4
        <5> QED
          BY <1>2, <5>1
      <4>2. ASSUME NEW m \in (first..last) \ {first} PROVE \E j \in FromOf(q, x) \ {1} : q[j].no = m
        BY <1>2, <2>4
      <4> QED
        BY <4>1, <4>2
    <3> QED
      BY <1>6, <3>1
  <2>6. (first..last) \ {first} = (first + 1)..last /\ first + 1 <= last + 1 /\ first + 1 \in Nat
        /\ 1 <= first + 1
    BY <1>2, <2>2
  <2> QED
    BY <1>1, <1>2, <1>5, <1>8, <2>4, <2>5, <2>6 DEF Run, r
<1> QED
  BY <1>7, <1>8 DEF r

(* A topic lists a subscription once. *)
Once == \A t \in Topics : \A i, j \in Places(t) : subs[t][i] = subs[t][j] => i = j

(* A publisher that waits stands at a place of the list, with its newest   *)
(* event; a handler publishes where it relays to.                          *)
Walks ==
  \A x \in Publishers : pub[x] # NotWaiting =>
    /\ pub[x].next - 1 \in Places(pub[x].topic)
    /\ pub[x].at = subs[pub[x].topic][pub[x].next - 1]
    /\ pub[x].no = sent[pub[x].topic][x] /\ pub[x].no # 0
    /\ x \in Subs => pub[x].topic = Relay[x]

(* Nothing has reached what was not subscribed yet. *)
Unfed ==
  \A s \in Subs : TopicOf[s] \notin Lossy /\ s \notin Subscribed(TopicOf[s]) =>
    queue[s] = <<>> /\ \A x \in Publishers : newest[s][x] = 0

(* The last event of a publisher that has reached a place of the list.     *)
SentTo(x, t, j) ==
  IF pub[x].topic = t /\ j >= pub[x].next - 1 THEN sent[t][x] - 1 ELSE sent[t][x]

FedBy(q, new, old, x, last) ==
  \E first \in IF new # 0 THEN {new + 1} ELSE {old, old + 1} : Run(q, x, first, last)
Holds(s, x, last) == FedBy(queue[s], newest[s][x], since[s][x], x, last)
RunsOn ==
  \A t \in Topics \ Lossy, x \in Publishers : \A j \in Places(t) :
    Holds(subs[t][j], x, SentTo(x, t, j))

OrderInv == Once /\ Walks /\ Unfed /\ RunsOn

(* What is subscribed for good: the lossless, and what publishes for them. *)
LosslessStay == \A s \in Removable : TopicOf[s] \in Lossy /\ Relay[s] \in Lossy \cup {None}

LEMMA PlacesAre ==
  ASSUME TypeInv, NEW t \in Topics
  PROVE  /\ subs[t] \in Seq(Subs) /\ Len(subs[t]) \in Nat /\ Places(t) = 1..Len(subs[t])
         /\ \A j \in Places(t) : /\ subs[t][j] \in Subs /\ TopicOf[subs[t][j]] = t
                                 /\ subs[t][j] \in Subscribed(t)
<1>1. subs[t] \in Seq(Subs) /\ Len(subs[t]) \in Nat /\ Places(t) = 1..Len(subs[t])
  BY DEF TypeInv, TypeOK, Places
<1>2. \A j \in Places(t) : subs[t][j] \in Subs /\ TopicOf[subs[t][j]] = t
  BY <1>1 DEF TypeInv, SubsFit, Places
<1> QED
  BY <1>1, <1>2 DEF Subscribed

LEMMA NumbersAre ==
  ASSUME TypeInv, NEW x \in Publishers
  PROVE  /\ x \in Sources /\ x \notin Keys /\ x # None
         /\ \A t \in Topics : sent[t][x] \in Nat
         /\ \A s \in Subs : newest[s][x] \in Nat /\ since[s][x] \in Nat /\ queue[s] \in Seq(Items)
         /\ pub[x] # NotWaiting => /\ pub[x] \in Waiting /\ pub[x].topic \in Topics \ Lossy
                                   /\ pub[x].no \in Nat /\ pub[x].at \in Subs /\ pub[x].next \in Nat
<1>1. x \in Sources /\ x \notin Keys /\ x # None
  BY Assumed
<1>2. /\ sent \in [Topics -> [Sources -> Nat]] /\ since \in [Subs -> [Sources -> Nat]]
      /\ newest \in [Subs -> [Sources -> Nat]] /\ queue \in [Subs -> Seq(Items)]
      /\ pub \in [Publishers -> Waiting \cup {NotWaiting}]
  BY DEF TypeInv, TypeOK
<1>3. pub[x] # NotWaiting => pub[x] \in Waiting /\ pub[x].topic \notin Lossy
  BY <1>2 DEF TypeInv, PubFit
<1> QED
  BY <1>1, <1>2, <1>3 DEF Waiting

(* What neither publishes nor takes on a lossless topic. *)
LEMMA QuietOrder ==
  ASSUME TypeInv, Walks, Unfed, RunsOn, pub' = pub,
         \A t \in Topics \ Lossy : subs'[t] = subs[t] /\ \A x \in Publishers : sent'[t][x] = sent[t][x],
         \A s \in Subs : TopicOf[s] \notin Lossy =>
           queue'[s] = queue[s] /\ newest'[s] = newest[s] /\ since'[s] = since[s]
  PROVE  Walks' /\ Unfed' /\ RunsOn'
<1>1. \A t \in Topics \ Lossy : Places(t)' = Places(t) /\ Subscribed(t)' = Subscribed(t)
  BY DEF Places, Subscribed
<1>2. Walks'
  <2> SUFFICES ASSUME NEW x \in Publishers, pub'[x] # NotWaiting
               PROVE  /\ pub'[x].next - 1 \in DOMAIN subs'[pub'[x].topic]
                      /\ pub'[x].at = subs'[pub'[x].topic][pub'[x].next - 1]
                      /\ pub'[x].no = sent'[pub'[x].topic][x] /\ pub'[x].no # 0
                      /\ x \in Subs => pub'[x].topic = Relay[x]
    BY DEF Walks, Places
  <2>1. pub[x].topic \in Topics \ Lossy
    BY NumbersAre
  <2>2. /\ subs'[pub[x].topic] = subs[pub[x].topic]
        /\ sent'[pub[x].topic][x] = sent[pub[x].topic][x]
    BY <2>1
  <2> QED
    BY <2>2 DEF Walks, Places
<1>3. Unfed'
  <2> SUFFICES ASSUME NEW s \in Subs, TopicOf[s] \notin Lossy, s \notin Subscribed(TopicOf[s])'
               PROVE  queue'[s] = <<>> /\ \A x \in Publishers : newest'[s][x] = 0
    BY DEF Unfed
  <2>1. s \notin Subscribed(TopicOf[s])
    BY <1>1, Assumed
  <2> QED
    BY <2>1 DEF Unfed
<1>4. RunsOn'
  <2> SUFFICES ASSUME NEW t \in Topics \ Lossy, NEW x \in Publishers, NEW j \in Places(t)'
               PROVE  FedBy(queue'[subs'[t][j]], newest'[subs'[t][j]][x], since'[subs'[t][j]][x], x,
                            IF pub'[x].topic = t /\ j >= pub'[x].next - 1 THEN sent'[t][x] - 1
                            ELSE sent'[t][x])
    BY DEF RunsOn, Holds, SentTo
  <2>1. j \in Places(t) /\ subs[t][j] \in Subs /\ TopicOf[subs[t][j]] = t
    BY <1>1, PlacesAre
  <2> QED
    BY <2>1 DEF RunsOn, Holds, SentTo
<1> QED
  BY <1>2, <1>3, <1>4

(* A publication of x on t, that has been put at the places before b, is   *)
(* put at those from b up to the first full queue.                         *)
LEMMA PutRunsOn ==
  ASSUME TypeInv, Once, Walks, Unfed, RunsOn, NEW x \in Publishers, NEW t \in Topics \ Lossy,
         NEW no \in Nat \ {0}, NEW b \in Nat, NEW from \in Nat,
         b <= from, from <= Len(subs[t]) + 1,
         PutFrom(x, t, no, from, {subs[t][j] : j \in {j \in Places(t) : b <= j /\ j < from}}),
         UNCHANGED <<subs, since, newest>>,
         sent'[t][x] = no,
         \A u \in Topics \ Lossy, y \in Publishers : u # t \/ y # x => sent'[u][y] = sent[u][y],
         pub[x].topic \in {t, None}, x \in Subs => t = Relay[x],
         \A j \in Places(t) : Holds(subs[t][j], x, IF b <= j THEN no - 1 ELSE no)
  PROVE  Walks' /\ Unfed' /\ RunsOn'
<1> DEFINE stop    == FirstFull(t, from)
           resumed == {subs[t][j] : j \in {j \in Places(t) : b <= j /\ j < from}}
           reached == resumed \cup {subs[t][j] : j \in {j \in Places(t) : from <= j /\ j < stop}}
<1>1. /\ queue' = [s \in Subs |-> IF s \in reached THEN Append(queue[s], Payload(x, no)) ELSE queue[s]]
      /\ pub' = [pub EXCEPT ![x] =
           IF stop \in Places(t)
           THEN [topic |-> t, no |-> no, at |-> subs[t][stop], next |-> stop + 1]
           ELSE NotWaiting]
  BY DEF PutFrom
<1>2. stop \in Nat /\ stop >= from /\ (stop \in Places(t) \/ stop = Len(subs[t]) + 1)
  <2> DEFINE F == {j \in Places(t) : j >= from /\ Full(subs[t][j])} \cup {Len(subs[t]) + 1}
  <2>1. Places(t) = 1..Len(subs[t]) /\ Len(subs[t]) \in Nat
    BY PlacesAre
  <2>2. F \in SUBSET Nat /\ F # {}
    BY <2>1
  <2>3. stop = Min(F)
    BY DEF FirstFull
  <2>4. \A j \in F : j >= from /\ (j \in Places(t) \/ j = Len(subs[t]) + 1)
    BY <2>1
  <2> HIDE DEF F, stop
  <2>5. Min(F) \in F
    BY <2>2, Least
  <2> QED
    BY <2>2, <2>3, <2>4, <2>5
<1>3. reached = {subs[t][j] : j \in {j \in Places(t) : b <= j /\ j < stop}}
  <2>1. Places(t) = 1..Len(subs[t]) /\ Len(subs[t]) \in Nat
    BY PlacesAre
  <2> HIDE DEF stop
  <2>2. \A j \in Places(t) : (b <= j /\ j < stop) <=> (b <= j /\ j < from) \/ (from <= j /\ j < stop)
    BY <1>2, <2>1
  <2> QED
    BY <2>2
<1>4. ASSUME NEW j \in Places(t)
      PROVE  queue'[subs[t][j]] = IF b <= j /\ j < stop THEN Append(queue[subs[t][j]], Payload(x, no))
                                  ELSE queue[subs[t][j]]
  <2>1. subs[t][j] \in Subs
    BY PlacesAre
  <2>2. subs[t][j] \in reached <=> b <= j /\ j < stop
    <3> HIDE DEF reached, stop
    <3> QED
      BY <1>3 DEF Once
  <2> HIDE DEF reached, stop
  <2> QED
    BY <1>1, <2>1, <2>2
<1>5. \A s \in Subs : s \notin Subscribed(t) => queue'[s] = queue[s]
  <2>1. reached \subseteq Subscribed(t)
    <3> HIDE DEF reached, stop
    <3> QED
      BY <1>3 DEF Subscribed
  <2> HIDE DEF reached
  <2> QED
    BY <1>1, <2>1
<1>6. /\ \A u \in Topics : Places(u)' = Places(u) /\ Subscribed(u)' = Subscribed(u) /\ subs'[u] = subs[u]
      /\ None \notin Topics /\ NotWaiting.topic = None
  BY Assumed DEF Places, Subscribed, NotWaiting
<1>7. /\ \A y \in Publishers \ {x} : pub'[y] = pub[y]
      /\ pub'[x].topic \in {t, None}
      /\ stop \in Places(t) => pub'[x].topic = t /\ pub'[x].no = no /\ pub'[x].at = subs[t][stop]
                               /\ pub'[x].next = stop + 1
      /\ stop \notin Places(t) => pub'[x] = NotWaiting /\ pub'[x].topic = None
  <2>1. pub \in [Publishers -> Waiting \cup {NotWaiting}]
    BY DEF TypeInv, TypeOK
  <2> HIDE DEF stop
  <2> QED
    BY <1>1, <1>6, <2>1
<1> HIDE DEF stop, resumed, reached
<1>8. Walks'
  <2> SUFFICES ASSUME NEW y \in Publishers, pub'[y] # NotWaiting
               PROVE  /\ pub'[y].next - 1 \in DOMAIN subs'[pub'[y].topic]
                      /\ pub'[y].at = subs'[pub'[y].topic][pub'[y].next - 1]
                      /\ pub'[y].no = sent'[pub'[y].topic][y] /\ pub'[y].no # 0
                      /\ y \in Subs => pub'[y].topic = Relay[y]
    BY DEF Walks, Places
  <2>1. CASE y = x
    <3>1. stop \in Places(t) /\ (stop + 1) - 1 = stop
      BY <1>2, <1>7, <2>1
    <3>2. pub'[x].topic = t /\ pub'[x].no = no /\ pub'[x].at = subs[t][stop] /\ pub'[x].next - 1 = stop
      BY <1>7, <3>1
    <3> QED
      BY <1>6, <2>1, <3>1, <3>2 DEF Places
  <2>2. CASE y # x
    <3>1. pub[y] # NotWaiting /\ pub'[y] = pub[y]
      BY <1>7, <2>2
    <3>2. pub[y].topic \in Topics \ Lossy
      BY <3>1, NumbersAre
    <3>3. sent'[pub[y].topic][y] = sent[pub[y].topic][y]
      BY <2>2, <3>2
    <3> QED
      BY <1>6, <3>1, <3>2, <3>3 DEF Walks, Places
  <2> QED
    BY <2>1, <2>2
<1>9. Unfed'
  <2> SUFFICES ASSUME NEW s \in Subs, TopicOf[s] \notin Lossy, s \notin Subscribed(TopicOf[s])'
               PROVE  queue'[s] = <<>> /\ \A y \in Publishers : newest'[s][y] = 0
    BY DEF Unfed
  <2>1. s \notin Subscribed(TopicOf[s])
    BY <1>6, Assumed
  <2>2. s \notin Subscribed(t)
    BY <2>1, ListedAre
  <2> QED
    BY <1>5, <2>1, <2>2 DEF Unfed
<1>10. ASSUME NEW u \in Topics \ Lossy, NEW y \in Publishers, NEW j \in Places(u)
       PROVE  FedBy(queue'[subs[u][j]], newest[subs[u][j]][y], since[subs[u][j]][y], y,
                    IF pub'[y].topic = u /\ j >= pub'[y].next - 1 THEN sent'[u][y] - 1
                    ELSE sent'[u][y])
  <2>0. /\ j \in Nat /\ subs[u][j] \in Subs /\ TopicOf[subs[u][j]] = u
        /\ queue[subs[u][j]] \in Seq(Items)
        /\ Payload(x, no) \in Items /\ Payload(x, no).src = x /\ Payload(x, no).no = no
    <3>1. Payload(x, no).no = no
      BY DEF Payload
    <3> QED
      BY <3>1, PlacesAre, NumbersAre, ItemsTyped
  <2>1. Holds(subs[u][j], y, SentTo(y, u, j))
    BY DEF RunsOn
  <2>2. CASE u # t
    <3>1. subs[u][j] \notin Subscribed(t)
      BY <2>0, <2>2, ListedAre
    <3>2. queue'[subs[u][j]] = queue[subs[u][j]]
      BY <1>5, <2>0, <3>1
    <3>3. (pub'[y].topic = u /\ j >= pub'[y].next - 1) <=> (pub[y].topic = u /\ j >= pub[y].next - 1)
      BY <1>6, <1>7, <2>2
    <3>4. sent'[u][y] = sent[u][y]
      BY <2>2
    <3> QED
      BY <2>1, <3>2, <3>3, <3>4 DEF Holds, SentTo
  <2>3. CASE u = t /\ y # x
    <3>1. pub'[y] = pub[y] /\ sent'[u][y] = sent[u][y]
      BY <1>7, <2>3
    <3>2. PICK first \in IF newest[subs[u][j]][y] # 0 THEN {newest[subs[u][j]][y] + 1}
                         ELSE {since[subs[u][j]][y], since[subs[u][j]][y] + 1} :
            Run(queue[subs[u][j]], y, first, SentTo(y, u, j))
      BY <2>1 DEF Holds, FedBy
    <3>3. Run(Append(queue[subs[u][j]], Payload(x, no)), y, first, SentTo(y, u, j))
      BY <2>0, <2>3, <3>2, AppendRun
    <3>4. Run(queue'[subs[u][j]], y, first, SentTo(y, u, j))
      BY <1>4, <2>3, <3>2, <3>3
    <3> QED
      BY <3>1, <3>2, <3>4 DEF FedBy, SentTo
  <2>4. CASE u = t /\ y = x
    <3>1. j >= pub'[x].next - 1 /\ pub'[x].topic = t <=> stop <= j
      <4>1. CASE stop \in Places(t)
        BY <1>2, <1>7, <2>0, <4>1
      <4>2. CASE stop \notin Places(t)
        <5>1. ~(stop <= j)
          BY <1>2, <2>4, <4>2, PlacesAre
        <5> QED
          BY <1>6, <1>7, <4>2, <5>1
      <4> QED
        BY <4>1, <4>2
    <3>2. PICK first \in IF newest[subs[u][j]][x] # 0 THEN {newest[subs[u][j]][x] + 1}
                         ELSE {since[subs[u][j]][x], since[subs[u][j]][x] + 1} :
            Run(queue[subs[u][j]], x, first, IF b <= j THEN no - 1 ELSE no)
      BY <2>4 DEF Holds, FedBy
    <3>3. CASE b <= j /\ j < stop
      <4>1. no = (no - 1) + 1
        OBVIOUS
      <4>2. Run(queue[subs[u][j]], x, first, no - 1)
        BY <3>2, <3>3
      <4>3. Run(Append(queue[subs[u][j]], Payload(x, no)), x, first, (no - 1) + 1)
        BY <2>0, <4>1, <4>2, AppendRun
      <4>4. Run(queue'[subs[u][j]], x, first, no)
        BY <1>4, <2>4, <3>3, <4>1, <4>3
      <4>5. ~(stop <= j)
        BY <1>2, <2>0, <3>3
      <4> QED
        BY <2>4, <3>1, <3>2, <4>4, <4>5 DEF FedBy
    <3>4. CASE ~(b <= j)
      <4>1. ~(stop <= j) /\ queue'[subs[u][j]] = queue[subs[u][j]]
        BY <1>2, <1>4, <2>0, <2>4, <3>4
      <4> QED
        BY <2>4, <3>1, <3>2, <3>4, <4>1 DEF FedBy
    <3>5. CASE b <= j /\ ~(j < stop)
      <4>1. stop <= j /\ queue'[subs[u][j]] = queue[subs[u][j]]
        BY <1>2, <1>4, <2>0, <2>4, <3>5
      <4> QED
        BY <2>4, <3>1, <3>2, <3>5, <4>1 DEF FedBy
    <3> QED
      BY <3>3, <3>4, <3>5
  <2> QED
    BY <2>2, <2>3, <2>4
<1>11. RunsOn'
  BY <1>6, <1>10 DEF RunsOn, Holds, SentTo
<1> QED
  BY <1>8, <1>9, <1>11

LEMMA LosslessOrder ==
  ASSUME TypeInv, OrderInv, NEW x \in Publishers, NEW t \in Topics, PublishLossless(x, t),
         x \in Subs => t = Relay[x]
  PROVE  Walks' /\ Unfed' /\ RunsOn'
<1> DEFINE no == sent[t][x] + 1
<1>1. /\ t \in Topics \ Lossy /\ pub[x] = NotWaiting
      /\ sent' = [sent EXCEPT ![t][x] = @ + 1]
      /\ PutFrom(x, t, no, 1, {})
      /\ UNCHANGED <<subs, since, newest>>
  BY DEF PublishLossless
<1>2. no \in Nat \ {0} /\ no - 1 = sent[t][x]
  <2>1. sent[t][x] \in Nat
    BY NumbersAre
  <2> QED
    BY <2>1
<1>3. /\ sent'[t][x] = no
      /\ \A u \in Topics, y \in Publishers : u # t \/ y # x => sent'[u][y] = sent[u][y]
  <2>1. sent \in [Topics -> [Sources -> Nat]] /\ x \in Sources /\ \A y \in Publishers : y \in Sources
    BY Assumed DEF TypeInv, TypeOK
  <2> QED
    BY <1>1, <2>1
<1>4. pub[x].topic = None /\ None \notin Topics
  BY <1>1, Assumed DEF NotWaiting
<1>5. /\ Len(subs[t]) \in Nat /\ Places(t) \subseteq Nat /\ \A j \in Places(t) : 1 <= j
      /\ {j \in Places(t) : 1 <= j /\ j < 1} = {}
  BY PlacesAre
<1>6. {subs[t][j] : j \in {j \in Places(t) : 1 <= j /\ j < 1}} = {}
  BY <1>5
<1>7. \A j \in Places(t) : Holds(subs[t][j], x, IF 1 <= j THEN no - 1 ELSE no)
  <2> SUFFICES ASSUME NEW j \in Places(t) PROVE Holds(subs[t][j], x, IF 1 <= j THEN no - 1 ELSE no)
    OBVIOUS
  <2>1. SentTo(x, t, j) = sent[t][x]
    BY <1>4 DEF SentTo
  <2>2. Holds(subs[t][j], x, sent[t][x])
    BY <1>1, <2>1 DEF OrderInv, RunsOn
  <2> QED
    BY <1>2, <1>5, <2>2
<1> HIDE DEF no
<1>8. PutFrom(x, t, no, 1, {subs[t][j] : j \in {j \in Places(t) : 1 <= j /\ j < 1}})
  BY <1>1, <1>6
<1> QED
  BY <1>1, <1>2, <1>3, <1>4, <1>5, <1>7, <1>8, PutRunsOn DEF OrderInv

LEMMA ResumeOrder ==
  ASSUME TypeInv, OrderInv, NEW x \in Publishers, PublisherResumes(x)
  PROVE  Walks' /\ Unfed' /\ RunsOn'
<1> DEFINE t  == pub[x].topic
           b  == pub[x].next - 1
<1>1. /\ pub[x] # NotWaiting
      /\ PutFrom(x, t, pub[x].no, pub[x].next, {pub[x].at})
      /\ UNCHANGED <<subs, since, newest, sent>>
  BY DEF PublisherResumes
<1>2. /\ t \in Topics \ Lossy /\ pub[x].no \in Nat \ {0} /\ pub[x].next \in Nat
      /\ b \in Places(t) /\ pub[x].at = subs[t][b] /\ pub[x].no = sent[t][x]
      /\ x \in Subs => t = Relay[x]
  BY <1>1, NumbersAre DEF OrderInv, Walks
<1>3. /\ Len(subs[t]) \in Nat /\ Places(t) = 1..Len(subs[t]) /\ b \in Nat /\ b <= pub[x].next
      /\ pub[x].next <= Len(subs[t]) + 1
  BY <1>2, PlacesAre
<1>4. {pub[x].at} = {subs[t][j] : j \in {j \in Places(t) : b <= j /\ j < pub[x].next}}
  <2>1. {j \in Places(t) : b <= j /\ j < pub[x].next} = {b}
    BY <1>2, <1>3
  <2> HIDE DEF b, t
  <2> QED
    BY <1>2, <2>1
<1>5. \A j \in Places(t) : Holds(subs[t][j], x, IF b <= j THEN pub[x].no - 1 ELSE pub[x].no)
  <2> SUFFICES ASSUME NEW j \in Places(t)
               PROVE  Holds(subs[t][j], x, IF b <= j THEN pub[x].no - 1 ELSE pub[x].no)
    OBVIOUS
  <2>1. SentTo(x, t, j) = IF b <= j THEN pub[x].no - 1 ELSE pub[x].no
    BY <1>2, <1>3 DEF SentTo
  <2> QED
    BY <1>2, <2>1 DEF OrderInv, RunsOn
<1>6. /\ sent'[t][x] = pub[x].no
      /\ \A u \in Topics \ Lossy, y \in Publishers : u # t \/ y # x => sent'[u][y] = sent[u][y]
  BY <1>1, <1>2
<1>7. pub[x].topic \in {t, None}
  OBVIOUS
<1> HIDE DEF b, t
<1>8. PutFrom(x, t, pub[x].no, pub[x].next, {subs[t][j] : j \in {j \in Places(t) : b <= j /\ j < pub[x].next}})
  BY <1>1, <1>4
<1> QED
  BY <1>1, <1>2, <1>3, <1>5, <1>6, <1>7, <1>8, PutRunsOn DEF OrderInv

LEMMA LossyOrder ==
  ASSUME TypeInv, OrderInv, NEW t \in Topics, NEW k \in Keys \cup {None}, PublishLossy(t, k)
  PROVE  Walks' /\ Unfed' /\ RunsOn'
<1>1. /\ t \in Lossy /\ sent' = [sent EXCEPT ![t][k] = sent[t][k] + 1]
      /\ queue' = [s \in Subs |-> IF s \in Subscribed(t) THEN QueueAfter(s, k, sent[t][k] + 1) ELSE queue[s]]
      /\ UNCHANGED <<subs, pub, since, newest>>
  BY DEF PublishLossy
<1>2. \A u \in Topics \ Lossy : sent'[u] = sent[u]
  BY <1>1 DEF TypeInv, TypeOK
<1>3. \A s \in Subs : TopicOf[s] \notin Lossy => queue'[s] = queue[s]
  BY <1>1, ListedAre
<1> QED
  BY <1>1, <1>2, <1>3, QuietOrder DEF OrderInv

LEMMA SubscribeOrder ==
  ASSUME TypeInv, OrderInv, NEW s \in Subs, Subscribe(s)
  PROVE  Walks' /\ Unfed' /\ RunsOn'
<1> DEFINE t == TopicOf[s]
<1>1. /\ s \notin Listed
      /\ subs' = [subs EXCEPT ![t] = Append(@, s)]
      /\ since' = [since EXCEPT ![s] = sent[t]]
      /\ UNCHANGED <<queue, pub, sent, newest>>
  BY DEF Subscribe
<1>2. t \in Topics /\ s \notin Subscribed(t)
  BY <1>1, Assumed DEF Listed
<1>3. /\ subs \in [Topics -> Seq(Subs)] /\ subs[t] \in Seq(Subs) /\ Len(subs[t]) \in Nat
      /\ Places(t) = 1..Len(subs[t])
  BY <1>2, PlacesAre DEF TypeInv, TypeOK
<1>4. /\ subs'[t] = Append(subs[t], s) /\ \A u \in Topics \ {t} : subs'[u] = subs[u]
      /\ DOMAIN subs'[t] = 1..(Len(subs[t]) + 1)
      /\ \A j \in 1..Len(subs[t]) : subs'[t][j] = subs[t][j]
      /\ subs'[t][Len(subs[t]) + 1] = s
  <2>1. subs'[t] = Append(subs[t], s) /\ \A u \in Topics \ {t} : subs'[u] = subs[u]
    BY <1>1, <1>2, <1>3
  <2> HIDE DEF t
  <2> QED
    BY <1>3, <2>1
<1>5. \A u \in Topics : \A j \in Places(u) : j \in DOMAIN subs'[u] /\ subs'[u][j] = subs[u][j]
  <2> HIDE DEF t
  <2>1. 1..Len(subs[t]) \subseteq 1..(Len(subs[t]) + 1)
    BY <1>3
  <2>2. \A j \in Places(t) : j \in DOMAIN subs'[t] /\ subs'[t][j] = subs[t][j]
    BY <1>3, <1>4, <2>1
  <2>3. \A u \in Topics \ {t} : \A j \in Places(u) : j \in DOMAIN subs'[u] /\ subs'[u][j] = subs[u][j]
    BY <1>4 DEF Places
  <2> QED
    BY <2>2, <2>3
<1>6. \A u \in Topics : \A j \in DOMAIN subs'[u] :
        j \in Places(u) \/ (u = t /\ j = Len(subs[t]) + 1 /\ subs'[u][j] = s)
  BY <1>3, <1>4 DEF Places
<1> HIDE DEF t
<1>7. Walks'
  <2> SUFFICES ASSUME NEW x \in Publishers, pub[x] # NotWaiting
               PROVE  /\ pub[x].next - 1 \in DOMAIN subs'[pub[x].topic]
                      /\ pub[x].at = subs'[pub[x].topic][pub[x].next - 1]
                      /\ pub[x].no = sent[pub[x].topic][x] /\ pub[x].no # 0
                      /\ x \in Subs => pub[x].topic = Relay[x]
    BY <1>1 DEF Walks, Places
  <2> QED
    BY <1>5, NumbersAre DEF OrderInv, Walks
<1>8. Unfed'
  <2> SUFFICES ASSUME NEW v \in Subs, TopicOf[v] \notin Lossy, v \notin Subscribed(TopicOf[v])'
               PROVE  queue[v] = <<>> /\ \A x \in Publishers : newest[v][x] = 0
    BY <1>1 DEF Unfed
  <2>1. v \notin Subscribed(TopicOf[v])
    BY <1>5, Assumed DEF Subscribed, Places
  <2> QED
    BY <2>1 DEF OrderInv, Unfed
<1>9. ASSUME NEW u \in Topics \ Lossy, NEW x \in Publishers, NEW j \in DOMAIN subs'[u]
      PROVE  FedBy(queue[subs'[u][j]], newest[subs'[u][j]][x], since'[subs'[u][j]][x], x, SentTo(x, u, j))
  <2>1. CASE j \in Places(u)
    <3>1. subs'[u][j] = subs[u][j] /\ subs[u][j] \in Subs /\ subs[u][j] \in Subscribed(u)
      BY <1>5, <2>1, PlacesAre
    <3>2. subs[u][j] # s
      BY <1>1, <3>1 DEF Listed
    <3>3. since'[subs[u][j]] = since[subs[u][j]]
      BY <1>1, <3>1, <3>2 DEF TypeInv, TypeOK
    <3> QED
      BY <2>1, <3>1, <3>3 DEF OrderInv, RunsOn, Holds
  <2>2. CASE u = t /\ j = Len(subs[t]) + 1 /\ subs'[u][j] = s
    <3>1. queue[s] = <<>> /\ newest[s][x] = 0
      BY <1>2, <2>2 DEF OrderInv, Unfed, t
    <3>2. since'[s] = sent[t] /\ sent[t][x] \in Nat
      BY <1>1, <1>2, NumbersAre DEF TypeInv, TypeOK
    <3>3. CASE pub[x].topic = t
      <4>1. pub[x] # NotWaiting
        BY <1>2, <3>3, Assumed DEF NotWaiting
      <4>2. pub[x].next - 1 \in 1..Len(subs[t]) /\ sent[t][x] # 0
        BY <1>3, <3>3, <4>1 DEF OrderInv, Walks
      <4>3. pub[x].next \in Nat
        BY <4>1, NumbersAre
      <4>4. SentTo(x, u, j) = sent[t][x] - 1
        BY <1>3, <2>2, <3>3, <4>2, <4>3 DEF SentTo
      <4>5. sent[t][x] \in Nat /\ 1 <= sent[t][x]
        BY <3>2, <4>2
      <4>6. Run(<<>>, x, sent[t][x], sent[t][x] - 1)
        BY <4>5, EmptyRun
      <4> QED
        BY <2>2, <3>1, <3>2, <4>4, <4>6 DEF FedBy
    <3>4. CASE pub[x].topic # t
      <4>1. SentTo(x, u, j) = sent[t][x]
        BY <2>2, <3>4 DEF SentTo
      <4>2. sent[t][x] + 1 \in Nat /\ 1 <= sent[t][x] + 1 /\ (sent[t][x] + 1) - 1 = sent[t][x]
        BY <3>2
      <4>3. Run(<<>>, x, sent[t][x] + 1, sent[t][x])
        BY <4>2, EmptyRun
      <4> QED
        BY <2>2, <3>1, <3>2, <4>1, <4>3 DEF FedBy
    <3> QED
      BY <3>3, <3>4
  <2> QED
    BY <1>6, <2>1, <2>2
<1>10. RunsOn'
  BY <1>1, <1>9 DEF RunsOn, Holds, SentTo, Places
<1> QED
  BY <1>7, <1>8, <1>10

LEMMA UnsubscribeOrder ==
  ASSUME TypeInv, OrderInv, LosslessStay, NEW s \in Subs, Unsubscribe(s)
  PROVE  Walks' /\ Unfed' /\ RunsOn'
<1>1. /\ s \in Removable
      /\ pub' = [pub EXCEPT ![s] = NotWaiting] \/ pub' = pub
      /\ UNCHANGED <<queue, history>>
  BY DEF Unsubscribe
<1>2. PICK n \in Places(TopicOf[s]) : subs' = [subs EXCEPT ![TopicOf[s]] = RemoveAt(@, n)]
  BY DEF Unsubscribe
<1>3. TopicOf[s] \in Lossy /\ Relay[s] \in Lossy \cup {None}
  BY <1>1 DEF LosslessStay
<1>4. pub[s] = NotWaiting
  BY <1>3, NumbersAre, Assumed DEF OrderInv, Walks
<1>5. pub' = pub
  <2>1. pub \in [Publishers -> Waiting \cup {NotWaiting}]
    BY DEF TypeInv, TypeOK
  <2> QED
    BY <1>1, <1>4, <2>1
<1>6. \A t \in Topics \ Lossy : subs'[t] = subs[t]
  BY <1>2, <1>3 DEF TypeInv, TypeOK
<1> QED
  BY <1>1, <1>5, <1>6, QuietOrder DEF OrderInv, history

LEMMA TakeOrder ==
  ASSUME TypeInv, QueuesFit, OrderInv, NEW s \in Subs, Take(s)
  PROVE  Walks' /\ Unfed' /\ RunsOn'
<1>1. /\ queue[s] # <<>> /\ queue' = [queue EXCEPT ![s] = Tail(@)]
      /\ UNCHANGED <<subs, pub, sent, since>>
  BY DEF Take
<1>2. /\ newest'[s] = [newest[s] EXCEPT ![Head(queue[s]).src] = Handed(s)]
      /\ \A v \in Subs \ {s} : newest'[v] = newest[v] /\ queue'[v] = queue[v]
      /\ queue'[s] = Tail(queue[s])
  <2>1. newest \in [Subs -> [Sources -> Nat]] /\ queue \in [Subs -> Seq(Items)]
    BY DEF TypeInv, TypeOK
  <2> DEFINE item == Head(queue[s])
             ev   == IF item.kind = "key" THEN Event(item.src, latest[s][item.src])
                     ELSE Event(item.src, item.no)
  <2>2. newest' = [newest EXCEPT ![s][ev.src] = ev.no]
    BY DEF Take
  <2>3. ev.src = item.src /\ ev.no = Handed(s)
    BY DEF Event, Handed
  <2> HIDE DEF ev, item
  <2>4. newest'[s] = [newest[s] EXCEPT ![item.src] = Handed(s)] /\ \A v \in Subs \ {s} : newest'[v] = newest[v]
    BY <2>1, <2>2, <2>3
  <2> QED
    BY <1>1, <2>1, <2>4 DEF item
<1>3. CASE TopicOf[s] \in Lossy
  BY <1>1, <1>2, <1>3, QuietOrder DEF OrderInv
<1>4. CASE TopicOf[s] \notin Lossy
  <2>0. queue[s] \in Seq(Items) /\ Tidy(queue[s]) /\ newest[s] \in [Sources -> Nat]
    BY DEF QueuesFit, Fit, Tidy, TypeInv, TypeOK
  <2>1. Head(queue[s]).kind = "key" => Head(queue[s]).src \in Keys
    BY <1>1, <2>0, TailTidy
  <2>2. \A t \in Topics : Places(t)' = Places(t) /\ Subscribed(t)' = Subscribed(t)
    BY <1>1 DEF Places, Subscribed
  <2>3. ASSUME NEW x \in Publishers, NEW last, Holds(s, x, last)
        PROVE  FedBy(Tail(queue[s]), newest'[s][x], since[s][x], x, last)
    <3>1. PICK first \in IF newest[s][x] # 0 THEN {newest[s][x] + 1} ELSE {since[s][x], since[s][x] + 1} :
            Run(queue[s], x, first, last)
      BY <2>3 DEF Holds, FedBy
    <3>2. x \in Sources /\ x \notin Keys
      BY NumbersAre
    <3>3. CASE Head(queue[s]).src = x
      <4>1. Head(queue[s]).no = first /\ Run(Tail(queue[s]), x, first + 1, last)
        BY <1>1, <2>0, <3>1, <3>3, TailRun
      <4>2. newest'[s][x] = first
        BY <1>2, <2>0, <2>1, <3>2, <3>3, <4>1 DEF Handed
      <4>3. first # 0
        BY <3>1 DEF Run
      <4> QED
        BY <4>1, <4>2, <4>3 DEF FedBy
    <3>4. CASE Head(queue[s]).src # x
      <4>1. Run(Tail(queue[s]), x, first, last)
        BY <1>1, <2>0, <3>1, <3>4, TailRun
      <4>2. newest'[s][x] = newest[s][x]
        BY <1>2, <2>0, <3>2, <3>4
      <4> QED
        BY <3>1, <4>1, <4>2 DEF FedBy
    <3> QED
      BY <3>3, <3>4
  <2>4. RunsOn'
    <3> SUFFICES ASSUME NEW t \in Topics \ Lossy, NEW x \in Publishers, NEW j \in Places(t)
                 PROVE  FedBy(queue'[subs[t][j]], newest'[subs[t][j]][x], since[subs[t][j]][x], x,
                              SentTo(x, t, j))
      BY <1>1, <2>2 DEF RunsOn, Holds, SentTo
    <3>1. Holds(subs[t][j], x, SentTo(x, t, j)) /\ subs[t][j] \in Subs
      BY PlacesAre DEF OrderInv, RunsOn
    <3>2. CASE subs[t][j] = s
      <4>1. Holds(s, x, SentTo(x, t, j))
        BY <3>1, <3>2
      <4>2. FedBy(Tail(queue[s]), newest'[s][x], since[s][x], x, SentTo(x, t, j))
        BY <2>3, <4>1
      <4> QED
        BY <1>2, <3>2, <4>2
    <3>3. CASE subs[t][j] # s
      BY <1>2, <3>1, <3>3 DEF Holds
    <3> QED
      BY <3>2, <3>3
  <2>5. Unfed'
    <3>0. \A v \in Subs : Subscribed(TopicOf[v])' = Subscribed(TopicOf[v])
      BY <2>2, Assumed
    <3> SUFFICES ASSUME NEW v \in Subs, TopicOf[v] \notin Lossy, v \notin Subscribed(TopicOf[v])
                 PROVE  queue'[v] = <<>> /\ \A x \in Publishers : newest'[v][x] = 0
      BY <3>0 DEF Unfed
    <3>1. queue[v] = <<>> /\ \A x \in Publishers : newest[v][x] = 0
      BY DEF OrderInv, Unfed
    <3> QED
      BY <1>1, <1>2, <3>1
  <2>6. Walks'
    BY <1>1, <2>2 DEF OrderInv, Walks, Places
  <2> QED
    BY <2>4, <2>5, <2>6
<1> QED
  BY <1>3, <1>4

(* Where the items of a list are once one of them is removed. *)
LEMMA RemovedAt ==
  ASSUME NEW S, NEW q \in Seq(S), NEW n \in DOMAIN q
  PROVE  /\ DOMAIN RemoveAt(q, n) = 1..(Len(q) - 1)
         /\ \A j \in 1..(Len(q) - 1) : RemoveAt(q, n)[j] = q[IF j < n THEN j ELSE j + 1]
<1> DEFINE a == SubSeq(q, 1, n - 1)
           b == SubSeq(q, n + 1, Len(q))
<1>1. n \in 1..Len(q) /\ Len(q) \in Nat
  OBVIOUS
<1>2. a \in Seq(S) /\ Len(a) = n - 1 /\ \A j \in 1..(n - 1) : a[j] = q[j]
  BY <1>1
<1>3. b \in Seq(S) /\ Len(b) = Len(q) - n /\ \A j \in 1..(Len(q) - n) : b[j] = q[n + j]
  BY <1>1
<1> HIDE DEF a, b
<1>4. RemoveAt(q, n) = a \o b
  BY DEF RemoveAt, a, b
<1>5. /\ a \o b \in Seq(S) /\ Len(a \o b) = Len(q) - 1 /\ DOMAIN (a \o b) = 1..(Len(q) - 1)
      /\ Len(a) \in Nat /\ Len(b) \in Nat
  <2>1. a \in Seq(S) /\ b \in Seq(S)
    BY <1>2, <1>3
  <2>2. a \o b \in Seq(S) /\ Len(a \o b) = Len(a) + Len(b)
    BY <2>1
  <2>3. Len(a) + Len(b) = Len(q) - 1 /\ Len(a) \in Nat /\ Len(b) \in Nat
    BY <1>1, <1>2, <1>3
  <2> QED
    BY <2>2, <2>3
<1>6. ASSUME NEW j \in 1..(Len(q) - 1) PROVE (a \o b)[j] = q[IF j < n THEN j ELSE j + 1]
  <2>1. CASE j < n
    <3>1. j \in 1..(n - 1) /\ j <= Len(a)
      BY <1>1, <1>2, <2>1
    <3>2. (a \o b)[j] = a[j]
      BY <1>2, <1>3, <1>5, <3>1
    <3> QED
      BY <1>2, <2>1, <3>1, <3>2
  <2>2. CASE ~(j < n)
    <3>1. ~(j <= Len(a)) /\ j - Len(a) = j - n + 1 /\ j - n + 1 \in 1..(Len(q) - n)
      BY <1>1, <1>2, <2>2
    <3>2. (a \o b)[j] = b[j - Len(a)]
      BY <1>2, <1>3, <1>5, <3>1
    <3>3. b[j - n + 1] = q[n + (j - n + 1)] /\ n + (j - n + 1) = j + 1
      BY <1>1, <1>3, <3>1
    <3> QED
      BY <2>2, <3>1, <3>2, <3>3
  <2> QED
    BY <2>1, <2>2
<1> QED
  BY <1>4, <1>5, <1>6

(* Who is subscribed changes with Subscribe and Unsubscribe only. *)
LEMMA OnceSubscribes ==
  ASSUME TypeInv, Once, NEW s \in Subs, Subscribe(s)
  PROVE  /\ Once'
         /\ \A u \in Topics : Subscribed(u)' = Subscribed(u) \cup (IF u = TopicOf[s] THEN {s} ELSE {})
<1> DEFINE t == TopicOf[s]
<1>1. s \notin Listed /\ subs' = [subs EXCEPT ![t] = Append(@, s)]
  BY DEF Subscribe
<1>2. /\ t \in Topics /\ s \notin Subscribed(t) /\ subs \in [Topics -> Seq(Subs)]
      /\ subs[t] \in Seq(Subs) /\ Len(subs[t]) \in Nat /\ Places(t) = 1..Len(subs[t])
  <2>1. t \in Topics
    BY Assumed
  <2>2. s \notin Subscribed(t)
    BY <1>1, <2>1 DEF Listed
  <2>3. subs \in [Topics -> Seq(Subs)]
    BY DEF TypeInv, TypeOK
  <2> QED
    BY <2>1, <2>2, <2>3, PlacesAre
<1> HIDE DEF t
<1>3. subs'[t] = Append(subs[t], s) /\ \A u \in Topics \ {t} : subs'[u] = subs[u]
  BY <1>1, <1>2
<1>4. /\ DOMAIN subs'[t] = 1..(Len(subs[t]) + 1)
      /\ \A j \in 1..(Len(subs[t]) + 1) : \/ j \in 1..Len(subs[t]) /\ subs'[t][j] = subs[t][j]
                                          \/ j = Len(subs[t]) + 1 /\ subs'[t][j] = s
      /\ Len(subs[t]) + 1 \in 1..(Len(subs[t]) + 1)
      /\ \A j \in 1..Len(subs[t]) : j \in 1..(Len(subs[t]) + 1) /\ subs'[t][j] = subs[t][j]
  BY <1>2, <1>3
<1>5. \A j \in 1..Len(subs[t]) : subs[t][j] # s
  BY <1>2 DEF Subscribed
<1>6. \A i, j \in DOMAIN subs'[t] : subs'[t][i] = subs'[t][j] => i = j
  BY <1>2, <1>4, <1>5 DEF Once
<1>7. Once'
  BY <1>3, <1>6 DEF Once, Places
<1>8. Subscribed(t)' = Subscribed(t) \cup {s}
  <2>1. Subscribed(t)' = {subs'[t][j] : j \in 1..(Len(subs[t]) + 1)}
    BY <1>4 DEF Subscribed, Places
  <2>2. Subscribed(t) = {subs[t][j] : j \in 1..Len(subs[t])}
    BY <1>2 DEF Subscribed
  <2> QED
    BY <1>4, <2>1, <2>2
<1>9. \A u \in Topics \ {t} : Subscribed(u)' = Subscribed(u)
  BY <1>3 DEF Subscribed, Places
<1> QED
  BY <1>7, <1>8, <1>9 DEF t

LEMMA OnceUnsubscribes ==
  ASSUME TypeInv, Once, NEW s \in Subs, Unsubscribe(s)
  PROVE  /\ Once' /\ s \in Listed /\ s \notin Listed'
         /\ \A u \in Topics : Subscribed(u)' \subseteq Subscribed(u)
<1> DEFINE t == TopicOf[s]
<1>0. s \in Listed
  BY DEF Unsubscribe
<1>1. PICK n \in Places(t) : subs[t][n] = s /\ subs' = [subs EXCEPT ![t] = RemoveAt(@, n)]
  BY DEF Unsubscribe
<1>2. /\ t \in Topics /\ subs \in [Topics -> Seq(Subs)]
      /\ subs[t] \in Seq(Subs) /\ Len(subs[t]) \in Nat /\ Places(t) = 1..Len(subs[t])
  BY Assumed, PlacesAre DEF TypeInv, TypeOK
<1>3. /\ DOMAIN RemoveAt(subs[t], n) = 1..(Len(subs[t]) - 1)
      /\ \A j \in 1..(Len(subs[t]) - 1) : RemoveAt(subs[t], n)[j] = subs[t][IF j < n THEN j ELSE j + 1]
  BY <1>1, <1>2, RemovedAt DEF Places
<1> HIDE DEF t
<1>4. subs'[t] = RemoveAt(subs[t], n) /\ \A u \in Topics \ {t} : subs'[u] = subs[u]
  BY <1>1, <1>2
<1>5. /\ DOMAIN subs'[t] = 1..(Len(subs[t]) - 1)
      /\ \A j \in 1..(Len(subs[t]) - 1) : subs'[t][j] = subs[t][IF j < n THEN j ELSE j + 1]
  BY <1>3, <1>4
<1>6. \A j \in 1..(Len(subs[t]) - 1) :
        (IF j < n THEN j ELSE j + 1) \in Places(t) /\ (IF j < n THEN j ELSE j + 1) # n
  BY <1>1, <1>2
<1>7. \A i, j \in DOMAIN subs'[t] : subs'[t][i] = subs'[t][j] => i = j
  <2> SUFFICES ASSUME NEW i \in 1..(Len(subs[t]) - 1), NEW j \in 1..(Len(subs[t]) - 1),
                      subs'[t][i] = subs'[t][j]
               PROVE  i = j
    BY <1>5
  <2>1. (IF i < n THEN i ELSE i + 1) = (IF j < n THEN j ELSE j + 1)
    BY <1>2, <1>5, <1>6 DEF Once
  <2> QED
    BY <1>1, <1>2, <2>1
<1>8. Once'
  BY <1>4, <1>7 DEF Once, Places
<1>9. \A j \in DOMAIN subs'[t] : subs'[t][j] # s /\ subs'[t][j] \in Subscribed(t)
  BY <1>1, <1>2, <1>5, <1>6 DEF Once, Subscribed
<1>10. s \notin Subscribed(t)' /\ Subscribed(t)' \subseteq Subscribed(t)
  BY <1>9 DEF Subscribed, Places
<1>11. \A u \in Topics \ {t} : Subscribed(u)' = Subscribed(u) /\ s \notin Subscribed(u)
  <2>1. \A u \in Topics \ {t} : Subscribed(u)' = Subscribed(u)
    BY <1>4 DEF Subscribed, Places
  <2>2. \A u \in Topics \ {t} : s \notin Subscribed(u)
    BY ListedAre DEF t
  <2> QED
    BY <2>1, <2>2
<1> QED
  BY <1>0, <1>8, <1>10, <1>11 DEF Listed

LEMMA SubsStay ==
  ASSUME UNCHANGED subs
  PROVE  /\ \A u : Places(u)' = Places(u) /\ Subscribed(u)' = Subscribed(u)
         /\ Listed' = Listed /\ (Once => Once')
<1>1. \A u : Places(u)' = Places(u) /\ Subscribed(u)' = Subscribed(u)
  BY DEF Places, Subscribed
<1> QED
  BY <1>1 DEF Listed, Once

LEMMA OtherSubs ==
  ASSUME [Next]_vars, \A s \in Subs : ~Subscribe(s) /\ ~Unsubscribe(s)
  PROVE  UNCHANGED subs
  BY DEF Next, vars, Publish, PublishLossless, PublishLossy, PublisherResumes, Take,
         HandlerPublishes, HandlerReturns, HandlerRaises, HandlerDone, CloseBegins, CloseEnds

LEMMA OnceStep ==
  ASSUME TypeInv, Once, [Next]_vars
  PROVE  Once'
  BY OnceSubscribes, OnceUnsubscribes, OtherSubs, SubsStay

LEMMA OrderStep ==
  ASSUME TypeInv, QueuesFit, OrderInv, LosslessStay, [Next]_vars
  PROVE  OrderInv'
<1> DEFINE Goal  == Walks' /\ Unfed' /\ RunsOn'
           Still == UNCHANGED <<subs, queue, pub, sent, since, newest>>
<1>1. ASSUME Still PROVE Goal
  BY <1>1, QuietOrder DEF OrderInv
<1>2. ASSUME UNCHANGED vars PROVE Goal
  <2>1. Still
    BY <1>2 DEF vars, history
  <2> HIDE DEF Goal, Still
  <2> QED
    BY <1>1, <2>1
<1>3. ASSUME NEW s \in Subs, Subscribe(s) \/ Unsubscribe(s) PROVE Goal
  BY <1>3, SubscribeOrder, UnsubscribeOrder
<1>4. ASSUME NEW x \in Producers, Publish(x) PROVE Goal
  <2>1. PICK t \in Posts[x] : PublishLossless(x, t) \/ \E k \in Keys \cup {None} : PublishLossy(t, k)
    BY <1>4 DEF Publish
  <2>2. t \in Topics /\ x \in Publishers /\ x \notin Subs
    BY Assumed, SourcesAssumption
  <2> QED
    BY <2>1, <2>2, LosslessOrder, LossyOrder
<1>5. ASSUME NEW x \in Publishers, PublisherResumes(x) PROVE Goal
  BY <1>5, ResumeOrder
<1>6. ASSUME NEW s \in Subs, Take(s) PROVE Goal
  BY <1>6, TakeOrder
<1>7. ASSUME NEW s \in Subs, HandlerPublishes(s) PROVE Goal
  <2>1. /\ PublishLossless(s, Relay[s]) \/ \E k \in Keys \cup {None} : PublishLossy(Relay[s], k)
        /\ Relay[s] # None
    BY <1>7 DEF HandlerPublishes
  <2>2. Relay[s] \in Topics /\ s \in Publishers
    BY <2>1, Assumed
  <2> QED
    BY <2>1, <2>2, LosslessOrder, LossyOrder
<1>8. ASSUME NEW s \in Subs, HandlerReturns(s) \/ HandlerRaises(s) PROVE Goal
  <2>1. Still
    BY <1>8 DEF HandlerReturns, HandlerRaises, HandlerDone, history
  <2> HIDE DEF Goal, Still
  <2> QED
    BY <1>1, <2>1
<1>9. ASSUME CloseBegins \/ CloseEnds PROVE Goal
  <2>1. Still
    BY <1>9 DEF CloseBegins, CloseEnds, history
  <2> HIDE DEF Goal, Still
  <2> QED
    BY <1>1, <2>1
<1>10. Goal
  <2> HIDE DEF Goal
  <2> QED
    BY <1>2, <1>3, <1>4, <1>5, <1>6, <1>7, <1>8, <1>9 DEF Next
<1> QED
  BY <1>10, OnceStep DEF OrderInv

(* Backpressure keeps order: as long as no subscription of a lossless      *)
(* topic, and no handler that publishes on one, is unsubscribed, each      *)
(* subscriber gets every event of every publisher since its subscription   *)
(* once and in order, wherever the publishers have to wait on their way    *)
(* through the list and however they overtake each other.                  *)
THEOREM EventsInOrder ==
  ASSUME \A s \in Removable : TopicOf[s] \in Lossy /\ Relay[s] \in Lossy \cup {None}
  PROVE  Spec => []LosslessInOrder
<1>1. Init => OrderInv
  <2> SUFFICES ASSUME Init PROVE OrderInv
    OBVIOUS
  <2>1. \A t \in Topics : Places(t) = {}
    BY DEF Init, Places
  <2>2. \A x \in Publishers : pub[x] = NotWaiting
    BY DEF Init
  <2>3. \A s \in Subs : queue[s] = <<>> /\ \A x \in Publishers : newest[s][x] = 0
    BY Assumed DEF Init
  <2> QED
    BY <2>1, <2>2, <2>3 DEF OrderInv, Once, Walks, Unfed, RunsOn
<1>2. IInv /\ OrderInv /\ [Next]_vars => OrderInv'
  BY OrderStep DEF LosslessStay, IInv
<1>3. ASSUME IInv, OrderInv PROVE LosslessInOrder
  <2> SUFFICES ASSUME NEW t \in Topics \ Lossy, NEW x \in Publishers, NEW s \in Subscribed(t)
               PROVE  /\ \A i, j \in From(s, x) : i < j => queue[s][i].no < queue[s][j].no
                      /\ \E first \in Firsts(s, x), last \in {sent[t][x] - 1, sent[t][x]} :
                           /\ Waits(s, x) = first..last /\ first <= last + 1
                           /\ pub[x].topic # t => last = sent[t][x]
    BY DEF LosslessInOrder
  <2>1. PICK j \in Places(t) : s = subs[t][j]
    BY DEF Subscribed
  <2>2. PICK first \in IF newest[s][x] # 0 THEN {newest[s][x] + 1} ELSE {since[s][x], since[s][x] + 1} :
          Run(queue[s], x, first, SentTo(x, t, j))
    BY <1>3, <2>1 DEF OrderInv, RunsOn, Holds, FedBy
  <2>3. From(s, x) = FromOf(queue[s], x) /\ Waits(s, x) = {queue[s][i].no : i \in FromOf(queue[s], x)}
    BY DEF From, FromOf, Waits
  <2>4. first \in Firsts(s, x)
    BY <2>2 DEF Firsts
  <2>5. /\ SentTo(x, t, j) \in {sent[t][x] - 1, sent[t][x]}
        /\ pub[x].topic # t => SentTo(x, t, j) = sent[t][x]
    BY DEF SentTo
  <2> QED
    BY <2>2, <2>3, <2>4, <2>5 DEF Run
<1> QED
  BY <1>1, <1>2, <1>3, Invariance, PTL DEF Spec

-----------------------------------------------------------------------------
(***************************************************************************)
(* Counters.  Sums over the subscriptions are sizes of sets of units.      *)
(***************************************************************************)
LEMMA UnitsFinite ==
  ASSUME IsFiniteSet(Subs), NEW count \in [Subs -> Nat]
  PROVE  IsFiniteSet(Units(count)) /\ Total(count) \in Nat
<1> DEFINE of == [s \in Subs |-> {s} \X (1..count[s])]
           all == {{s} \X (1..count[s]) : s \in Subs}
<1>1. of \in Surjection(Subs, all)
  BY DEF Surjection
<1>2. IsFiniteSet(all)
  BY <1>1, FS_Surjection
<1>3. ASSUME NEW T \in all PROVE IsFiniteSet(T)
  <2>1. PICK s \in Subs : T = {s} \X (1..count[s])
    OBVIOUS
  <2>2. IsFiniteSet({s}) /\ IsFiniteSet(1..count[s])
    <3>1. IsFiniteSet({} \cup {s})
      BY FS_EmptySet, FS_AddElement
    <3>2. {} \cup {s} = {s} /\ count[s] \in Nat
      OBVIOUS
    <3> QED
      BY <3>1, <3>2, FS_Interval
  <2>3. IsFiniteSet({s} \X (1..count[s]))
    BY <2>2, FS_Product
  <2> QED
    BY <2>1, <2>3
<1>4. Units(count) = UNION all
  BY DEF Units
<1> HIDE DEF all
<1>5. IsFiniteSet(Units(count))
  BY <1>2, <1>3, <1>4, FS_UNION
<1> QED
  BY <1>5, FS_CardinalityType DEF Total

(* One more at each subscription of a set.                                 *)
Adds(more, count, R) == \A s \in Subs : more[s] = count[s] + IF s \in R THEN 1 ELSE 0

LEMMA TotalGrows ==
  ASSUME IsFiniteSet(Subs), NEW count \in [Subs -> Nat], NEW more \in [Subs -> Nat],
         NEW R \in SUBSET Subs, Adds(more, count, R)
  PROVE  /\ Total(more) = Total(count) + Cardinality(R)
         /\ Total(more) \in Nat /\ Total(count) \in Nat /\ Cardinality(R) \in Nat
<1> USE DEF Adds
<1> DEFINE new == {<<s, more[s]>> : s \in R}
<1>1. IsFiniteSet(R) /\ Cardinality(R) \in Nat
  BY FS_Subset, FS_CardinalityType
<1>2. /\ IsFiniteSet(Units(count)) /\ IsFiniteSet(Units(more))
      /\ Total(count) \in Nat /\ Total(more) \in Nat
  BY UnitsFinite
<1>3. \A e : e \in Units(count) <=> \E s \in Subs : \E n \in 1..count[s] : e = <<s, n>>
  BY DEF Units
<1>4. \A e : e \in Units(more) <=> \E s \in Subs : \E n \in 1..more[s] : e = <<s, n>>
  BY DEF Units
<1>5. \A s \in Subs : count[s] \in Nat /\ more[s] \in Nat
  OBVIOUS
<1>6. \A s \in Subs : 1..more[s] = (1..count[s]) \cup (IF s \in R THEN {more[s]} ELSE {})
  <2> SUFFICES ASSUME NEW s \in Subs
               PROVE  1..more[s] = (1..count[s]) \cup (IF s \in R THEN {more[s]} ELSE {})
    OBVIOUS
  <2>1. count[s] \in Nat /\ more[s] = count[s] + IF s \in R THEN 1 ELSE 0
    OBVIOUS
  <2>2. CASE s \in R
    <3>1. more[s] = count[s] + 1
      BY <2>1, <2>2
    <3>2. 1..(count[s] + 1) = (1..count[s]) \cup {count[s] + 1}
      BY <2>1
    <3> QED
      BY <2>2, <3>1, <3>2
  <2>3. CASE s \notin R
    BY <2>1, <2>3
  <2> QED
    BY <2>2, <2>3
<1>7. Units(more) = Units(count) \cup new
  <2>1. ASSUME NEW e \in Units(more) PROVE e \in Units(count) \cup new
    <3>1. PICK s \in Subs : \E n \in 1..more[s] : e = <<s, n>>
      BY <1>4
    <3>0. PICK n \in 1..more[s] : e = <<s, n>>
      BY <3>1
    <3>2. n \in 1..count[s] \/ (s \in R /\ n = more[s])
      BY <1>6
    <3> QED
      BY <1>3, <3>0, <3>2
  <2>2. ASSUME NEW e \in Units(count) PROVE e \in Units(more)
    <3>1. PICK s \in Subs : \E n \in 1..count[s] : e = <<s, n>>
      BY <1>3
    <3>2. PICK n \in 1..count[s] : e = <<s, n>>
      BY <3>1
    <3> QED
      BY <1>4, <1>6, <3>2
  <2>3. ASSUME NEW s \in R PROVE <<s, more[s]>> \in Units(more)
    <3>1. s \in Subs /\ more[s] \in 1..more[s]
      BY <1>6
    <3> QED
      BY <1>4, <3>1
  <2> QED
    BY <2>1, <2>2, <2>3
<1>8. Units(count) \cap new = {}
  <2> SUFFICES ASSUME NEW s \in R, <<s, more[s]>> \in Units(count) PROVE FALSE
    OBVIOUS
  <2>1. \E u \in Subs : \E n \in 1..count[u] : <<s, more[s]>> = <<u, n>>
    BY <1>3
  <2>2. s \in Subs /\ more[s] \in 1..count[s]
    BY <2>1
  <2>3. more[s] = count[s] + 1 /\ count[s] \in Nat
    BY <2>2
  <2> QED
    BY <2>2, <2>3
<1>9. IsFiniteSet(new) /\ Cardinality(new) = Cardinality(R)
  <2> DEFINE f == [s \in R |-> <<s, more[s]>>]
  <2>1. f \in Bijection(R, new)
    <3>1. f \in [R -> new]
      OBVIOUS
    <3>2. \A s, u \in R : f[s] = f[u] => s = u
      OBVIOUS
    <3>3. \A e \in new : \E s \in R : f[s] = e
      OBVIOUS
    <3> HIDE DEF f, new
    <3> QED
      BY <3>1, <3>2, <3>3 DEF Bijection, Injection, Surjection, IsInjective
  <2>2. ExistsBijection(R, new)
    BY <2>1 DEF ExistsBijection
  <2> HIDE DEF new
  <2> QED
    BY <1>1, <2>2, FS_Bijection
<1> HIDE DEF new
<1>10. Cardinality(Units(count) \cup new) =
         Cardinality(Units(count)) + Cardinality(new) - Cardinality(Units(count) \cap new)
  BY <1>2, <1>9, FS_Union
<1>11. Cardinality(Units(count) \cap new) = 0
  BY <1>8, FS_EmptySet
<1> QED
  BY <1>1, <1>2, <1>7, <1>9, <1>10, <1>11 DEF Total

LEMMA OneMore ==
  ASSUME IsFiniteSet(Subs), NEW count \in [Subs -> Nat], NEW more \in [Subs -> Nat],
         NEW s \in Subs, Adds(more, count, {s})
  PROVE  Total(more) = Total(count) + 1 /\ Total(more) \in Nat /\ Total(count) \in Nat
<1>1. Cardinality({s}) = 1
  <2>1. {} \cup {s} = {s} /\ s \notin {} /\ IsFiniteSet({}) /\ Cardinality({}) = 0
    BY FS_EmptySet
  <2>2. Cardinality({} \cup {s}) = 0 + 1
    BY <2>1, FS_AddElement
  <2> QED
    BY <2>1, <2>2
<1>2. {s} \in SUBSET Subs
  OBVIOUS
<1>3. /\ Total(more) = Total(count) + Cardinality({s})
      /\ Total(more) \in Nat /\ Total(count) \in Nat
  BY <1>2, TotalGrows
<1> QED
  BY <1>1, <1>3

(* What was offered has been handed over, is queued, dropped or coalesced. *)
Balanced(put, got, queued, dropped, coalesced) ==
  Total(put) = Total(got) + Total(queued) + dropped + coalesced

(* What was handed over is counted or in a handler, or was cut off.        *)
Accounted(got, counted, busy, cut) ==
  /\ counted + Cardinality(busy) <= Total(got)
  /\ Total(got) <= counted + Cardinality(busy) + Cardinality(cut)

LEMMA PutBalance ==
  ASSUME IsFiniteSet(Subs), NEW o \in [Subs -> Nat], NEW o2 \in [Subs -> Nat],
         NEW h \in [Subs -> Nat], NEW q \in [Subs -> Nat], NEW q2 \in [Subs -> Nat],
         NEW d \in Nat, NEW c \in Nat, NEW R \in SUBSET Subs,
         Adds(o2, o, R), Adds(q2, q, R),
         Balanced(o, h, q, d, c)
  PROVE  Balanced(o2, h, q2, d, c)
<1>1. /\ Total(o2) = Total(o) + Cardinality(R) /\ Total(q2) = Total(q) + Cardinality(R)
      /\ Total(o) \in Nat /\ Total(q) \in Nat /\ Cardinality(R) \in Nat
  BY TotalGrows
<1>2. Total(h) \in Nat
  BY UnitsFinite
<1> QED
  BY <1>1, <1>2 DEF Balanced

LEMMA LossyBalance ==
  ASSUME IsFiniteSet(Subs), NEW o \in [Subs -> Nat], NEW o2 \in [Subs -> Nat],
         NEW h \in [Subs -> Nat], NEW q \in [Subs -> Nat], NEW q2 \in [Subs -> Nat],
         NEW d \in Nat, NEW c \in Nat,
         NEW L \in SUBSET Subs, NEW C \in SUBSET L, NEW E \in SUBSET L, C \cap E = {},
         Adds(o2, o, L), Adds(q2, q, L \ (C \cup E)),
         Balanced(o, h, q, d, c)
  PROVE  Balanced(o2, h, q2, d + Cardinality(E), c + Cardinality(C))
<1> DEFINE R == L \ (C \cup E)
<1>1. IsFiniteSet(L) /\ IsFiniteSet(C) /\ IsFiniteSet(E) /\ IsFiniteSet(R) /\ IsFiniteSet(C \cup E)
  <2>1. C \in SUBSET Subs /\ E \in SUBSET Subs /\ R \in SUBSET Subs /\ C \cup E \in SUBSET Subs
    OBVIOUS
  <2> QED
    BY <2>1, FS_Subset
<1>2. /\ Cardinality(L) \in Nat /\ Cardinality(C) \in Nat /\ Cardinality(E) \in Nat
      /\ Cardinality(R) \in Nat /\ Cardinality(C \cup E) \in Nat
  BY <1>1, FS_CardinalityType
<1>3. Cardinality(C \cup E) = Cardinality(C) + Cardinality(E)
  <2>1. Cardinality(C \cup E) = Cardinality(C) + Cardinality(E) - Cardinality(C \cap E)
    BY <1>1, FS_Union
  <2>2. Cardinality(C \cap E) = 0
    BY FS_EmptySet
  <2> QED
    BY <1>2, <2>1, <2>2
<1>4. Cardinality(L) = Cardinality(R) + Cardinality(C \cup E)
  <2>1. R \cup (C \cup E) = L /\ R \cap (C \cup E) = {}
    OBVIOUS
  <2> HIDE DEF R
  <2>2. Cardinality(R \cup (C \cup E)) =
          Cardinality(R) + Cardinality(C \cup E) - Cardinality(R \cap (C \cup E))
    BY <1>1, FS_Union
  <2>3. Cardinality(R \cup (C \cup E)) = Cardinality(L)
    BY <2>1
  <2>4. Cardinality(R \cap (C \cup E)) = 0
    BY <2>1, FS_EmptySet
  <2> QED
    BY <1>2, <2>2, <2>3, <2>4
<1>5. /\ Total(o2) = Total(o) + Cardinality(L)
      /\ Total(o) \in Nat
  BY TotalGrows
<1>6. Total(q2) = Total(q) + Cardinality(R) /\ Total(q) \in Nat
  <2>1. R \in SUBSET Subs /\ Adds(q2, q, R)
    OBVIOUS
  <2> HIDE DEF R
  <2> QED
    BY <2>1, TotalGrows
<1>7. Total(h) \in Nat
  BY UnitsFinite
<1> HIDE DEF R
<1> QED
  BY <1>2, <1>3, <1>4, <1>5, <1>6, <1>7 DEF Balanced

LEMMA TakeBalance ==
  ASSUME IsFiniteSet(Subs), NEW o \in [Subs -> Nat], NEW h \in [Subs -> Nat],
         NEW h2 \in [Subs -> Nat], NEW q \in [Subs -> Nat], NEW q2 \in [Subs -> Nat],
         NEW d \in Nat, NEW c \in Nat, NEW s \in Subs,
         Adds(h2, h, {s}), Adds(q, q2, {s}),
         Balanced(o, h, q, d, c)
  PROVE  Balanced(o, h2, q2, d, c)
<1>1. Total(h2) = Total(h) + 1 /\ Total(h) \in Nat
  BY OneMore
<1>2. Total(q) = Total(q2) + 1 /\ Total(q2) \in Nat
  BY OneMore
<1> QED
  BY <1>1, <1>2 DEF Balanced

LEMMA TakeAccounts ==
  ASSUME IsFiniteSet(Subs), NEW h \in [Subs -> Nat], NEW h2 \in [Subs -> Nat],
         NEW n \in Nat, NEW B \in SUBSET Subs, NEW C \in SUBSET Subs, NEW s \in Subs \ B,
         Adds(h2, h, {s}),
         Accounted(h, n, B, C)
  PROVE  Accounted(h2, n, B \cup {s}, C)
<1>1. Total(h2) = Total(h) + 1 /\ Total(h) \in Nat
  BY OneMore
<1>2. IsFiniteSet(B) /\ Cardinality(B) \in Nat /\ Cardinality(C) \in Nat
  BY FS_Subset, FS_CardinalityType
<1>3. Cardinality(B \cup {s}) = Cardinality(B) + 1
  BY <1>2, FS_AddElement
<1> QED
  BY <1>1, <1>2, <1>3 DEF Accounted

LEMMA EndAccounts ==
  ASSUME IsFiniteSet(Subs), NEW h \in [Subs -> Nat], NEW n \in Nat,
         NEW B \in SUBSET Subs, NEW C \in SUBSET Subs, NEW s \in B, Accounted(h, n, B, C)
  PROVE  Accounted(h, n + 1, B \ {s}, C)
<1>1. IsFiniteSet(B) /\ Cardinality(B) \in Nat /\ Cardinality(C) \in Nat
  BY FS_Subset, FS_CardinalityType
<1>2. Cardinality(B \ {s}) = Cardinality(B) - 1
  BY <1>1, FS_RemoveElement
<1>3. Total(h) \in Nat
  BY UnitsFinite
<1> QED
  BY <1>1, <1>2, <1>3 DEF Accounted

LEMMA CutAccounts ==
  ASSUME IsFiniteSet(Subs), NEW h \in [Subs -> Nat], NEW n \in Nat,
         NEW B \in SUBSET Subs, NEW C \in SUBSET Subs, NEW s \in Subs \ C, Accounted(h, n, B, C)
  PROVE  Accounted(h, n, B, C \cup {s}) /\ Accounted(h, n, B \ {s}, C \cup {s})
<1>1. IsFiniteSet(B) /\ Cardinality(B) \in Nat /\ IsFiniteSet(C) /\ Cardinality(C) \in Nat
  BY FS_Subset, FS_CardinalityType
<1>2. /\ Cardinality(B \ {s}) \in {Cardinality(B), Cardinality(B) - 1}
      /\ Cardinality(C \cup {s}) = Cardinality(C) + 1
  BY <1>1, FS_RemoveElement, FS_AddElement
<1>3. Total(h) \in Nat
  BY UnitsFinite
<1> QED
  BY <1>1, <1>2, <1>3 DEF Accounted
-----------------------------------------------------------------------------
(* The counters of the bus, the subscriptions whose handler is busy, and   *)
(* those cut off.                                                          *)
BusySubs == {s \in Subs : Busy(s)}
CutSubs  == {s \in Subs : task[s] = "cancelled"}
Books    == Balanced(offered, handed, Queued, stats.dropped, stats.coalesced)
Handled  == Accounted(handed, stats.delivered + stats.errors, BusySubs, CutSubs)

(* A cancelled task is of a subscription that is gone, and every event has *)
(* a number, so that a handler that got one is busy.                       *)
Gone     == \A s \in Subs : task[s] = "cancelled" => s \notin Listed
Numbered ==
  /\ \A s \in Subs : \A j \in 1..Len(queue[s]) :
       queue[s][j].kind = "payload" => queue[s][j].no # 0
  /\ \A x \in Publishers : pub[x] # NotWaiting => pub[x].no # 0

CountInv == Once /\ Gone /\ Numbered /\ Books /\ Handled

LEMMA CountsTyped ==
  ASSUME TypeInv
  PROVE  /\ offered \in [Subs -> Nat] /\ handed \in [Subs -> Nat] /\ Queued \in [Subs -> Nat]
         /\ \A s \in Subs : Queued[s] = Len(queue[s]) /\ queue[s] \in Seq(Items)
         /\ stats \in [Counters -> Nat]
         /\ stats.dropped \in Nat /\ stats.coalesced \in Nat
         /\ stats.delivered \in Nat /\ stats.errors \in Nat
         /\ BusySubs \in SUBSET Subs /\ CutSubs \in SUBSET Subs
<1>1. /\ offered \in [Subs -> Nat] /\ handed \in [Subs -> Nat] /\ stats \in [Counters -> Nat]
      /\ queue \in [Subs -> Seq(Items)]
  BY DEF TypeInv, TypeOK
<1>2. \A s \in Subs : Len(queue[s]) \in Nat /\ queue[s] \in Seq(Items)
  BY <1>1
<1> QED
  BY <1>1, <1>2 DEF Queued, Counters, BusySubs, CutSubs

(* The published counter is no part of the account. *)
LEMMA CountedStats ==
  ASSUME TypeInv, NEW t
  PROVE  /\ Counted(t) \in [Counters -> Nat]
         /\ Counted(t).dropped = stats.dropped /\ Counted(t).coalesced = stats.coalesced
         /\ Counted(t).delivered = stats.delivered /\ Counted(t).errors = stats.errors
<1> DEFINE one == IF subs[t] = <<>> THEN 0 ELSE 1
<1>1. one \in Nat
  OBVIOUS
<1>2. Counted(t) = [stats EXCEPT !.published = @ + one]
  BY DEF Counted
<1>3. stats \in [Counters -> Nat]
  BY DEF TypeInv, TypeOK
<1> HIDE DEF one
<1> QED
  BY <1>1, <1>2, <1>3 DEF Counters

(* Tasks are cancelled by Unsubscribe and by nothing else. *)
LEMMA StartKeepsCut ==
  ASSUME Gone, NEW L, L \cap Listed = L, task' = EnsureStarted(L), UNCHANGED subs
  PROVE  Gone' /\ CutSubs' = CutSubs
<1>1. \A s \in Subs : task'[s] = "cancelled" <=> task[s] = "cancelled"
  BY DEF EnsureStarted, Gone
<1>2. Listed' = Listed
  BY SubsStay
<1> QED
  BY <1>1, <1>2 DEF Gone, CutSubs

(* A walk puts its event into the queues it reaches and leaves the others. *)
LEMMA PutCounts ==
  ASSUME IsFiniteSet(Subs), TypeInv, Numbered, Books,
         NEW x \in Publishers, NEW t \in Topics \ Lossy, NEW no \in Nat \ {0},
         NEW from \in Nat, NEW resumed \in SUBSET Subs,
         PutFrom(x, t, no, from, resumed), TypeInv',
         UNCHANGED handed, stats'.dropped = stats.dropped, stats'.coalesced = stats.coalesced
  PROVE  Numbered' /\ Books'
<1> DEFINE stop    == FirstFull(t, from)
           reached == resumed \cup {subs[t][j] : j \in {j \in Places(t) : from <= j /\ j < stop}}
<1>1. /\ queue' = [s \in Subs |-> IF s \in reached THEN Append(queue[s], Payload(x, no)) ELSE queue[s]]
      /\ offered' = [s \in Subs |-> offered[s] + IF s \in reached THEN 1 ELSE 0]
      /\ pub' = [pub EXCEPT ![x] =
           IF stop \in Places(t)
           THEN [topic |-> t, no |-> no, at |-> subs[t][stop], next |-> stop + 1]
           ELSE NotWaiting]
  BY DEF PutFrom
<1>2. reached \subseteq Subs
  <2> HIDE DEF stop
  <2> QED
    BY PlacesAre
<1>3. \A y \in Publishers : pub'[y] # NotWaiting => pub'[y].no # 0
  <2>1. pub \in [Publishers -> Waiting \cup {NotWaiting}]
    BY DEF TypeInv, TypeOK
  <2>2. pub'[x] = NotWaiting \/ pub'[x].no = no
    <3> HIDE DEF stop
    <3> QED
      BY <1>1, <2>1
  <2>3. \A y \in Publishers \ {x} : pub'[y] = pub[y]
    BY <1>1, <2>1
  <2> QED
    BY <2>2, <2>3 DEF Numbered
<1> HIDE DEF reached, stop
<1>4. /\ offered \in [Subs -> Nat] /\ handed \in [Subs -> Nat] /\ Queued \in [Subs -> Nat]
      /\ stats.dropped \in Nat /\ stats.coalesced \in Nat
      /\ \A s \in Subs : Queued[s] = Len(queue[s]) /\ queue[s] \in Seq(Items)
  BY CountsTyped
<1>5. /\ offered' \in [Subs -> Nat] /\ Queued' \in [Subs -> Nat]
      /\ \A s \in Subs : Queued'[s] = Len(queue'[s])
  <2>1. offered' \in [Subs -> Nat] /\ queue' \in [Subs -> Seq(Items)]
    BY DEF TypeInv, TypeOK
  <2>2. \A s \in Subs : Len(queue'[s]) \in Nat
    BY <2>1
  <2> QED
    BY <2>1, <2>2 DEF Queued
<1>6. Payload(x, no) \in Items /\ Payload(x, no).no = no
  <2>1. Payload(x, no).no = no
    BY DEF Payload
  <2> QED
    BY <2>1, Assumed, ItemsTyped
<1>7. ASSUME NEW s \in Subs
      PROVE  /\ Queued'[s] = Queued[s] + IF s \in reached THEN 1 ELSE 0
             /\ \A j \in 1..Len(queue'[s]) : queue'[s][j].kind = "payload" => queue'[s][j].no # 0
  <2>1. CASE s \in reached
    <3>1. queue'[s] = Append(queue[s], Payload(x, no))
      BY <1>1, <2>1
    <3>2. /\ Len(queue'[s]) = Len(queue[s]) + 1
          /\ \A j \in 1..Len(queue'[s]) :
               queue'[s][j] = IF j \in 1..Len(queue[s]) THEN queue[s][j] ELSE Payload(x, no)
      BY <1>4, <1>6, <3>1
    <3>3. \A j \in 1..Len(queue'[s]) : queue'[s][j].kind = "payload" => queue'[s][j].no # 0
      BY <1>6, <3>2 DEF Numbered
    <3> QED
      BY <1>4, <1>5, <2>1, <3>2, <3>3
  <2>2. CASE s \notin reached
    <3>1. queue'[s] = queue[s]
      BY <1>1, <2>2
    <3> QED
      BY <1>4, <1>5, <2>2, <3>1 DEF Numbered
  <2> QED
    BY <2>1, <2>2
<1>8. Balanced(offered', handed, Queued', stats.dropped, stats.coalesced)
  <2>1. Adds(offered', offered, reached)
    BY <1>1 DEF Adds
  <2>2. Adds(Queued', Queued, reached)
    BY <1>7 DEF Adds
  <2>3. Balanced(offered, handed, Queued, stats.dropped, stats.coalesced)
    BY DEF Books
  <2>4. /\ offered \in [Subs -> Nat] /\ handed \in [Subs -> Nat] /\ Queued \in [Subs -> Nat]
        /\ offered' \in [Subs -> Nat] /\ Queued' \in [Subs -> Nat]
        /\ stats.dropped \in Nat /\ stats.coalesced \in Nat /\ reached \in SUBSET Subs
    BY <1>2, <1>4, <1>5
  <2> QED
    BY <2>1, <2>2, <2>3, <2>4, PutBalance
<1> QED
  BY <1>3, <1>7, <1>8 DEF Numbered, Books

(* A handler is as busy, and the account of what was handed over the same. *)
LEMMA HandledStays ==
  ASSUME Handled, UNCHANGED handed, BusySubs' = BusySubs, CutSubs' = CutSubs,
         stats'.delivered = stats.delivered, stats'.errors = stats.errors
  PROVE  Handled'
  BY DEF Handled

LEMMA LosslessCounts ==
  ASSUME IsFiniteSet(Subs), TypeInv, CountInv, NEW x \in Publishers, NEW t \in Topics,
         PublishLossless(x, t), TypeInv', \A s \in Subs : Busy(s)' = Busy(s)
  PROVE  Gone' /\ Numbered' /\ Books' /\ Handled'
<1>1. /\ t \in Topics \ Lossy /\ PutFrom(x, t, sent[t][x] + 1, 1, {})
      /\ task' = EnsureStarted(Listed) /\ stats' = Counted(t)
      /\ UNCHANGED <<subs, handed>>
  BY DEF PublishLossless
<1>2. sent[t][x] + 1 \in Nat \ {0}
  BY Assumed DEF TypeInv, TypeOK
<1>3. /\ stats'.dropped = stats.dropped /\ stats'.coalesced = stats.coalesced
      /\ stats'.delivered = stats.delivered /\ stats'.errors = stats.errors
  BY <1>1, CountedStats
<1>4. Numbered' /\ Books'
  <2>1. 1 \in Nat /\ {} \in SUBSET Subs
    OBVIOUS
  <2> QED
    BY <1>1, <1>2, <1>3, <2>1, PutCounts DEF CountInv
<1>5. Gone' /\ CutSubs' = CutSubs
  BY <1>1, StartKeepsCut DEF CountInv
<1>6. BusySubs' = BusySubs
  BY DEF BusySubs
<1> QED
  BY <1>1, <1>3, <1>4, <1>5, <1>6, HandledStays DEF CountInv

LEMMA ResumeCounts ==
  ASSUME IsFiniteSet(Subs), TypeInv, CountInv, NEW x \in Publishers, PublisherResumes(x), TypeInv'
  PROVE  Gone' /\ Numbered' /\ Books' /\ Handled'
<1> DEFINE w == pub[x]
<1>1. /\ w # NotWaiting /\ PutFrom(x, w.topic, w.no, w.next, {w.at})
      /\ UNCHANGED <<subs, task, handling, stats, handed>>
  BY DEF PublisherResumes
<1>2. /\ w.topic \in Topics \ Lossy /\ w.no \in Nat \ {0} /\ w.next \in Nat
      /\ {w.at} \in SUBSET Subs
  BY <1>1, NumbersAre DEF CountInv, Numbered
<1>3. Numbered' /\ Books'
  BY <1>1, <1>2, PutCounts DEF CountInv
<1>4. Gone' /\ CutSubs' = CutSubs /\ BusySubs' = BusySubs
  <2>1. Listed' = Listed
    BY <1>1, SubsStay
  <2> QED
    BY <1>1, <2>1 DEF CountInv, Gone, CutSubs, BusySubs, Busy
<1> QED
  BY <1>1, <1>3, <1>4, HandledStays DEF CountInv

(* An event on a lossy topic coalesces, is queued, or displaces another.   *)
LEMMA LossyCounts ==
  ASSUME IsFiniteSet(Subs), TypeInv, QueuesFit, CountInv, NEW t \in Topics,
         NEW k \in Keys \cup {None},
         PublishLossy(t, k), TypeInv', \A s \in Subs : Busy(s)' = Busy(s)
  PROVE  Gone' /\ Numbered' /\ Books' /\ Handled'
<1> DEFINE no == sent[t][k] + 1
           L  == Subscribed(t)
           C  == {s \in L : Coalesces(s, k)}
           E  == {s \in L : Evicts(s, k)}
<1>1. /\ queue' = [s \in Subs |-> IF s \in L THEN QueueAfter(s, k, no) ELSE queue[s]]
      /\ offered' = [s \in Subs |-> offered[s] + IF s \in L THEN 1 ELSE 0]
      /\ task' = EnsureStarted(Listed)
      /\ stats' = [Counted(t) EXCEPT !.coalesced = @ + Cardinality(C), !.dropped = @ + Cardinality(E)]
      /\ UNCHANGED <<subs, pub, handed>>
  BY DEF PublishLossy
<1>2. no \in Nat \ {0}
  BY Assumed DEF TypeInv, TypeOK
<1>3. L \in SUBSET Subs /\ C \in SUBSET L /\ E \in SUBSET L /\ C \cap E = {}
  <2>1. L \in SUBSET Subs
    BY ListedAre
  <2> QED
    BY <2>1 DEF Evicts
<1>4. /\ offered \in [Subs -> Nat] /\ handed \in [Subs -> Nat] /\ Queued \in [Subs -> Nat]
      /\ stats.dropped \in Nat /\ stats.coalesced \in Nat
      /\ \A s \in Subs : Queued[s] = Len(queue[s]) /\ queue[s] \in Seq(Items)
  BY CountsTyped
<1>5. /\ offered' \in [Subs -> Nat] /\ Queued' \in [Subs -> Nat]
      /\ \A s \in Subs : Queued'[s] = Len(queue'[s])
  <2>1. offered' \in [Subs -> Nat] /\ queue' \in [Subs -> Seq(Items)]
    BY DEF TypeInv, TypeOK
  <2>2. \A s \in Subs : Len(queue'[s]) \in Nat
    BY <2>1
  <2> QED
    BY <2>1, <2>2 DEF Queued
<1>6. ASSUME NEW s \in Subs
      PROVE  /\ Queued'[s] = Queued[s] + IF s \in L \ (C \cup E) THEN 1 ELSE 0
             /\ \A j \in 1..Len(queue'[s]) : queue'[s][j].kind = "payload" => queue'[s][j].no # 0
  <2>1. \A j \in 1..Len(queue[s]) : queue[s][j].kind = "payload" => queue[s][j].no # 0
    BY DEF CountInv, Numbered
  <2>2. CASE s \notin L
    <3>1. queue'[s] = queue[s] /\ s \notin L \ (C \cup E)
      BY <1>1, <2>2
    <3> QED
      BY <1>4, <1>5, <2>1, <3>1
  <2>3. CASE s \in C
    <3>1. s \in L /\ QueueAfter(s, k, no) = queue[s] /\ s \notin L \ (C \cup E)
      BY <2>3 DEF QueueAfter
    <3>2. queue'[s] = queue[s]
      <4> HIDE DEF L, C, E, no
      <4> QED
        BY <1>1, <3>1
    <3> QED
      BY <1>4, <1>5, <2>1, <3>1, <3>2
  <2>4. CASE s \in L \ C
    <3>1. ~Coalesces(s, k) /\ (s \in E <=> Full(s)) /\ (s \in L \ (C \cup E) <=> ~Full(s))
      BY <2>4 DEF Evicts
    <3>2. queue'[s] = Append(Room(s), NewItem(k, no))
      BY <1>1, <2>4, <3>1 DEF QueueAfter, Room, NewItem
    <3> HIDE DEF L, C, E, no
    <3>3. /\ NewItem(k, no) \in Items
          /\ NewItem(k, no).kind = "payload" => NewItem(k, no).no # 0
      <4>1. CASE k \in Keys
        BY <4>1, ItemsTyped DEF NewItem
      <4>2. CASE k \notin Keys
        <5>1. Payload(k, no).no = no
          BY DEF Payload
        <5> QED
          BY <1>2, <4>2, <5>1, ItemsTyped, Assumed DEF NewItem
      <4> QED
        BY <4>1, <4>2
    <3>4. /\ Room(s) \in Seq(Items)
          /\ Len(Room(s)) = Len(queue[s]) - IF Full(s) THEN 1 ELSE 0
          /\ \A j \in 1..Len(Room(s)) : Room(s)[j].kind = "payload" => Room(s)[j].no # 0
      <4>1. CASE Full(s)
        <5>1. queue[s] # <<>> /\ queue[s] \in Seq(Items) /\ Room(s) = Tail(queue[s])
          BY <4>1, <1>4, RoomIs DEF Room
        <5>2. /\ Tail(queue[s]) \in Seq(Items) /\ Len(Tail(queue[s])) = Len(queue[s]) - 1
              /\ \A j \in 1..Len(Tail(queue[s])) : j + 1 \in 1..Len(queue[s])
                                                   /\ Tail(queue[s])[j] = queue[s][j + 1]
          BY <5>1
        <5> QED
          BY <2>1, <4>1, <5>1, <5>2
      <4>2. CASE ~Full(s)
        BY <1>4, <2>1, <4>2 DEF Room
      <4> QED
        BY <4>1, <4>2
    <3>5. /\ Len(queue'[s]) = Len(Room(s)) + 1
          /\ \A j \in 1..Len(queue'[s]) :
               queue'[s][j] = IF j \in 1..Len(Room(s)) THEN Room(s)[j] ELSE NewItem(k, no)
      BY <3>2, <3>3, <3>4
    <3>6. \A j \in 1..Len(queue'[s]) : queue'[s][j].kind = "payload" => queue'[s][j].no # 0
      BY <3>3, <3>4, <3>5
    <3>7. Len(queue[s]) \in Nat
      BY <1>4
    <3>8. Len(queue'[s]) = Len(queue[s]) + IF Full(s) THEN 0 ELSE 1
      <4>1. CASE Full(s)
        BY <3>4, <3>5, <3>7, <4>1
      <4>2. CASE ~Full(s)
        BY <3>4, <3>5, <3>7, <4>2
      <4> QED
        BY <4>1, <4>2
    <3>9. Queued'[s] = Queued[s] + IF s \in L \ (C \cup E) THEN 1 ELSE 0
      BY <1>4, <1>5, <3>1, <3>8
    <3> QED
      BY <3>6, <3>9
  <2> QED
    BY <2>2, <2>3, <2>4
<1>7. Numbered'
  <2>1. \A y \in Publishers : pub'[y] # NotWaiting => pub'[y].no # 0
    BY <1>1 DEF CountInv, Numbered
  <2> QED
    BY <1>6, <2>1 DEF Numbered
<1>8. Cardinality(C) \in Nat /\ Cardinality(E) \in Nat
  <2>1. C \in SUBSET Subs /\ E \in SUBSET Subs
    BY <1>3
  <2> HIDE DEF C, E
  <2> QED
    BY <2>1, FS_Subset, FS_CardinalityType
<1>9. /\ stats'.dropped = stats.dropped + Cardinality(E)
      /\ stats'.coalesced = stats.coalesced + Cardinality(C)
      /\ stats'.delivered = stats.delivered /\ stats'.errors = stats.errors
  <2>1. stats' = [Counted(t) EXCEPT !.coalesced = @ + Cardinality(C), !.dropped = @ + Cardinality(E)]
    BY <1>1
  <2> HIDE DEF C, E
  <2>2. /\ Counted(t) \in [Counters -> Nat]
        /\ Counted(t).dropped = stats.dropped /\ Counted(t).coalesced = stats.coalesced
        /\ Counted(t).delivered = stats.delivered /\ Counted(t).errors = stats.errors
    BY CountedStats
  <2> QED
    BY <2>1, <2>2 DEF Counters
<1>10. Books'
  <2>1. Adds(offered', offered, L)
    BY <1>1 DEF Adds
  <2>2. Adds(Queued', Queued, L \ (C \cup E))
    BY <1>6 DEF Adds
  <2> HIDE DEF L, C, E
  <2>3. Balanced(offered', handed, Queued', stats.dropped + Cardinality(E), stats.coalesced + Cardinality(C))
    <3>1. Balanced(offered, handed, Queued, stats.dropped, stats.coalesced)
      BY DEF CountInv, Books
    <3>2. /\ offered \in [Subs -> Nat] /\ handed \in [Subs -> Nat] /\ Queued \in [Subs -> Nat]
          /\ offered' \in [Subs -> Nat] /\ Queued' \in [Subs -> Nat]
          /\ stats.dropped \in Nat /\ stats.coalesced \in Nat
      BY <1>4, <1>5
    <3> QED
      BY <1>3, <2>1, <2>2, <3>1, <3>2, LossyBalance
  <2> QED
    BY <1>1, <1>9, <2>3 DEF Books
<1>11. Gone' /\ CutSubs' = CutSubs
  BY <1>1, StartKeepsCut DEF CountInv
<1>12. BusySubs' = BusySubs
  BY DEF BusySubs
<1> QED
  BY <1>1, <1>7, <1>9, <1>10, <1>11, <1>12, HandledStays DEF CountInv

(* A consumer that takes an item is busy with it. *)
LEMMA TakeCounts ==
  ASSUME IsFiniteSet(Subs), TypeInv, QueuesFit, CountInv, NEW s \in Subs, Take(s), TypeInv'
  PROVE  Gone' /\ Numbered' /\ Books' /\ Handled'
<1> DEFINE item == Head(queue[s])
           ev   == IF item.kind = "key" THEN Event(item.src, latest[s][item.src])
                   ELSE Event(item.src, item.no)
<1>1. /\ ~Busy(s) /\ queue[s] # <<>>
      /\ queue' = [queue EXCEPT ![s] = Tail(@)]
      /\ handling' = [handling EXCEPT ![s] = Unrelayed(ev)]
      /\ handed' = [handed EXCEPT ![s] = @ + 1]
      /\ UNCHANGED <<subs, task, pub, stats, offered>>
  BY DEF Take
<1>2. /\ offered \in [Subs -> Nat] /\ handed \in [Subs -> Nat] /\ Queued \in [Subs -> Nat]
      /\ stats.dropped \in Nat /\ stats.coalesced \in Nat
      /\ stats.delivered \in Nat /\ stats.errors \in Nat
      /\ BusySubs \in SUBSET Subs /\ CutSubs \in SUBSET Subs
      /\ \A u \in Subs : Queued[u] = Len(queue[u]) /\ queue[u] \in Seq(Items)
  BY CountsTyped
<1>3. /\ handed' \in [Subs -> Nat] /\ Queued' \in [Subs -> Nat]
      /\ \A u \in Subs : Queued'[u] = Len(queue'[u])
  <2>1. handed' \in [Subs -> Nat] /\ queue' \in [Subs -> Seq(Items)]
    BY DEF TypeInv, TypeOK
  <2>2. \A u \in Subs : Len(queue'[u]) \in Nat
    BY <2>1
  <2> QED
    BY <2>1, <2>2 DEF Queued
<1>4. queue'[s] = Tail(queue[s]) /\ \A u \in Subs \ {s} : queue'[u] = queue[u]
  <2>1. queue \in [Subs -> Seq(Items)]
    BY DEF TypeInv, TypeOK
  <2> QED
    BY <1>1, <2>1
<1>5. /\ Len(queue[s]) = Len(queue'[s]) + 1 /\ Len(queue[s]) \in Nat
      /\ \A j \in 1..Len(queue'[s]) : j + 1 \in 1..Len(queue[s]) /\ queue'[s][j] = queue[s][j + 1]
      /\ item = queue[s][1] /\ 1 \in 1..Len(queue[s])
  <2>1. queue[s] \in Seq(Items) /\ queue[s] # <<>>
    BY <1>1, <1>2
  <2>2. /\ Len(queue[s]) = Len(Tail(queue[s])) + 1 /\ Len(queue[s]) \in Nat
        /\ Head(queue[s]) = queue[s][1] /\ 1 \in 1..Len(queue[s])
    BY <2>1
  <2>3. \A j \in 1..Len(Tail(queue[s])) :
          j + 1 \in 1..Len(queue[s]) /\ Tail(queue[s])[j] = queue[s][j + 1]
    BY <2>1
  <2> QED
    BY <1>4, <2>2, <2>3
<1>6. ev.no # 0
  <2>1. /\ Tidy(queue[s]) /\ pending[s] = KeysOf(queue[s])
        /\ pending[s] = {k \in Keys : latest[s][k] # 0}
    BY DEF QueuesFit, Fit
  <2>2. CASE item.kind = "key"
    <3>1. item.src \in KeysOf(queue[s])
      BY <1>1, <2>1, <2>2, TailTidy
    <3>2. latest[s][item.src] # 0
      BY <2>1, <3>1
    <3> QED
      BY <2>2, <3>2 DEF Event
  <2>3. CASE item.kind # "key"
    <3>1. item.kind = "payload"
      BY <1>1, <2>1, <2>3, TailTidy
    <3>2. item.no # 0
      BY <1>5, <3>1 DEF CountInv, Numbered
    <3> QED
      BY <2>3, <3>2 DEF Event
  <2> QED
    BY <2>2, <2>3
<1> HIDE DEF ev, item
<1>7. BusySubs' = BusySubs \cup {s} /\ s \notin BusySubs
  <2>1. handling'[s] = Unrelayed(ev) /\ \A u \in Subs \ {s} : handling'[u] = handling[u]
    BY <1>1 DEF TypeInv, TypeOK
  <2>2. Unrelayed(ev).no = ev.no
    BY DEF Unrelayed
  <2> QED
    BY <1>1, <1>6, <2>1, <2>2 DEF BusySubs, Busy
<1>8. Numbered'
  <2>1. ASSUME NEW u \in Subs, NEW j \in 1..Len(queue'[u]), queue'[u][j].kind = "payload"
        PROVE  queue'[u][j].no # 0
    <3>1. CASE u = s
      <4>1. j + 1 \in 1..Len(queue[s]) /\ queue'[s][j] = queue[s][j + 1]
        BY <1>5, <3>1
      <4> QED
        BY <2>1, <3>1, <4>1 DEF CountInv, Numbered
    <3>2. CASE u # s
      BY <1>4, <2>1, <3>2 DEF CountInv, Numbered
    <3> QED
      BY <3>1, <3>2
  <2>2. \A y \in Publishers : pub'[y] # NotWaiting => pub'[y].no # 0
    BY <1>1 DEF CountInv, Numbered
  <2> QED
    BY <2>1, <2>2 DEF Numbered
<1>9. Adds(handed', handed, {s})
  BY <1>1, <1>2 DEF Adds
<1>10. Books'
  <2>1. Adds(Queued, Queued', {s})
    <3>1. Queued[s] = Queued'[s] + 1 /\ \A u \in Subs \ {s} : Queued[u] = Queued'[u]
      BY <1>2, <1>3, <1>4, <1>5
    <3>2. \A u \in Subs : Queued'[u] \in Nat
      BY <1>3
    <3> QED
      BY <3>1, <3>2 DEF Adds
  <2>2. Balanced(offered, handed, Queued, stats.dropped, stats.coalesced)
    BY DEF CountInv, Books
  <2>3. Balanced(offered, handed', Queued', stats.dropped, stats.coalesced)
    <3>1. /\ offered \in [Subs -> Nat] /\ handed \in [Subs -> Nat] /\ Queued \in [Subs -> Nat]
          /\ handed' \in [Subs -> Nat] /\ Queued' \in [Subs -> Nat]
          /\ stats.dropped \in Nat /\ stats.coalesced \in Nat
      BY <1>2, <1>3
    <3> QED
      BY <1>9, <2>1, <2>2, <3>1, TakeBalance
  <2> QED
    BY <1>1, <2>3 DEF Books
<1>11. Gone' /\ CutSubs' = CutSubs
  <2>1. Listed' = Listed
    BY <1>1, SubsStay
  <2> QED
    BY <1>1, <2>1 DEF CountInv, Gone, CutSubs
<1>12. Handled'
  <2>1. Accounted(handed, stats.delivered + stats.errors, BusySubs, CutSubs)
    BY DEF CountInv, Handled
  <2>2. stats.delivered + stats.errors \in Nat
    BY <1>2
  <2>3. Accounted(handed', stats.delivered + stats.errors, BusySubs \cup {s}, CutSubs)
    BY <1>2, <1>3, <1>7, <1>9, <2>1, <2>2, TakeAccounts
  <2> QED
    BY <1>1, <1>7, <1>11, <2>3 DEF Handled
<1> QED
  BY <1>8, <1>10, <1>11, <1>12

LEMMA BooksStay ==
  ASSUME UNCHANGED <<queue, pub, offered, handed>>, Numbered, Books,
         stats'.dropped = stats.dropped, stats'.coalesced = stats.coalesced
  PROVE  Numbered' /\ Books'
<1>1. Queued' = Queued
  BY DEF Queued
<1> QED
  BY <1>1 DEF Numbered, Books

(* A handler that ends is counted. *)
LEMMA EndCounts ==
  ASSUME IsFiniteSet(Subs), TypeInv, CountInv, NEW s \in Subs,
         HandlerReturns(s) \/ HandlerRaises(s)
  PROVE  Gone' /\ Numbered' /\ Books' /\ Handled'
<1>1. /\ Busy(s) /\ handling' = [handling EXCEPT ![s] = NotBusy]
      /\ UNCHANGED <<subs, queue, task, pub, offered, handed>>
  BY DEF HandlerReturns, HandlerRaises, HandlerDone, history
<1>2. /\ offered \in [Subs -> Nat] /\ handed \in [Subs -> Nat] /\ stats \in [Counters -> Nat]
      /\ stats.delivered \in Nat /\ stats.errors \in Nat
      /\ BusySubs \in SUBSET Subs /\ CutSubs \in SUBSET Subs
  BY CountsTyped
<1>3. /\ stats'.dropped = stats.dropped /\ stats'.coalesced = stats.coalesced
      /\ stats'.delivered + stats'.errors = (stats.delivered + stats.errors) + 1
  <2>1. stats' = [stats EXCEPT !.delivered = @ + 1] \/ stats' = [stats EXCEPT !.errors = @ + 1]
    BY DEF HandlerReturns, HandlerRaises
  <2>2. CASE stats' = [stats EXCEPT !.delivered = @ + 1]
    <3>1. /\ stats'.delivered = stats.delivered + 1 /\ stats'.errors = stats.errors
          /\ stats'.dropped = stats.dropped /\ stats'.coalesced = stats.coalesced
      BY <1>2, <2>2 DEF Counters
    <3> QED
      BY <1>2, <3>1
  <2>3. CASE stats' = [stats EXCEPT !.errors = @ + 1]
    <3>1. /\ stats'.errors = stats.errors + 1 /\ stats'.delivered = stats.delivered
          /\ stats'.dropped = stats.dropped /\ stats'.coalesced = stats.coalesced
      BY <1>2, <2>3 DEF Counters
    <3> QED
      BY <1>2, <3>1
  <2> QED
    BY <2>1, <2>2, <2>3
<1>4. Numbered' /\ Books'
  BY <1>1, <1>3, BooksStay DEF CountInv
<1>5. BusySubs' = BusySubs \ {s} /\ s \in BusySubs
  <2>1. handling'[s] = NotBusy /\ \A u \in Subs \ {s} : handling'[u] = handling[u]
    BY <1>1 DEF TypeInv, TypeOK
  <2>2. NotBusy.no = 0
    BY DEF NotBusy
  <2> QED
    BY <1>1, <2>1, <2>2 DEF BusySubs, Busy
<1>6. Gone' /\ CutSubs' = CutSubs
  <2>1. Listed' = Listed
    BY <1>1, SubsStay
  <2> QED
    BY <1>1, <2>1 DEF CountInv, Gone, CutSubs
<1>7. Accounted(handed, (stats.delivered + stats.errors) + 1, BusySubs \ {s}, CutSubs)
  <2>1. Accounted(handed, stats.delivered + stats.errors, BusySubs, CutSubs)
    BY DEF CountInv, Handled
  <2>2. stats.delivered + stats.errors \in Nat
    BY <1>2
  <2> QED
    BY <1>2, <1>5, <2>1, <2>2, EndAccounts
<1>8. Handled'
  BY <1>1, <1>3, <1>5, <1>6, <1>7 DEF Handled
<1> QED
  BY <1>4, <1>6, <1>8

(* Unsubscribing may cut off the one event its handler has. *)
LEMMA UnsubscribeCounts ==
  ASSUME IsFiniteSet(Subs), TypeInv, CountInv, NEW s \in Subs, Unsubscribe(s)
  PROVE  Gone' /\ Numbered' /\ Books' /\ Handled'
<1>1. /\ task' = [task EXCEPT ![s] = "cancelled"]
      /\ \/ handling' = [handling EXCEPT ![s] = NotBusy] /\ pub' = [pub EXCEPT ![s] = NotWaiting]
         \/ UNCHANGED <<handling, pub>>
      /\ UNCHANGED <<queue, stats, offered, handed>>
  BY DEF Unsubscribe, history
<1>2. /\ handed \in [Subs -> Nat]
      /\ stats.delivered \in Nat /\ stats.errors \in Nat
      /\ BusySubs \in SUBSET Subs /\ CutSubs \in SUBSET Subs
  BY CountsTyped
<1>3. /\ s \in Listed /\ s \notin Listed'
      /\ \A t \in Topics : Subscribed(t)' \subseteq Subscribed(t)
  BY OnceUnsubscribes DEF CountInv
<1>4. Gone' /\ s \notin CutSubs /\ CutSubs' = CutSubs \cup {s}
  <2>1. Listed' \subseteq Listed
    BY <1>3 DEF Listed
  <2>2. task'[s] = "cancelled" /\ \A u \in Subs \ {s} : task'[u] = task[u]
    BY <1>1 DEF TypeInv, TypeOK
  <2>3. Gone'
    BY <1>3, <2>1, <2>2 DEF CountInv, Gone
  <2> QED
    BY <1>3, <2>2, <2>3 DEF CountInv, Gone, CutSubs
<1>5. BusySubs' = BusySubs \/ BusySubs' = BusySubs \ {s}
  <2>1. CASE handling' = [handling EXCEPT ![s] = NotBusy]
    <3>1. handling'[s] = NotBusy /\ \A u \in Subs \ {s} : handling'[u] = handling[u]
      BY <2>1 DEF TypeInv, TypeOK
    <3>2. NotBusy.no = 0
      BY DEF NotBusy
    <3> QED
      BY <3>1, <3>2 DEF BusySubs, Busy
  <2>2. CASE UNCHANGED handling
    BY <2>2 DEF BusySubs, Busy
  <2> QED
    BY <1>1, <2>1, <2>2
<1>6. Numbered'
  <2>1. \A y \in Publishers : pub'[y] = NotWaiting \/ pub'[y] = pub[y]
    BY <1>1 DEF TypeInv, TypeOK
  <2> QED
    BY <1>1, <2>1 DEF CountInv, Numbered
<1>7. Books'
  <2>1. Queued' = Queued
    BY <1>1 DEF Queued
  <2> QED
    BY <1>1, <2>1 DEF CountInv, Books
<1>8. Handled'
  <2>1. Accounted(handed, stats.delivered + stats.errors, BusySubs, CutSubs)
    BY DEF CountInv, Handled
  <2>2. stats.delivered + stats.errors \in Nat
    BY <1>2
  <2>3. /\ Accounted(handed, stats.delivered + stats.errors, BusySubs, CutSubs \cup {s})
        /\ Accounted(handed, stats.delivered + stats.errors, BusySubs \ {s}, CutSubs \cup {s})
    BY <1>2, <1>4, <2>1, <2>2, CutAccounts
  <2> QED
    BY <1>1, <1>4, <1>5, <2>3 DEF Handled
<1> QED
  BY <1>4, <1>6, <1>7, <1>8

(* What starts or stops the tasks of listed subscriptions only. *)
LEMMA TaskCounts ==
  ASSUME CountInv, UNCHANGED <<queue, handling, pub, stats, offered, handed>>,
         Gone', CutSubs' = CutSubs
  PROVE  Gone' /\ Numbered' /\ Books' /\ Handled'
<1>1. BusySubs' = BusySubs
  BY DEF BusySubs, Busy
<1> QED
  BY <1>1, BooksStay, HandledStays DEF CountInv

LEMMA SubscribeCounts ==
  ASSUME TypeInv, CountInv, NEW s \in Subs, Subscribe(s)
  PROVE  Gone' /\ Numbered' /\ Books' /\ Handled'
<1>1. /\ task[s] = "none" /\ task' = EnsureStarted(Listed \cup {s})
      /\ UNCHANGED <<queue, handling, pub, stats, offered, handed>>
  BY DEF Subscribe
<1>2. \A u \in Subs : task'[u] = "cancelled" <=> task[u] = "cancelled"
  BY <1>1 DEF EnsureStarted, CountInv, Gone
<1>3. Listed' = Listed \cup {s}
  <2>1. \A t \in Topics : Subscribed(t)' = Subscribed(t) \cup (IF t = TopicOf[s] THEN {s} ELSE {})
    BY OnceSubscribes DEF CountInv
  <2>2. TopicOf[s] \in Topics
    BY Assumed
  <2> QED
    BY <2>1, <2>2 DEF Listed
<1>4. Gone' /\ CutSubs' = CutSubs
  BY <1>1, <1>2, <1>3 DEF CountInv, Gone, CutSubs
<1> QED
  BY <1>1, <1>4, TaskCounts

LEMMA CloseCounts ==
  ASSUME CountInv, CloseBegins \/ CloseEnds
  PROVE  Gone' /\ Numbered' /\ Books' /\ Handled'
<1>1. /\ task' = EnsureStarted(Listed) \/ task' = [s \in Subs |-> IF s \in Listed THEN "none" ELSE task[s]]
      /\ UNCHANGED <<subs, queue, handling, pub, stats, offered, handed>>
  BY DEF CloseBegins, CloseEnds, history
<1>2. \A u \in Subs : task'[u] = "cancelled" <=> task[u] = "cancelled"
  BY <1>1 DEF EnsureStarted, CountInv, Gone
<1>3. Listed' = Listed
  BY <1>1, SubsStay
<1>4. Gone' /\ CutSubs' = CutSubs
  BY <1>2, <1>3 DEF CountInv, Gone, CutSubs
<1> QED
  BY <1>1, <1>4, TaskCounts

LEMMA CountStep ==
  ASSUME IsFiniteSet(Subs), TypeInv, QueuesFit, CountInv, [Next]_vars
  PROVE  CountInv'
<1> DEFINE Goal == Gone' /\ Numbered' /\ Books' /\ Handled'
<1>1. TypeInv'
  BY TypeStep
<1>2. ASSUME UNCHANGED vars PROVE Goal
  <2>1. UNCHANGED <<subs, task, queue, handling, pub, stats, offered, handed>>
    BY <1>2 DEF vars, history
  <2>2. Gone' /\ CutSubs' = CutSubs
    <3>1. Listed' = Listed
      BY <2>1, SubsStay
    <3> QED
      BY <2>1, <3>1 DEF CountInv, Gone, CutSubs
  <2> QED
    BY <2>1, <2>2, TaskCounts
<1>3. ASSUME NEW s \in Subs, Subscribe(s) \/ Unsubscribe(s) PROVE Goal
  BY <1>3, SubscribeCounts, UnsubscribeCounts
<1>4. ASSUME NEW x \in Producers, Publish(x) PROVE Goal
  <2>1. PICK t \in Posts[x] : PublishLossless(x, t) \/ \E k \in Keys \cup {None} : PublishLossy(t, k)
    BY <1>4 DEF Publish
  <2>2. \A s \in Subs : Busy(s)' = Busy(s)
    BY <1>4 DEF Publish, Busy
  <2>3. t \in Topics /\ x \in Publishers
    BY Assumed
  <2> QED
    BY <1>1, <2>1, <2>2, <2>3, LosslessCounts, LossyCounts
<1>5. ASSUME NEW x \in Publishers, PublisherResumes(x) PROVE Goal
  BY <1>1, <1>5, ResumeCounts
<1>6. ASSUME NEW s \in Subs, Take(s) PROVE Goal
  BY <1>1, <1>6, TakeCounts
<1>7. ASSUME NEW s \in Subs, HandlerPublishes(s) PROVE Goal
  <2>1. /\ PublishLossless(s, Relay[s]) \/ \E k \in Keys \cup {None} : PublishLossy(Relay[s], k)
        /\ Relay[s] # None /\ handling' = [handling EXCEPT ![s].relayed = TRUE]
    BY <1>7 DEF HandlerPublishes
  <2>2. \A u \in Subs : Busy(u)' = Busy(u)
    <3>1. handling \in [Subs -> [src : Sources, no : Nat, relayed : BOOLEAN]]
      BY DEF TypeInv, TypeOK
    <3>2. \A u \in Subs : handling'[u].no = handling[u].no
      BY <2>1, <3>1
    <3> QED
      BY <3>2 DEF Busy
  <2>3. Relay[s] \in Topics /\ s \in Publishers
    BY <2>1, Assumed
  <2> QED
    BY <1>1, <2>1, <2>2, <2>3, LosslessCounts, LossyCounts
<1>8. ASSUME NEW s \in Subs, HandlerReturns(s) \/ HandlerRaises(s) PROVE Goal
  BY <1>8, EndCounts
<1>9. ASSUME CloseBegins \/ CloseEnds PROVE Goal
  BY <1>9, CloseCounts
<1>10. Goal
  <2> HIDE DEF Goal
  <2> QED
    BY <1>2, <1>3, <1>4, <1>5, <1>6, <1>7, <1>8, <1>9 DEF Next
<1> QED
  BY <1>10, OnceStep DEF CountInv

(* No event is lost unseen: what was offered to the subscriptions has been *)
(* handed over, waits in a queue, or is counted as dropped or coalesced;   *)
(* and what was handed over is counted as delivered or failed, is in its   *)
(* handler, or was cut off there by unsubscribe, once a subscription.      *)
THEOREM EventsAreCounted ==
  ASSUME IsFiniteSet(Subs)
  PROVE  Spec => []CountersAccount
<1>1. Init => CountInv
  <2> SUFFICES ASSUME Init PROVE CountInv
    OBVIOUS
  <2>1. /\ \A t \in Topics : Places(t) = {}
        /\ \A x \in Publishers : pub[x] = NotWaiting
        /\ \A s \in Subs : queue[s] = <<>> /\ task[s] = "none" /\ handling[s] = NotBusy
        /\ offered = [s \in Subs |-> 0] /\ handed = [s \in Subs |-> 0]
        /\ stats = [c \in Counters |-> 0]
    BY DEF Init, Places
  <2>2. Once /\ Gone /\ Numbered
    BY <2>1 DEF Once, Gone, Numbered
  <2>3. stats.dropped = 0 /\ stats.coalesced = 0 /\ stats.delivered = 0 /\ stats.errors = 0
    BY <2>1 DEF Counters
  <2>4. Queued = handed /\ handed \in [Subs -> Nat] /\ offered = handed
    BY <2>1 DEF Queued
  <2>5. Units(handed) = {}
    BY <2>1 DEF Units
  <2>6. Total(handed) = 0
    BY <2>5, FS_EmptySet DEF Total
  <2>7. BusySubs = {} /\ CutSubs = {} /\ Cardinality({}) = 0
    <3>1. NotBusy.no = 0
      BY DEF NotBusy
    <3> QED
      BY <2>1, <3>1, FS_EmptySet DEF BusySubs, CutSubs, Busy
  <2>8. Books
    BY <2>3, <2>4, <2>6 DEF Books, Balanced
  <2>9. Handled
    <3>1. Cardinality(BusySubs) = 0 /\ Cardinality(CutSubs) = 0
      BY <2>7
    <3> QED
      BY <2>3, <2>6, <3>1 DEF Handled, Accounted
  <2> QED
    BY <2>2, <2>8, <2>9 DEF CountInv
<1>2. IInv /\ CountInv /\ [Next]_vars => CountInv'
  BY CountStep DEF IInv
<1>3. CountInv => CountersAccount
  BY DEF CountInv, Books, Handled, Balanced, Accounted, BusySubs, CutSubs, CountersAccount
<1> QED
  BY <1>1, <1>2, <1>3, Invariance, PTL DEF Spec
=============================================================================
