------------------------ MODULE StrategyManagerProofs ------------------------
(***************************************************************************)
(* Theorems about StrategyManager and the ResponseCache under it, for      *)
(* every set of keys, requests and instances and every bound.              *)
(***************************************************************************)
EXTENDS StrategyManager, FiniteSetTheorems, TLAPS

-----------------------------------------------------------------------------
(* Types.  The bound of the cache is apart, for it is an argument about    *)
(* cardinalities; the rest is what the other proofs use.                   *)

CacheTyped ==
  /\ DOMAIN cache \subseteq Keys /\ cache \in [DOMAIN cache -> EntryType]
  /\ DOMAIN lock \subseteq Keys /\ lock \in [DOMAIN lock -> Nat]
  /\ req \in [Requests -> RequestType]
  /\ minted \in Nat /\ version \in Nat /\ calls \in Nat
  /\ crossed \subseteq Keys /\ dropped \subseteq Keys

Bounded == Cardinality(DOMAIN cache) <= MaxEntries + 1

ManagerTyped ==
  /\ status \in [Instances -> {"absent", "stopped", "running"}]
  /\ held \in [Instances -> Nat]
  /\ alive \subseteq Strategy
  /\ made \in Nat /\ writes \in Nat

LEMMA TypeParts == TypeOK <=> CacheTyped /\ Bounded /\ ManagerTyped
  BY DEF TypeOK, CacheTypeOK, CacheTyped, Bounded, ManagerTyped

LEMMA EvictedKeys ==
  ASSUME NEW k \in Keys, NEW gone \in Evictions(k)
  PROVE  gone \subseteq DOMAIN cache \ {k}
  BY DEF Evictions

(* What a request and an entry are made of. *)
LEMMA CacheFields ==
  ASSUME CacheTyped
  PROVE  /\ \A r \in Requests :
              /\ req[r].pc \in {"idle", "waiting", "loading", "answered"}
              /\ req[r].key \in Keys \cup {"none"} /\ req[r].lock \in Nat
              /\ req[r].floor \in Nat /\ req[r].value \in Nat
              /\ req[r].excused \in BOOLEAN
         /\ \A k \in DOMAIN cache : cache[k].value \in Nat /\ cache[k].over \in BOOLEAN
         /\ \A k \in DOMAIN lock : lock[k] \in Nat
  BY DEF CacheTyped, RequestType, EntryType

(* A request that waits or loads has a key: what the code calls key. *)
BusyHasKey ==
  \A r \in Requests : req[r].pc \in {"waiting", "loading"} => req[r].key \in Keys

LEMMA CallTyped ==
  ASSUME CacheTyped, NEW r \in Requests, NEW k \in Keys,
         NEW pc \in {"idle", "waiting", "loading", "answered"}, NEW l \in Nat, NEW v \in Nat,
         Called(r, k, pc, l, v)
  PROVE  req' \in [Requests -> RequestType]
<1>1. [pc |-> pc, key |-> k, lock |-> l, floor |-> version, value |-> v,
       excused |-> k \in crossed] \in RequestType
  BY DEF CacheTyped, RequestType
<1> QED
  BY <1>1 DEF Called, CacheTyped

LEMMA AnswerTyped ==
  ASSUME CacheTyped, NEW r \in Requests, NEW k, NEW v \in Nat
  PROVE  Answer(r, k, v) \in [Requests -> RequestType]
<1> DEFINE b == k \in crossed
<1>1. b \in BOOLEAN
  OBVIOUS
<1>2. req[r] \in RequestType
  BY DEF CacheTyped
<1> HIDE DEF b
<1>3. [req[r] EXCEPT !.pc = "answered", !.lock = 0, !.value = v, !.excused = b] \in RequestType
  BY <1>1, <1>2 DEF RequestType
<1>4. [req EXCEPT ![r].pc = "answered", ![r].lock = 0, ![r].value = v, ![r].excused = b]
        \in [Requests -> RequestType]
  BY <1>3 DEF CacheTyped
<1> QED
  BY <1>4 DEF Answer, b

LEMMA WithoutTyped ==
  ASSUME NEW S, NEW f, f \in [DOMAIN f -> S], DOMAIN f \subseteq Keys, NEW gone
  PROVE  /\ DOMAIN Without(f, gone) = DOMAIN f \ gone
         /\ Without(f, gone) \in [DOMAIN Without(f, gone) -> S]
         /\ DOMAIN Without(f, gone) \subseteq Keys
  BY DEF Without

CInv == CacheTyped /\ BusyHasKey

LEMMA InitTyped == Init => CInv /\ ManagerTyped
<1> SUFFICES ASSUME Init PROVE CInv /\ ManagerTyped
  OBVIOUS
<1>1. NoCall \in RequestType
  BY DEF NoCall, RequestType
<1>2. CInv
  BY <1>1 DEF Init, CacheInit, CInv, CacheTyped, BusyHasKey, NoCall
<1>3. ManagerTyped
  BY DEF Init, ManagerTyped, Strategy
<1> QED
  BY <1>2, <1>3

LEMMA CallStep ==
  ASSUME CInv, NEW r \in Requests, NEW k \in Keys, Hit(r, k) \/ Miss(r, k)
  PROVE  CInv'
<1> USE DEF CInv
<1>1. CASE Hit(r, k)
  <2>1. cache[k].value \in Nat
    BY <1>1, CacheFields DEF Hit, Live
  <2>2. req' \in [Requests -> RequestType]
    BY <1>1, <2>1, CallTyped DEF Hit
  <2> QED
    BY <1>1, <2>2 DEF Hit, Call, Called, CacheTyped, BusyHasKey
<1>2. CASE Miss(r, k) /\ k \in DOMAIN lock
  <2>1. lock[k] \in Nat /\ version \in Nat
    BY <1>2, CacheFields DEF CacheTyped
  <2> DEFINE pc == IF Users(lock[k]) = {} THEN "loading" ELSE "waiting"
  <2>2. req' \in [Requests -> RequestType]
    <3>1. pc \in {"idle", "waiting", "loading", "answered"} /\ Called(r, k, pc, lock[k], version)
      BY <1>2 DEF Miss
    <3> HIDE DEF pc
    <3> QED
      BY <2>1, <3>1, CallTyped
  <2> QED
    BY <1>2, <2>2 DEF Miss, Call, Called, CacheTyped, BusyHasKey
<1>3. CASE Miss(r, k) /\ k \notin DOMAIN lock
  <2>1. minted + 1 \in Nat /\ version \in Nat
    BY DEF CacheTyped
  <2>2. req' \in [Requests -> RequestType]
    BY <1>3, <2>1, CallTyped DEF Miss
  <2>3. DOMAIN lock' \subseteq Keys /\ lock' \in [DOMAIN lock' -> Nat]
    <3>1. lock \in [DOMAIN lock -> Nat] /\ DOMAIN lock \subseteq Keys
      BY DEF CacheTyped
    <3>2. lock' = With(lock, k, minted + 1)
      BY <1>3 DEF Miss
    <3> QED
      BY <2>1, <3>1, <3>2 DEF With
  <2> QED
    BY <1>3, <2>1, <2>2, <2>3 DEF Miss, Call, Called, CacheTyped, BusyHasKey
<1> QED
  BY <1>1, <1>2, <1>3

LEMMA WaiterStep ==
  ASSUME CInv, NEW r \in Requests, HitAfterWait(r) \/ LoadAfterWait(r) \/ LoadFails(r)
  PROVE  CInv'
<1> USE DEF CInv
<1>1. CASE HitAfterWait(r)
  <2>1. cache[req[r].key].value \in Nat
    BY <1>1, CacheFields DEF HitAfterWait, Live
  <2>2. req' \in [Requests -> RequestType]
    BY <1>1, <2>1, AnswerTyped DEF HitAfterWait
  <2> QED
    BY <1>1, <2>2 DEF HitAfterWait, Answer, StillUsed, CacheTyped, BusyHasKey
<1>2. CASE LoadAfterWait(r)
  <2>1. req[r] \in RequestType /\ version \in Nat
    BY DEF CacheTyped
  <2>2. [req[r] EXCEPT !.pc = "loading", !.value = version] \in RequestType
    BY <2>1 DEF RequestType
  <2> QED
    BY <1>2, <2>2 DEF LoadAfterWait, Granted, CacheTyped, BusyHasKey
<1>3. CASE LoadFails(r)
  <2>1. NoCall \in RequestType
    BY DEF NoCall, RequestType
  <2> QED
    BY <1>3, <2>1 DEF LoadFails, NoCall, StillUsed, CacheTyped, BusyHasKey
<1> QED
  BY <1>1, <1>2, <1>3

LEMMA StoreStep ==
  ASSUME CInv, NEW r \in Requests, LoadEnds(r)
  PROVE  CInv'
<1> USE DEF CInv
<1>1. req[r].key \in Keys /\ req[r].value \in Nat
  BY CacheFields DEF LoadEnds, BusyHasKey
<1>2. req' \in [Requests -> RequestType]
  BY <1>1, AnswerTyped DEF LoadEnds
<1>3. PICK gone \in Evictions(req[r].key) : Stored(r, req[r].key, gone)
  BY DEF LoadEnds
<1>4. DOMAIN cache' \subseteq Keys /\ cache' \in [DOMAIN cache' -> EntryType]
  <2>1. [value |-> req[r].value, over |-> FALSE] \in EntryType
    BY <1>1 DEF EntryType
  <2> QED
    BY <1>1, <1>3, <2>1 DEF Stored, CacheTyped, With, Without
<1>5. DOMAIN lock' \subseteq Keys /\ lock' \in [DOMAIN lock' -> Nat]
  BY <1>3, WithoutTyped DEF Stored, CacheTyped
<1>6. dropped' \subseteq Keys
  BY <1>3 DEF Stored, StillUsed, InUse, CacheTyped
<1> QED
  BY <1>2, <1>4, <1>5, <1>6 DEF LoadEnds, Answer, CacheTyped, BusyHasKey

LEMMA ExpiryStep ==
  ASSUME CInv, NEW k \in Keys, Expires(k)
  PROVE  CInv'
<1>1. cache' \in [DOMAIN cache -> EntryType] /\ DOMAIN cache' = DOMAIN cache
  BY DEF CInv, CacheTyped, Expires, Live, EntryType
<1> QED
  BY <1>1 DEF CInv, CacheTyped, BusyHasKey, Expires

LEMMA ClearStep ==
  ASSUME CInv, Clears
  PROVE  CInv'
<1>1. DOMAIN cache' \subseteq Keys /\ cache' \in [DOMAIN cache' -> EntryType]
  BY WithoutTyped DEF CInv, CacheTyped, Clears
<1>2. DOMAIN lock' \subseteq Keys /\ lock' \in [DOMAIN lock' -> Nat]
  BY WithoutTyped DEF CInv, CacheTyped, Clears
<1> QED
  BY <1>1, <1>2 DEF CInv, CacheTyped, BusyHasKey, Clears, InUse

-----------------------------------------------------------------------------
(* The cache never holds more than one entry above its limit: a store      *)
(* evicts down to the limit, then adds its own.                            *)

LEMMA EvictionsSuffice ==
  ASSUME CacheTyped, NEW k \in Keys, NEW gone \in Evictions(k)
  PROVE  /\ IsFiniteSet(DOMAIN cache \ gone)
         /\ Cardinality(DOMAIN cache \ gone) <= MaxEntries
<1> DEFINE over  == {j \in DOMAIN cache \ {k} : cache[j].over}
           rest  == DOMAIN cache \ over
           extra == Cardinality(rest) - MaxEntries
<1>1. PICK more \in SUBSET (rest \ {k}) :
        gone = over \cup more /\ Cardinality(more) = IF extra > 0 THEN extra ELSE 0
  BY DEF Evictions
<1>2. IsFiniteSet(rest)
  <2>1. rest \subseteq Keys
    BY DEF CacheTyped
  <2> QED
    BY <2>1, FS_Subset, CacheAssumption
<1>3. DOMAIN cache \ gone = rest \ more /\ rest \cap more = more
  BY <1>1
<1> HIDE DEF over, rest
<1>4. /\ IsFiniteSet(rest \ more)
      /\ Cardinality(rest \ more) = Cardinality(rest) - Cardinality(more)
  BY <1>2, <1>3, FS_Difference
<1>5. Cardinality(rest) \in Nat /\ MaxEntries \in Nat
  BY <1>2, FS_CardinalityType, CacheAssumption
<1>6. Cardinality(rest \ more) <= MaxEntries
  BY <1>1, <1>4, <1>5
<1> QED
  BY <1>3, <1>4, <1>6

LEMMA StoreBounded ==
  ASSUME CInv, NEW r \in Requests, LoadEnds(r)
  PROVE  Bounded'
<1> DEFINE k == req[r].key
<1>1. k \in Keys
  BY CacheFields DEF CInv, BusyHasKey, LoadEnds
<1>2. PICK gone \in Evictions(k) : Stored(r, k, gone)
  BY DEF LoadEnds
<1> DEFINE kept == DOMAIN cache \ gone
<1>3. IsFiniteSet(kept) /\ Cardinality(kept) <= MaxEntries
  BY <1>1, EvictionsSuffice DEF CInv
<1>4. DOMAIN cache' = kept \cup {k}
  BY <1>2 DEF Stored, With, Without
<1>5. Cardinality(kept) \in Nat /\ MaxEntries \in Nat
  BY <1>3, FS_CardinalityType, CacheAssumption
<1> HIDE DEF kept, k
<1>6. Cardinality(kept \cup {k}) <= MaxEntries + 1
  BY <1>3, <1>5, FS_AddElement
<1> QED
  BY <1>4, <1>6 DEF Bounded

LEMMA ClearBounded == ASSUME Clears, CInv PROVE Bounded'
<1>1. DOMAIN cache' = {}
  BY DEF Clears, Without, CInv, CacheTyped
<1> QED
  BY <1>1, FS_EmptySet, CacheAssumption DEF Bounded

-----------------------------------------------------------------------------
(* Recency.  What is stored or being loaded is as of the last write, but   *)
(* for a key that was crossed by one; and a loader has seen every write    *)
(* before its own request.                                                 *)
Recent ==
  /\ \A k \in DOMAIN cache : k \notin crossed => cache[k].value = version
  /\ \A r \in Requests :
       /\ req[r].floor <= version
       /\ req[r].pc = "loading" =>
            /\ req[r].value >= req[r].floor
            /\ req[r].key \notin crossed => req[r].value = version
  /\ AnswerIsRecent

LEMMA RecentInit == Init => Recent
  BY DEF Init, CacheInit, Recent, AnswerIsRecent, NoCall

LEMMA RecentCall ==
  ASSUME CInv, Recent, NEW r \in Requests, NEW k \in Keys, Hit(r, k) \/ Miss(r, k)
  PROVE  Recent'
<1> USE DEF CInv
<1>1. version \in Nat /\ req \in [Requests -> RequestType]
  BY DEF CacheTyped
<1>2. CASE Hit(r, k)
  <2>1. /\ req'[r].pc = "answered" /\ req'[r].floor = version
        /\ req'[r].value = cache[k].value /\ req'[r].excused = (k \in crossed)
    BY <1>1, <1>2 DEF Hit, Called
  <2>2. \A s \in Requests \ {r} : req'[s] = req[s]
    BY <1>1, <1>2 DEF Hit, Called
  <2>3. k \notin crossed => cache[k].value = version
    BY <1>2 DEF Hit, Live, Recent
  <2>4. ~req'[r].excused => req'[r].value >= req'[r].floor
    <3>1. ~req'[r].excused => k \notin crossed
      BY <2>1, Zenon
    <3> QED
      BY <1>1, <2>1, <2>3, <3>1
  <2>5. AnswerIsRecent'
    BY <2>2, <2>4 DEF Recent, AnswerIsRecent
  <2> QED
    BY <1>1, <1>2, <2>1, <2>2, <2>5 DEF Hit, Recent
<1>3. CASE Miss(r, k)
  BY <1>1, <1>3, CacheFields DEF Miss, Called, Recent, AnswerIsRecent
<1> QED
  BY <1>2, <1>3

LEMMA RecentWaiter ==
  ASSUME CInv, Recent, NEW r \in Requests,
         HitAfterWait(r) \/ LoadAfterWait(r) \/ LoadFails(r)
  PROVE  Recent'
<1> USE DEF CInv
<1>1. version \in Nat /\ req \in [Requests -> RequestType]
  BY DEF CacheTyped
<1>2. CASE HitAfterWait(r)
  <2> DEFINE k == req[r].key
  <2>1. /\ req'[r].pc = "answered" /\ req'[r].floor = req[r].floor
        /\ req'[r].value = cache[k].value /\ req'[r].excused = (k \in crossed)
    BY <1>1, <1>2 DEF HitAfterWait, Answer
  <2>2. \A s \in Requests \ {r} : req'[s] = req[s]
    BY <1>1, <1>2 DEF HitAfterWait, Answer
  <2>3. k \notin crossed => cache[k].value = version
    BY <1>2 DEF HitAfterWait, Live, Recent
  <2>4. req[r].floor <= version /\ req[r].floor \in Nat
    BY CacheFields DEF Recent
  <2>5. ~req'[r].excused => req'[r].value >= req'[r].floor
    BY <1>1, <2>1, <2>3, <2>4
  <2>6. AnswerIsRecent'
    BY <2>2, <2>5 DEF Recent, AnswerIsRecent
  <2> QED
    BY <1>1, <1>2, <2>1, <2>2, <2>4, <2>6 DEF HitAfterWait, Recent
<1>3. CASE LoadAfterWait(r)
  BY <1>1, <1>3, CacheFields DEF LoadAfterWait, Granted, Recent, AnswerIsRecent
<1>4. CASE LoadFails(r)
  BY <1>1, <1>4, CacheFields DEF LoadFails, NoCall, Recent, AnswerIsRecent
<1> QED
  BY <1>2, <1>3, <1>4

LEMMA RecentStore ==
  ASSUME CInv, Recent, NEW r \in Requests, LoadEnds(r)
  PROVE  Recent'
<1> USE DEF CInv
<1>1. version \in Nat /\ req \in [Requests -> RequestType]
  BY DEF CacheTyped
<1>2. PICK gone \in Evictions(req[r].key) : Stored(r, req[r].key, gone)
  BY DEF LoadEnds
<1>3. req[r].key \notin crossed => req[r].value = version
  BY DEF LoadEnds, Recent
<1>4. \A k \in DOMAIN cache' : k \notin crossed' => cache'[k].value = version'
  BY <1>2, <1>3 DEF Stored, With, Without, LoadEnds, Recent
<1>5. /\ \A s \in Requests :
            /\ req'[s].floor <= version'
            /\ req'[s].pc = "loading" =>
                 /\ req'[s].value >= req'[s].floor
                 /\ req'[s].key \notin crossed' => req'[s].value = version'
      /\ AnswerIsRecent'
  BY <1>1, CacheFields DEF LoadEnds, Answer, Recent, AnswerIsRecent
<1> QED
  BY <1>4, <1>5 DEF Recent

LEMMA RecentClear ==
  ASSUME CInv, Recent, Clears
  PROVE  Recent'
<1>1. version \in Nat /\ DOMAIN cache \subseteq Keys
  BY DEF CInv, CacheTyped
<1>2. DOMAIN cache' = {}
  BY <1>1 DEF Clears, Without
<1>3. \A r \in Requests : req[r].pc = "loading" => req[r].key \in crossed'
  BY DEF Clears, Loaders, CInv, BusyHasKey
<1> QED
  BY <1>1, <1>2, <1>3, CacheFields DEF Clears, Recent, AnswerIsRecent, CInv

LEMMA RecentExpiry ==
  ASSUME CInv, Recent, NEW k \in Keys, Expires(k)
  PROVE  Recent'
<1>1. \A j \in DOMAIN cache : cache'[j].value = cache[j].value
  BY DEF Expires, Live, CInv, CacheTyped, EntryType
<1>2. DOMAIN cache' = DOMAIN cache
  BY DEF Expires
<1> QED
  BY <1>1, <1>2 DEF Expires, Recent, AnswerIsRecent

-----------------------------------------------------------------------------
(* Locks.  A request of a key whose lock was not forgotten in use holds or *)
(* awaits the key's lock, and no two requests load under one lock.         *)
Busy(r) == req[r].pc \in {"waiting", "loading"}

OwnLock ==
  \A r \in Requests :
    Busy(r) /\ req[r].key \notin dropped =>
      req[r].key \in DOMAIN lock /\ req[r].lock = lock[req[r].key]
Exclusive ==
  \A r, s \in Requests :
    req[r].pc = "loading" /\ req[s].pc = "loading" /\ r # s => req[r].lock # req[s].lock
Minted ==
  /\ \A r \in Requests : req[r].lock <= minted
  /\ \A k \in DOMAIN lock : lock[k] <= minted

LockInv == OwnLock /\ Exclusive /\ Minted

LEMMA LockInit == Init => LockInv
  BY DEF Init, CacheInit, LockInv, OwnLock, Exclusive, Minted, Busy, NoCall

LEMMA LockGivesOneLoader == ASSUME LockInv PROVE OneLoader
<1> SUFFICES ASSUME NEW k \in Keys \ dropped PROVE Cardinality(Loaders(k)) <= 1
  BY DEF OneLoader
<1>1. \A r, s \in Loaders(k) : r = s
  BY DEF LockInv, OwnLock, Exclusive, Busy, Loaders
<1>2. CASE Loaders(k) = {}
  BY <1>2, FS_EmptySet
<1>3. CASE Loaders(k) # {}
  <2>1. PICK r : Loaders(k) = {r}
    BY <1>1, <1>3
  <2> QED
    BY <2>1, FS_Singleton
<1> QED
  BY <1>2, <1>3

LEMMA LockCall ==
  ASSUME CInv, LockInv, NEW r \in Requests, NEW k \in Keys, Hit(r, k) \/ Miss(r, k)
  PROVE  LockInv'
<1>1. /\ req \in [Requests -> RequestType] /\ minted \in Nat
      /\ \A s \in Requests : req[s].lock \in Nat
      /\ \A j \in DOMAIN lock : lock[j] \in Nat
  BY CacheFields DEF CInv, CacheTyped
<1>2. ~Busy(r)
  BY DEF Hit, Miss, Call, Busy
<1>3. CASE Hit(r, k)
  BY <1>1, <1>2, <1>3 DEF Hit, Called, LockInv, OwnLock, Exclusive, Minted, Busy
<1>4. CASE Miss(r, k) /\ k \in DOMAIN lock
  <2>1. /\ req'[r].key = k /\ req'[r].lock = lock[k]
        /\ req'[r].pc = "loading" => Users(lock[k]) = {}
    BY <1>1, <1>4 DEF Miss, Called
  <2>2. \A s \in Requests \ {r} : req'[s] = req[s]
    BY <1>1, <1>4 DEF Miss, Called
  <2>3. lock' = lock /\ minted' = minted /\ dropped' = dropped
    BY <1>4 DEF Miss
  <2>4. OwnLock' /\ Minted'
    BY <1>4, <2>1, <2>2, <2>3 DEF LockInv, OwnLock, Minted, Busy
  <2>5. Exclusive'
    BY <2>1, <2>2, <2>3 DEF LockInv, Exclusive, Users
  <2> QED
    BY <2>4, <2>5 DEF LockInv
<1>5. CASE Miss(r, k) /\ k \notin DOMAIN lock
  <2>1. req'[r].key = k /\ req'[r].lock = minted + 1
    BY <1>1, <1>5 DEF Miss, Called
  <2>2. \A s \in Requests \ {r} : req'[s] = req[s]
    BY <1>1, <1>5 DEF Miss, Called
  <2>3. /\ DOMAIN lock' = DOMAIN lock \cup {k} /\ lock'[k] = minted + 1
        /\ \A j \in DOMAIN lock : lock'[j] = lock[j]
    BY <1>5 DEF Miss, With
  <2>4. minted' = minted + 1 /\ dropped' = dropped
    BY <1>5 DEF Miss
  <2>5. OwnLock'
    BY <1>5, <2>1, <2>2, <2>3, <2>4 DEF LockInv, OwnLock, Busy
  <2>6. Minted'
    BY <1>1, <2>1, <2>2, <2>3, <2>4 DEF LockInv, Minted
  <2>7. Exclusive'
    BY <1>1, <2>1, <2>2 DEF LockInv, Exclusive, Minted
  <2> QED
    BY <2>5, <2>6, <2>7 DEF LockInv
<1> QED
  BY <1>3, <1>4, <1>5

(* Who leaves may end the use of a forgotten lock: the key is no longer    *)
(* dropped when nobody is left.                                            *)
LEMMA LockWaiter ==
  ASSUME CInv, LockInv, NEW r \in Requests,
         HitAfterWait(r) \/ LoadAfterWait(r) \/ LoadFails(r)
  PROVE  LockInv'
<1>1. /\ req \in [Requests -> RequestType] /\ minted \in Nat
      /\ \A s \in Requests : req[s].lock \in Nat
  BY CacheFields DEF CInv, CacheTyped
<1>2. lock' = lock /\ minted' = minted
  BY DEF HitAfterWait, LoadAfterWait, LoadFails
<1>3. CASE LoadAfterWait(r)
  <2>1. /\ req'[r].key = req[r].key /\ req'[r].lock = req[r].lock /\ Busy(r)
        /\ \A s \in Requests \ {r} : req'[s] = req[s]
    BY <1>1, <1>3 DEF LoadAfterWait, Granted, Busy
  <2>2. \A s \in Requests : req[s].pc = "loading" => req[s].lock # req[r].lock
    BY <1>3 DEF LoadAfterWait, Granted, Users
  <2>3. dropped' = dropped
    BY <1>3 DEF LoadAfterWait
  <2> QED
    BY <1>2, <2>1, <2>2, <2>3 DEF LockInv, OwnLock, Exclusive, Minted, Busy
<1>4. CASE HitAfterWait(r) \/ LoadFails(r)
  <2>1. /\ req'[r].pc \in {"idle", "answered"} /\ req'[r].lock = 0
        /\ \A s \in Requests \ {r} : req'[s] = req[s]
    <3>1. CASE HitAfterWait(r)
      BY <1>1, <3>1 DEF HitAfterWait, Answer
    <3>2. CASE LoadFails(r)
      BY <1>1, <3>2 DEF LoadFails, NoCall
    <3> QED
      BY <1>4, <3>1, <3>2
  <2>2. \A s \in Requests \ {r} : Busy(s) /\ req[s].key \in dropped => req[s].key \in dropped'
    BY <1>4, <2>1 DEF HitAfterWait, LoadFails, StillUsed, InFlight, Busy
  <2>3. OwnLock'
    BY <1>2, <2>1, <2>2 DEF LockInv, OwnLock, Busy
  <2> QED
    BY <1>1, <1>2, <2>1, <2>3 DEF LockInv, Exclusive, Minted
<1> QED
  BY <1>3, <1>4

LEMMA LockStore ==
  ASSUME CInv, LockInv, NEW r \in Requests, LoadEnds(r)
  PROVE  LockInv'
<1>1. /\ req \in [Requests -> RequestType] /\ minted \in Nat
      /\ req[r].key \in Keys
  BY CacheFields DEF CInv, CacheTyped, BusyHasKey, LoadEnds
<1>2. /\ req'[r].pc = "answered" /\ req'[r].lock = 0
      /\ \A s \in Requests \ {r} : req'[s] = req[s]
  BY <1>1 DEF LoadEnds, Answer
<1>3. PICK gone \in Evictions(req[r].key) : Stored(r, req[r].key, gone)
  BY DEF LoadEnds
<1>4. /\ DOMAIN lock' = DOMAIN lock \ gone
      /\ \A k \in DOMAIN lock' : lock'[k] = lock[k]
  BY <1>3 DEF Stored, Without
<1>5. minted' = minted
  BY DEF LoadEnds
<1>6. \A s \in Requests \ {r} : Busy(s) /\ req[s].key \notin dropped' =>
        req[s].key \notin dropped /\ req[s].key \notin InUse(gone)
  BY <1>2, <1>3 DEF Stored, StillUsed, InFlight, Busy
<1>7. \A s \in Requests \ {r} : Busy(s) /\ req[s].key \notin dropped' =>
        req[s].key \in DOMAIN lock' /\ req[s].lock = lock[req[s].key]
  BY <1>4, <1>6 DEF LockInv, OwnLock, InUse, Users, Busy
<1>8. OwnLock'
  BY <1>2, <1>4, <1>7 DEF OwnLock, Busy
<1> QED
  BY <1>1, <1>2, <1>4, <1>5, <1>8 DEF LockInv, Exclusive, Minted

LEMMA LockClear ==
  ASSUME CInv, LockInv, Clears
  PROVE  LockInv'
<1>1. DOMAIN lock' = {} /\ req' = req /\ minted' = minted
  BY DEF Clears, Without, CInv, CacheTyped
<1>2. \A r \in Requests : Busy(r) => req[r].key \in dropped'
  BY DEF Clears, InUse, Users, Busy, LockInv, OwnLock, CInv, BusyHasKey
<1> QED
  BY <1>1, <1>2 DEF LockInv, OwnLock, Exclusive, Minted, Busy

LEMMA LockExpiry ==
  ASSUME LockInv, NEW k \in Keys, Expires(k)
  PROVE  LockInv'
  BY DEF Expires, LockInv, OwnLock, Exclusive, Minted, Busy

-----------------------------------------------------------------------------
(* The cache as a whole: a step of its own, a write, or neither. *)
CacheInv == CInv /\ Bounded /\ Recent /\ LockInv

LEMMA CacheInvInit == Init => CacheInv
<1> SUFFICES ASSUME Init PROVE CacheInv
  OBVIOUS
<1>1. DOMAIN cache = {}
  BY DEF Init, CacheInit
<1>2. Bounded
  BY <1>1, FS_EmptySet, CacheAssumption DEF Bounded
<1> QED
  BY <1>2, InitTyped, RecentInit, LockInit DEF CacheInv

LEMMA CacheInvStep ==
  ASSUME CacheInv, CacheNext
  PROVE  CacheInv'
<1> USE DEF CacheInv
<1>1. ASSUME NEW r \in Requests, NEW k \in Keys, Hit(r, k) \/ Miss(r, k) PROVE CacheInv'
  <2>1. Bounded'
    BY <1>1 DEF Bounded, Hit, Miss
  <2> QED
    BY <1>1, <2>1, CallStep, RecentCall, LockCall
<1>2. ASSUME NEW r \in Requests, HitAfterWait(r) \/ LoadAfterWait(r) \/ LoadFails(r)
      PROVE  CacheInv'
  <2>1. Bounded'
    BY <1>2 DEF Bounded, HitAfterWait, LoadAfterWait, LoadFails
  <2> QED
    BY <1>2, <2>1, WaiterStep, RecentWaiter, LockWaiter
<1>3. ASSUME NEW r \in Requests, LoadEnds(r) PROVE CacheInv'
  BY <1>3, StoreStep, StoreBounded, RecentStore, LockStore
<1>4. ASSUME NEW k \in Keys, Expires(k) PROVE CacheInv'
  <2>1. Bounded'
    BY <1>4 DEF Bounded, Expires
  <2> QED
    BY <1>4, <2>1, ExpiryStep, RecentExpiry, LockExpiry
<1> QED
  BY <1>1, <1>2, <1>3, <1>4 DEF CacheNext

LEMMA CacheInvClear ==
  ASSUME CacheInv, Clears
  PROVE  CacheInv'
  BY ClearStep, ClearBounded, RecentClear, LockClear DEF CacheInv

LEMMA CacheInvStutter ==
  ASSUME CacheInv, UNCHANGED cacheVars
  PROVE  CacheInv'
<1>1. /\ cache' = cache /\ lock' = lock /\ req' = req /\ minted' = minted
      /\ version' = version /\ crossed' = crossed /\ dropped' = dropped /\ calls' = calls
  BY DEF cacheVars
<1>2. CInv' /\ Bounded'
  BY <1>1 DEF CacheInv, CInv, CacheTyped, BusyHasKey, Bounded
<1>3. Recent'
  BY <1>1 DEF CacheInv, Recent, AnswerIsRecent
<1>4. LockInv'
  BY <1>1 DEF CacheInv, LockInv, OwnLock, Exclusive, Minted, Busy
<1> QED
  BY <1>2, <1>3, <1>4 DEF CacheInv

-----------------------------------------------------------------------------
(* The instances.  A scanner's instance never runs; strategies are         *)
(* numbered as they are made.                                              *)
Numbered == \A s \in alive : s.n <= made
ScannersRest == \A i \in Scanners : status[i] # "running"
ManagerInv == ManagerTyped /\ Numbered /\ ScannersRest /\ OnlyScannersLeak

LEMMA ManagerInit == Init => ManagerInv
<1> SUFFICES ASSUME Init PROVE ManagerInv
  OBVIOUS
<1>1. alive = {} /\ \A i \in Instances : status[i] # "running"
  BY DEF Init
<1> QED
  BY <1>1, InitTyped, ManagerAssumption DEF ManagerInv, Numbered, ScannersRest, OnlyScannersLeak

LEMMA ManagerStutter ==
  ASSUME ManagerInv, UNCHANGED <<managerVars, writes>>
  PROVE  ManagerInv'
  BY DEF ManagerInv, ManagerTyped, Numbered, ScannersRest, OnlyScannersLeak, managerVars

LEMMA CreatePreserves ==
  ASSUME ManagerInv, NEW i \in Instances, CreateInstance(i)
  PROVE  ManagerInv'
  BY DEF CreateInstance, Operates, Present, ManagerInv, ManagerTyped, Numbered, ScannersRest,
         OnlyScannersLeak, Strategy

(* A new strategy has a number of its own. *)
LEMMA MakesTyped ==
  ASSUME ManagerInv, NEW i \in Instances, Makes(i)
  PROVE  /\ made' = made + 1 /\ made \in Nat
         /\ alive' = alive \cup {[of |-> i, n |-> made + 1]}
         /\ alive' \subseteq Strategy
         /\ Numbered'
  BY DEF Makes, ManagerInv, ManagerTyped, Numbered, Strategy

LEMMA StartPreserves ==
  ASSUME ManagerInv, NEW i \in Instances, StartInstance(i) \/ StartScanner(i)
  PROVE  ManagerInv'
<1> USE DEF ManagerInv
<1>1. writes' \in Nat
  BY DEF StartInstance, StartScanner, Operates, ManagerTyped
<1>2. CASE StartInstance(i) /\ status[i] = "running"
  BY <1>1, <1>2 DEF StartInstance, managerVars, ManagerTyped, Numbered, ScannersRest,
                    OnlyScannersLeak
<1>3. CASE StartInstance(i) /\ status[i] # "running"
  <2>1. /\ Makes(i) /\ held' = [held EXCEPT ![i] = made']
        /\ status' = [status EXCEPT ![i] = "running"] /\ i \notin Scanners
    BY <1>3 DEF StartInstance
  <2>2. \A s \in alive : s.of \notin Scanners => s.of # i
    BY <1>3 DEF OnlyScannersLeak
  <2>3. OnlyScannersLeak'
    BY <2>1, <2>2, MakesTyped DEF OnlyScannersLeak, ManagerTyped, Strategy
  <2>4. ManagerTyped' /\ ScannersRest'
    BY <1>1, <2>1, MakesTyped, ManagerAssumption DEF ManagerTyped, ScannersRest
  <2> QED
    BY <2>1, <2>3, <2>4, MakesTyped
<1>4. CASE StartScanner(i)
  <2>1. Makes(i) /\ held' = held /\ status' = status /\ i \in Scanners
    BY <1>4 DEF StartScanner
  <2> QED
    BY <1>1, <2>1, MakesTyped DEF OnlyScannersLeak, ManagerTyped, ScannersRest
<1> QED
  BY <1>2, <1>3, <1>4

LEMMA StopPreserves ==
  ASSUME ManagerInv, NEW i \in Instances, StopInstance(i) \/ DeleteInstance(i)
  PROVE  ManagerInv'
<1> USE DEF ManagerInv
<1> DEFINE own == [of |-> i, n |-> held[i]]
<1>1. PICK st \in {"absent", "stopped"} : status' = [status EXCEPT ![i] = st]
  BY DEF StopInstance, DeleteInstance
<1>2. /\ alive' \subseteq alive /\ alive \ alive' \subseteq {own}
      /\ held' \in [Instances -> Nat] /\ \A j \in Instances \ {i} : held'[j] = held[j]
      /\ made' = made /\ writes' \in Nat
  BY DEF StopInstance, DeleteInstance, Stopped, Operates, ManagerTyped
<1>3. \A s \in alive' : s.of \notin Scanners => s.of # i
  <2> SUFFICES ASSUME NEW s \in alive', s.of \notin Scanners, s.of = i PROVE FALSE
    OBVIOUS
  <2>1. s \in alive /\ status[i] = "running" /\ s.n = held[i] /\ s \in Strategy
    BY <1>2 DEF OnlyScannersLeak, ManagerTyped
  <2>2. s = own
    BY <2>1 DEF Strategy
  <2>3. alive' = alive \ {own}
    BY <2>1 DEF StopInstance, DeleteInstance, Stopped
  <2> QED
    BY <2>2, <2>3
<1>4. OnlyScannersLeak'
  BY <1>1, <1>2, <1>3 DEF OnlyScannersLeak, ManagerTyped, Strategy
<1> QED
  BY <1>1, <1>2, <1>4, ManagerAssumption DEF ManagerTyped, Numbered, ScannersRest

-----------------------------------------------------------------------------
IInv == CacheInv /\ ManagerInv

LEMMA StepIInv == IInv /\ [Next]_vars => IInv'
<1> SUFFICES ASSUME IInv, [Next]_vars PROVE IInv'
  OBVIOUS
<1> USE DEF IInv
<1>1. ASSUME NEW i \in Instances, CreateInstance(i) PROVE IInv'
  BY <1>1, CreatePreserves, CacheInvClear DEF CreateInstance
<1>2. ASSUME NEW i \in Instances, StartInstance(i) PROVE IInv'
  BY <1>2, StartPreserves, CacheInvClear DEF StartInstance
<1>3. ASSUME NEW i \in Instances, StartScanner(i) PROVE IInv'
  <2>1. UNCHANGED cacheVars
    BY <1>3 DEF StartScanner
  <2> QED
    BY <1>3, <2>1, StartPreserves, CacheInvStutter
<1>4. ASSUME NEW i \in Instances, StopInstance(i) \/ DeleteInstance(i) PROVE IInv'
  BY <1>4, StopPreserves, CacheInvClear DEF StopInstance, DeleteInstance
<1>5. CASE CacheNext /\ UNCHANGED <<managerVars, writes>>
  BY <1>5, CacheInvStep, ManagerStutter
<1>6. CASE UNCHANGED vars
  BY <1>6, CacheInvStutter, ManagerStutter DEF vars
<1> QED
  BY <1>1, <1>2, <1>3, <1>4, <1>5, <1>6 DEF Next, Operations

LEMMA Invariance == Spec => []IInv
<1>1. Init => IInv
  BY CacheInvInit, ManagerInit DEF IInv
<1> QED
  BY <1>1, StepIInv, PTL DEF Spec

(* Types, and the bound of the cache: one entry above                      *)
(* _API_RESPONSE_CACHE_MAX_ENTRIES.                                        *)
THEOREM TypeSafety == Spec => []TypeOK
<1>1. IInv => TypeOK
  BY TypeParts DEF IInv, CacheInv, CInv, ManagerInv
<1> QED
  BY <1>1, Invariance, PTL

(* cached_api_response: an answer shows every write that was over when the *)
(* request came, unless its key was being loaded at a write.               *)
THEOREM Recency == Spec => []AnswerIsRecent
<1>1. IInv => AnswerIsRecent
  BY DEF IInv, CacheInv, Recent
<1> QED
  BY <1>1, Invariance, PTL

(* cached_api_response: one loader of a key at a time, unless its lock was *)
(* forgotten while in use.                                                 *)
THEOREM SingleLoader == Spec => []OneLoader
<1>1. IInv => OneLoader
  BY LockGivesOneLoader DEF IInv, CacheInv
<1> QED
  BY <1>1, Invariance, PTL

(* StrategyManagerService: only scanners run unheld. *)
THEOREM StrategiesAreHeld == Spec => []OnlyScannersLeak
<1>1. IInv => OnlyScannersLeak
  BY DEF IInv, ManagerInv
<1> QED
  BY <1>1, Invariance, PTL
=============================================================================
