---------------------------- MODULE BookLogProofs ----------------------------
(***************************************************************************)
(* Proofs about BookLog, for any buffer, readers and failures: the log     *)
(* accounts for every event, a read sees what was logged before it, and    *)
(* what it holds is in order unless something was lost or flushes met.     *)
(***************************************************************************)
EXTENDS BookLog, FiniteSetTheorems, TLAPS

Simple(s) == \A m, n \in DOMAIN s : s[m] = s[n] => m = n

LEMMA InSeqEmpty == InSeq(<<>>) = {} /\ Simple(<<>>)
  BY DEF InSeq, Simple

LEMMA InSeqAppend ==
  ASSUME NEW S, NEW s \in Seq(S), NEW x \in S
  PROVE  /\ InSeq(Append(s, x)) = InSeq(s) \cup {x}
         /\ Simple(s) /\ x \notin InSeq(s) => Simple(Append(s, x))
<1>1. /\ Append(s, x) \in Seq(S) /\ Len(Append(s, x)) = Len(s) + 1
      /\ \A n \in 1..Len(s) : Append(s, x)[n] = s[n]
      /\ Append(s, x)[Len(s) + 1] = x
  OBVIOUS
<1>2. DOMAIN s = 1..Len(s) /\ DOMAIN Append(s, x) = 1..(Len(s) + 1) /\ Len(s) \in Nat
  BY <1>1
<1> QED
  BY <1>1, <1>2 DEF InSeq, Simple

LEMMA InSeqConcat ==
  ASSUME NEW s \in Seq(Nat), NEW t \in Seq(Nat)
  PROVE  /\ s \o t \in Seq(Nat)
         /\ InSeq(s \o t) = InSeq(s) \cup InSeq(t)
         /\ Simple(s) /\ Simple(t) /\ InSeq(s) \cap InSeq(t) = {} => Simple(s \o t)
<1> DEFINE u == s \o t
<1>1. /\ u \in Seq(Nat) /\ Len(u) = Len(s) + Len(t)
      /\ \A n \in 1..Len(s) : u[n] = s[n]
      /\ \A n \in (Len(s) + 1)..(Len(s) + Len(t)) : u[n] = t[n - Len(s)]
  OBVIOUS
<1>2. /\ DOMAIN s = 1..Len(s) /\ DOMAIN t = 1..Len(t) /\ DOMAIN u = 1..(Len(s) + Len(t))
      /\ Len(s) \in Nat /\ Len(t) \in Nat
  BY <1>1
<1>3. \A n \in 1..Len(t) : n + Len(s) \in DOMAIN u /\ u[n + Len(s)] = t[n]
  BY <1>1, <1>2
<1>4. \A n \in DOMAIN u : \/ n \in DOMAIN s /\ u[n] = s[n]
                          \/ n - Len(s) \in DOMAIN t /\ n > Len(s) /\ u[n] = t[n - Len(s)]
  BY <1>1, <1>2
<1> HIDE DEF u
<1>5. InSeq(u) = InSeq(s) \cup InSeq(t)
  <2>1. ASSUME NEW n \in DOMAIN s PROVE s[n] \in InSeq(u)
    BY <1>1, <1>2 DEF InSeq
  <2>2. ASSUME NEW n \in DOMAIN t PROVE t[n] \in InSeq(u)
    BY <1>2, <1>3 DEF InSeq
  <2>3. ASSUME NEW n \in DOMAIN u PROVE u[n] \in InSeq(s) \cup InSeq(t)
    BY <1>4 DEF InSeq
  <2> QED
    BY <2>1, <2>2, <2>3 DEF InSeq
<1>6. ASSUME Simple(s), Simple(t), InSeq(s) \cap InSeq(t) = {} PROVE Simple(u)
  <2> SUFFICES ASSUME NEW m \in DOMAIN u, NEW n \in DOMAIN u, u[m] = u[n] PROVE m = n
    BY DEF Simple
  <2>1. CASE m \in DOMAIN s /\ u[m] = s[m] /\ n \in DOMAIN s /\ u[n] = s[n]
    BY <2>1, <1>6 DEF Simple
  <2>2. CASE /\ m - Len(s) \in DOMAIN t /\ u[m] = t[m - Len(s)]
             /\ n - Len(s) \in DOMAIN t /\ u[n] = t[n - Len(s)]
    <3>1. m - Len(s) = n - Len(s)
      BY <2>2, <1>6, Zenon DEF Simple
    <3>2. m \in Int /\ n \in Int /\ Len(s) \in Int
      BY <1>2
    <3> QED
      BY <3>1, <3>2
  <2>3. \A i \in DOMAIN s, j \in DOMAIN t : s[i] # t[j]
    BY <1>6 DEF InSeq
  <2>4. CASE /\ m \in DOMAIN s /\ u[m] = s[m]
             /\ n - Len(s) \in DOMAIN t /\ u[n] = t[n - Len(s)]
    BY <2>3, <2>4
  <2>5. CASE /\ n \in DOMAIN s /\ u[n] = s[n]
             /\ m - Len(s) \in DOMAIN t /\ u[m] = t[m - Len(s)]
    BY <2>3, <2>5
  <2>6. /\ \/ m \in DOMAIN s /\ u[m] = s[m]
           \/ m - Len(s) \in DOMAIN t /\ u[m] = t[m - Len(s)]
        /\ \/ n \in DOMAIN s /\ u[n] = s[n]
           \/ n - Len(s) \in DOMAIN t /\ u[n] = t[n - Len(s)]
    BY <1>4
  <2> QED
    BY <2>1, <2>2, <2>4, <2>5, <2>6, Zenon
<1> QED
  BY <1>1, <1>5, <1>6 DEF u

LEMMA InSeqTail ==
  ASSUME NEW S, NEW s \in Seq(S), s # <<>>
  PROVE  /\ Tail(s) \in Seq(S) /\ Head(s) \in S /\ Len(Tail(s)) = Len(s) - 1
         /\ InSeq(s) = {Head(s)} \cup InSeq(Tail(s))
         /\ Simple(s) => Simple(Tail(s)) /\ Head(s) \notin InSeq(Tail(s))
<1>1. /\ Tail(s) \in Seq(S) /\ Head(s) = s[1] /\ Len(Tail(s)) = Len(s) - 1
      /\ Len(s) \in Nat \ {0}
      /\ \A n \in 1..(Len(s) - 1) : Tail(s)[n] = s[n + 1]
  OBVIOUS
<1>2. DOMAIN s = 1..Len(s) /\ DOMAIN Tail(s) = 1..(Len(s) - 1) /\ Head(s) \in S
  BY <1>1
<1>3. \A n \in DOMAIN s : n = 1 \/ (n - 1 \in DOMAIN Tail(s) /\ s[n] = Tail(s)[n - 1])
  BY <1>1, <1>2
<1>4. \A n \in DOMAIN Tail(s) : n + 1 \in DOMAIN s /\ Tail(s)[n] = s[n + 1]
  BY <1>1, <1>2
<1> DEFINE t == Tail(s)
<1> HIDE DEF t
<1>5. InSeq(s) = {Head(s)} \cup InSeq(t)
  <2>1. ASSUME NEW n \in DOMAIN s PROVE s[n] \in {Head(s)} \cup InSeq(t)
    BY <1>1, <1>3 DEF InSeq, t
  <2>2. ASSUME NEW n \in DOMAIN t PROVE t[n] \in InSeq(s)
    BY <1>4 DEF InSeq, t
  <2>3. Head(s) \in InSeq(s)
    BY <1>1, <1>2 DEF InSeq
  <2> QED
    BY <2>1, <2>2, <2>3 DEF InSeq
<1>6. ASSUME Simple(s) PROVE Simple(t) /\ Head(s) \notin InSeq(t)
  <2>1. \A n \in DOMAIN t : n + 1 \in DOMAIN s /\ t[n] = s[n + 1] /\ n \in Nat \ {0}
    BY <1>4, <1>2 DEF t
  <2>2. Simple(t)
    BY <2>1, <1>6 DEF Simple
  <2>3. \A n \in DOMAIN t : t[n] # s[1]
    BY <2>1, <1>6, <1>1, <1>2 DEF Simple
  <2> QED
    BY <2>2, <2>3, <1>1 DEF InSeq
<1> QED
  BY <1>1, <1>2, <1>5, <1>6 DEF t

LEMMA CountTo ==
  ASSUME NEW k \in Nat
  PROVE  IsFiniteSet(1..k) /\ Cardinality(1..k) = k
<1>1. Cardinality(1..k) = IF 1 > k THEN 0 ELSE k - 1 + 1
  BY FS_Interval
<1> QED
  BY <1>1, FS_Interval

LEMMA SimpleCounts ==
  ASSUME NEW s \in Seq(Nat), Simple(s)
  PROVE  IsFiniteSet(InSeq(s)) /\ Cardinality(InSeq(s)) = Len(s)
<1>1. DOMAIN s = 1..Len(s) /\ Len(s) \in Nat /\ s \in [1..Len(s) -> Nat]
  OBVIOUS
<1>2. s \in Bijection(1..Len(s), InSeq(s))
  BY <1>1 DEF Bijection, Injection, Surjection, IsInjective, InSeq, Simple
<1>3. ExistsBijection(1..Len(s), InSeq(s))
  BY <1>2 DEF ExistsBijection
<1>4. IsFiniteSet(1..Len(s)) /\ Cardinality(1..Len(s)) = Len(s)
  BY <1>1, CountTo
<1> QED
  BY <1>3, <1>4, FS_Bijection

-----------------------------------------------------------------------------
(* Every event is in one place: stored, in the buffer, in one batch, or    *)
(* gone, and it is there once.                                             *)
Partitioned ==
  /\ Simple(buffer) /\ Simple(stored) /\ \A f \in Flushers : Simple(batch[f])
  /\ InSeq(stored) \cap (Buffered \cup Gone) = {}
  /\ Buffered \cap Gone = {}
  /\ \A f \in Flushers : InSeq(buffer) \cap InSeq(batch[f]) = {}
  /\ \A f, g \in Flushers : f # g => InSeq(batch[f]) \cap InSeq(batch[g]) = {}
Covered == Numbers = InSeq(stored) \cup Buffered \cup Gone
Counted == IsFiniteSet(evicted) /\ dropped = Cardinality(evicted)
PlacesInv == LogTypeOK /\ Partitioned /\ Covered /\ Counted

LEMMA BufferedIs ==
  \A x : x \in Buffered <=> x \in InSeq(buffer) \/ \E f \in Flushers : x \in InSeq(batch[f])
  BY Zenon DEF Buffered

LEMMA BufferedNext ==
  \A x : x \in Buffered' <=> x \in InSeq(buffer)' \/ \E f \in Flushers : x \in InSeq(batch'[f])
  BY Zenon DEF Buffered, InSeq

LEMMA PlacesInit == LogInit => PlacesInv
<1> SUFFICES ASSUME LogInit PROVE PlacesInv
  OBVIOUS
<1>1. InSeq(stored) = {} /\ InSeq(buffer) = {} /\ \A f \in Flushers : InSeq(batch[f]) = {}
  BY InSeqEmpty DEF LogInit
<1>2. Buffered = {} /\ Gone = {} /\ Numbers = {}
  BY <1>1 DEF Buffered, Gone, Numbers, LogInit
<1>3. Partitioned
  BY <1>1, <1>2, InSeqEmpty DEF Partitioned, LogInit
<1>4. LogTypeOK
  <2>1. <<>> \in Seq(Nat) /\ Len(<<>>) = 0
    OBVIOUS
  <2>2. read \in [Readers -> ReadType]
    BY DEF LogInit, ReadType, NoRead
  <2>3. reads \in Nat /\ batch \in [Flushers -> Seq(Nat)]
    BY <2>1 DEF LogInit
  <2>4. Len(buffer) <= MaxBuffer /\ buffer \in Seq(Nat) /\ stored \in Seq(Nat)
    BY <2>1, LogAssumption DEF LogInit
  <2> QED
    BY <2>2, <2>3, <2>4 DEF LogTypeOK, LogInit
<1> QED
  BY <1>1, <1>2, <1>3, <1>4, FS_EmptySet DEF PlacesInv, Covered, Counted, LogInit

LEMMA EventTyped == LogTypeOK /\ LogEvent => LogTypeOK'
<1> SUFFICES ASSUME LogTypeOK, LogEvent PROVE LogTypeOK'
  OBVIOUS
<1>1. /\ Len(buffer) \in Nat /\ logged + 1 \in Nat /\ MaxBuffer \in Nat \ {0}
      /\ buffer \in Seq(Nat) /\ dropped \in Nat /\ evicted \in SUBSET Nat
      /\ Len(buffer) <= MaxBuffer /\ logged' = logged + 1
  BY LogAssumption DEF LogTypeOK, LogEvent
<1>2. /\ buffer' \in Seq(Nat) /\ Len(buffer') <= MaxBuffer
      /\ evicted' \in SUBSET Nat /\ dropped' \in Nat
  <2>1. CASE Len(buffer) < MaxBuffer
    <3>1. buffer' = Append(buffer, logged + 1) /\ dropped' = dropped /\ evicted' = evicted
      BY <2>1, <1>1 DEF LogEvent
    <3>2. Append(buffer, logged + 1) \in Seq(Nat) /\ Len(Append(buffer, logged + 1)) = Len(buffer) + 1
      BY <1>1
    <3> QED
      BY <2>1, <3>1, <3>2, <1>1
  <2>2. CASE ~(Len(buffer) < MaxBuffer)
    <3>1. buffer # <<>>
      BY <2>2, <1>1
    <3>2. Tail(buffer) \in Seq(Nat) /\ Len(Tail(buffer)) = Len(buffer) - 1 /\ Head(buffer) \in Nat
      BY <3>1, <1>1, InSeqTail
    <3>3. /\ buffer' = Append(Tail(buffer), logged + 1) /\ dropped' = dropped + 1
          /\ evicted' = evicted \cup {Head(buffer)}
      BY <2>2, <1>1 DEF LogEvent
    <3>4. /\ Append(Tail(buffer), logged + 1) \in Seq(Nat)
          /\ Len(Append(Tail(buffer), logged + 1)) = Len(buffer)
      BY <1>1, <3>2
    <3>5. buffer' \in Seq(Nat) /\ Len(buffer') <= MaxBuffer
      BY <3>3, <3>4, <1>1
    <3>6. dropped' \in Nat
      BY <3>3, <1>1
    <3>7. evicted \cup {Head(buffer)} \in SUBSET Nat
      BY <3>2, <1>1
    <3> QED
      BY <3>3, <3>5, <3>6, <3>7
  <2> QED
    BY <2>1, <2>2
<1> QED
  BY <1>1, <1>2 DEF LogEvent, LogTypeOK

(* What the arrival of an event does to the places. *)
LEMMA EventMoves ==
  ASSUME PlacesInv, LogEvent
  PROVE  \E out \in SUBSET InSeq(buffer) :
           /\ InSeq(buffer)' = (InSeq(buffer) \ out) \cup {logged + 1}
           /\ evicted' = evicted \cup out
           /\ Simple(buffer)' /\ Counted'
<1>1. /\ buffer \in Seq(Nat) /\ logged + 1 \in Nat /\ Simple(buffer)
      /\ IsFiniteSet(evicted) /\ dropped = Cardinality(evicted)
  BY DEF PlacesInv, Partitioned, Counted, LogTypeOK
<1>2. logged + 1 \notin InSeq(buffer) /\ InSeq(buffer) \cap evicted = {}
  <2>1. logged + 1 \notin Numbers
    BY DEF PlacesInv, LogTypeOK, Numbers
  <2> QED
    BY <2>1, BufferedIs DEF PlacesInv, Covered, Partitioned, Gone
<1>3. CASE Len(buffer) < MaxBuffer
  <2>1. buffer' = Append(buffer, logged + 1) /\ evicted' = evicted /\ dropped' = dropped
    BY <1>3 DEF LogEvent
  <2>4. InSeq(buffer') = InSeq(buffer) \cup {logged + 1} /\ Simple(buffer')
    BY <1>1, <1>2, <2>1, InSeqAppend
  <2>2. InSeq(buffer)' = (InSeq(buffer) \ {}) \cup {logged + 1} /\ Simple(buffer)'
    BY <2>4 DEF InSeq, Simple
  <2>3. {} \in SUBSET InSeq(buffer) /\ evicted' = evicted \cup {} /\ Counted'
    BY <1>1, <2>1 DEF Counted
  <2> QED
    BY <2>2, <2>3
<1>4. CASE ~(Len(buffer) < MaxBuffer)
  <2>1. buffer # <<>>
    BY <1>4, <1>1, LogAssumption
  <2>2. /\ buffer' = Append(Tail(buffer), logged + 1)
        /\ evicted' = evicted \cup {Head(buffer)} /\ dropped' = dropped + 1
    BY <1>4 DEF LogEvent
  <2>3. /\ Tail(buffer) \in Seq(Nat) /\ Simple(Tail(buffer))
        /\ InSeq(buffer) = {Head(buffer)} \cup InSeq(Tail(buffer))
        /\ Head(buffer) \notin InSeq(Tail(buffer))
    BY <1>1, <2>1, InSeqTail
  <2>4. InSeq(buffer') = InSeq(Tail(buffer)) \cup {logged + 1} /\ Simple(buffer')
    <3>1. logged + 1 \notin InSeq(Tail(buffer))
      BY <1>2, <2>3
    <3>2. ASSUME NEW t \in Seq(Nat), Simple(t), logged + 1 \notin InSeq(t)
          PROVE  /\ InSeq(Append(t, logged + 1)) = InSeq(t) \cup {logged + 1}
                 /\ Simple(Append(t, logged + 1))
      BY <1>1, <3>2, InSeqAppend
    <3> QED
      BY <2>2, <2>3, <3>1, <3>2
  <2>5. InSeq(buffer') = (InSeq(buffer) \ {Head(buffer)}) \cup {logged + 1}
    BY <2>3, <2>4
  <2>6. Head(buffer) \notin evicted
    BY <1>2, <2>3
  <2>7. IsFiniteSet(evicted') /\ dropped' = Cardinality(evicted')
    BY <1>1, <2>2, <2>6, FS_AddElement
  <2>8. {Head(buffer)} \in SUBSET InSeq(buffer)
    BY <2>3
  <2> QED
    BY <2>2, <2>4, <2>5, <2>7, <2>8 DEF InSeq, Simple, Counted
<1> QED
  BY <1>3, <1>4

LEMMA EventPlaces == PlacesInv /\ LogEvent => PlacesInv'
<1> SUFFICES ASSUME PlacesInv, LogEvent PROVE PlacesInv'
  OBVIOUS
<1>1. PICK out \in SUBSET InSeq(buffer) :
        /\ InSeq(buffer)' = (InSeq(buffer) \ out) \cup {logged + 1}
        /\ evicted' = evicted \cup out
        /\ Simple(buffer)' /\ Counted'
  BY EventMoves
<1>2. /\ batch' = batch /\ InSeq(stored)' = InSeq(stored) /\ lost' = lost
      /\ Simple(stored)' = Simple(stored) /\ logged' = logged + 1
      /\ \A f \in Flushers : Simple(batch'[f]) <=> Simple(batch[f])
  BY DEF LogEvent, InSeq, Simple
<1>3. logged + 1 \notin Numbers /\ Numbers' = Numbers \cup {logged + 1}
  BY <1>2 DEF PlacesInv, LogTypeOK, Numbers
<1>4. Gone' = Gone \cup out
  BY <1>1, <1>2 DEF Gone
<1>5. Buffered' = (Buffered \ out) \cup {logged + 1}
  <2>1. \A f \in Flushers : InSeq(batch[f]) \cap out = {}
    BY DEF PlacesInv, Partitioned
  <2> QED
    BY <1>1, <1>2, <2>1, BufferedIs, BufferedNext
<1>6. out \subseteq Buffered
  BY BufferedIs
<1>7. Covered'
  BY <1>2, <1>3, <1>4, <1>5, <1>6 DEF PlacesInv, Covered
<1>8. Partitioned'
  <2>1. /\ logged + 1 \notin InSeq(stored) /\ logged + 1 \notin Buffered
        /\ logged + 1 \notin Gone
    BY <1>3 DEF PlacesInv, Covered
  <2>2. /\ InSeq(stored)' \cap (Buffered' \cup Gone') = {} /\ Buffered' \cap Gone' = {}
    BY <1>2, <1>4, <1>5, <1>6, <2>1 DEF PlacesInv, Partitioned
  <2>3. \A f \in Flushers : InSeq(buffer)' \cap InSeq(batch'[f]) = {}
    BY <1>1, <1>2, <2>1, BufferedIs DEF PlacesInv, Partitioned
  <2> QED
    BY <1>1, <1>2, <2>2, <2>3 DEF PlacesInv, Partitioned
<1> QED
  BY <1>1, <1>7, <1>8, EventTyped DEF PlacesInv

(* A flush empties the buffer into its batch. *)
LEMMA TakeTyped ==
  ASSUME LogTypeOK, NEW f \in Flushers, Take(f)
  PROVE  /\ buffer' \in Seq(Nat) /\ Len(buffer') <= MaxBuffer
         /\ batch' \in [Flushers -> Seq(Nat)] /\ entwined' \in BOOLEAN
<1>1. <<>> \in Seq(Nat) /\ Len(<<>>) = 0 /\ MaxBuffer \in Nat
  BY LogAssumption
<1>2. buffer' = <<>> /\ batch' = [batch EXCEPT ![f] = buffer]
  BY DEF Take
<1>3. entwined' \in BOOLEAN
  BY DEF Take, LogTypeOK
<1>4. Len(buffer') <= MaxBuffer
  BY <1>1, <1>2
<1> QED
  BY <1>1, <1>2, <1>3, <1>4 DEF LogTypeOK

LEMMA TakePlaces ==
  ASSUME PlacesInv, NEW f \in Flushers, Take(f),
         UNCHANGED <<stored, dropped, logged, evicted, lost>>
  PROVE  Partitioned' /\ Covered' /\ Counted' /\ Buffered' = Buffered
<1>1. /\ InSeq(buffer') = {} /\ Simple(buffer') /\ InSeq(batch[f]) = {}
      /\ InSeq(batch'[f]) = InSeq(buffer) /\ Simple(batch'[f])
      /\ \A g \in Flushers \ {f} : batch'[g] = batch[g]
  BY InSeqEmpty DEF Take, PlacesInv, LogTypeOK, Partitioned
<1>2. /\ InSeq(stored)' = InSeq(stored) /\ Simple(stored)' = Simple(stored)
      /\ Gone' = Gone /\ Numbers' = Numbers /\ InSeq(buffer)' = {} /\ Simple(buffer)'
  BY <1>1 DEF InSeq, Simple, Gone, Numbers
<1>3. Buffered' = Buffered
  BY <1>1, <1>2, BufferedIs, BufferedNext
<1>4. \A g, h \in Flushers : g # h => InSeq(batch'[g]) \cap InSeq(batch'[h]) = {}
  BY <1>1 DEF PlacesInv, Partitioned
<1>5. Partitioned'
  BY <1>1, <1>2, <1>3, <1>4 DEF PlacesInv, Partitioned
<1> QED
  BY <1>2, <1>3, <1>5 DEF PlacesInv, Covered, Counted

LEMMA WritePlaces == \A f \in Flushers : PlacesInv /\ Writes(f) => PlacesInv'
<1> SUFFICES ASSUME NEW f \in Flushers, PlacesInv, Writes(f) PROVE PlacesInv'
  OBVIOUS
<1>1. /\ stored' \in Seq(Nat) /\ InSeq(stored') = InSeq(stored) \cup InSeq(batch[f])
      /\ Simple(stored')
  <2>1. InSeq(batch[f]) \cap InSeq(stored) = {}
    BY BufferedIs DEF PlacesInv, Partitioned
  <2> QED
    BY <2>1, InSeqConcat DEF PlacesInv, Partitioned, LogTypeOK, Writes
<1>2. /\ batch' \in [Flushers -> Seq(Nat)] /\ InSeq(batch'[f]) = {} /\ Simple(batch'[f])
      /\ \A g \in Flushers \ {f} : batch'[g] = batch[g]
  <2>1. <<>> \in Seq(Nat) /\ batch' = [batch EXCEPT ![f] = <<>>]
    BY DEF Writes
  <2> QED
    BY <2>1, InSeqEmpty DEF PlacesInv, LogTypeOK
<1>3. /\ InSeq(buffer)' = InSeq(buffer) /\ Simple(buffer)' = Simple(buffer)
      /\ Gone' = Gone /\ Numbers' = Numbers /\ UNCHANGED <<buffer, dropped, evicted>>
  BY DEF Writes, past, InSeq, Simple, Gone, Numbers
<1>4. Buffered' = Buffered \ InSeq(batch[f])
  <2>1. \A g \in Flushers : g # f => InSeq(batch[f]) \cap InSeq(batch[g]) = {}
    BY DEF PlacesInv, Partitioned
  <2>2. InSeq(buffer) \cap InSeq(batch[f]) = {}
    BY DEF PlacesInv, Partitioned
  <2> QED
    BY <1>2, <1>3, <2>1, <2>2, BufferedIs, BufferedNext
<1>5. InSeq(batch[f]) \subseteq Buffered
  BY BufferedIs
<1>6. InSeq(stored)' = InSeq(stored) \cup InSeq(batch[f]) /\ Simple(stored)'
  BY <1>1 DEF InSeq, Simple
<1>7. \A g, h \in Flushers : g # h => InSeq(batch'[g]) \cap InSeq(batch'[h]) = {}
  BY <1>2 DEF PlacesInv, Partitioned
<1>8. Partitioned'
  BY <1>2, <1>3, <1>4, <1>5, <1>6, <1>7 DEF PlacesInv, Partitioned
<1>9. Covered' /\ Counted'
  BY <1>3, <1>4, <1>5, <1>6 DEF PlacesInv, Covered, Counted
<1>10. LogTypeOK'
  BY <1>1, <1>2 DEF Writes, past, PlacesInv, LogTypeOK
<1> QED
  BY <1>8, <1>9, <1>10 DEF PlacesInv

LEMMA FailPlaces == \A f \in Flushers : PlacesInv /\ WriteFails(f) => PlacesInv'
<1> SUFFICES ASSUME NEW f \in Flushers, PlacesInv, WriteFails(f) PROVE PlacesInv'
  OBVIOUS
<1>2. /\ batch' \in [Flushers -> Seq(Nat)] /\ InSeq(batch'[f]) = {} /\ Simple(batch'[f])
      /\ \A g \in Flushers \ {f} : batch'[g] = batch[g]
  <2>1. <<>> \in Seq(Nat) /\ batch' = [batch EXCEPT ![f] = <<>>]
    BY DEF WriteFails
  <2> QED
    BY <2>1, InSeqEmpty DEF PlacesInv, LogTypeOK
<1>3. /\ InSeq(buffer)' = InSeq(buffer) /\ Simple(buffer)' = Simple(buffer)
      /\ InSeq(stored)' = InSeq(stored) /\ Simple(stored)' = Simple(stored)
      /\ Numbers' = Numbers /\ UNCHANGED <<buffer, stored, dropped, evicted>>
      /\ Gone' = Gone \cup InSeq(batch[f])
  BY DEF WriteFails, InSeq, Simple, Gone, Numbers
<1>4. Buffered' = Buffered \ InSeq(batch[f])
  <2>1. \A g \in Flushers : g # f => InSeq(batch[f]) \cap InSeq(batch[g]) = {}
    BY DEF PlacesInv, Partitioned
  <2>2. InSeq(buffer) \cap InSeq(batch[f]) = {}
    BY DEF PlacesInv, Partitioned
  <2> QED
    BY <1>2, <1>3, <2>1, <2>2, BufferedIs, BufferedNext
<1>5. InSeq(batch[f]) \subseteq Buffered
  BY BufferedIs
<1>7. \A g, h \in Flushers : g # h => InSeq(batch'[g]) \cap InSeq(batch'[h]) = {}
  BY <1>2 DEF PlacesInv, Partitioned
<1>8. Partitioned'
  BY <1>2, <1>3, <1>4, <1>5, <1>7 DEF PlacesInv, Partitioned
<1>9. Covered' /\ Counted'
  BY <1>3, <1>4, <1>5 DEF PlacesInv, Covered, Counted
<1>10. LogTypeOK'
  <2>1. lost' \in SUBSET Nat
    <3>1. Gone' \subseteq Numbers'
      BY <1>9 DEF Covered
    <3> QED
      BY <3>1, <1>3 DEF Gone, Numbers, PlacesInv, LogTypeOK, WriteFails
  <2>2. read' \in [Readers -> ReadType]
    BY DEF WriteFails, PlacesInv, LogTypeOK, ReadType, NoRead
  <2> QED
    BY <1>2, <2>1, <2>2 DEF WriteFails, PlacesInv, LogTypeOK
<1> QED
  BY <1>8, <1>9, <1>10 DEF PlacesInv

LEMMA LoopPlaces == PlacesInv /\ LoopFlushes => PlacesInv'
<1> SUFFICES ASSUME PlacesInv, LoopFlushes PROVE PlacesInv'
  OBVIOUS
<1>1. "loop" \in Flushers /\ Take("loop") /\ LogTypeOK
  BY DEF LoopFlushes, Flushers, PlacesInv
<1>2. UNCHANGED <<stored, dropped, open, read, logged, evicted, lost, reads>>
  BY DEF LoopFlushes
<1>3. LogTypeOK'
  BY <1>1, <1>2, TakeTyped DEF LogTypeOK
<1> QED
  BY <1>1, <1>2, <1>3, TakePlaces DEF PlacesInv

LEMMA StopPlaces == PlacesInv /\ LogStops => PlacesInv'
<1> SUFFICES ASSUME PlacesInv, LogStops PROVE PlacesInv'
  OBVIOUS
<1>1. "stop" \in Flushers /\ Take("stop") /\ LogTypeOK
  BY DEF LogStops, Flushers, PlacesInv
<1>2. UNCHANGED <<stored, dropped, read, logged, evicted, lost, reads>> /\ open' \in BOOLEAN
  BY DEF LogStops
<1>3. LogTypeOK'
  BY <1>1, <1>2, TakeTyped DEF LogTypeOK
<1> QED
  BY <1>1, <1>2, <1>3, TakePlaces DEF PlacesInv

LEMMA BeginPlaces == \A r \in Readers : PlacesInv /\ ReadBegins(r) => PlacesInv' /\ Buffered' = Buffered
<1> SUFFICES ASSUME NEW r \in Readers, PlacesInv, ReadBegins(r)
             PROVE  PlacesInv' /\ Buffered' = Buffered
  OBVIOUS
<1>1. r \in Flushers /\ Take(r) /\ LogTypeOK
  BY DEF ReadBegins, Flushers, PlacesInv
<1>2. UNCHANGED <<stored, dropped, open, logged, evicted, lost>>
  BY DEF ReadBegins
<1>3. read' \in [Readers -> ReadType]
  BY <1>1 DEF ReadBegins, LogTypeOK, ReadType, InFlight
<1>4. reads' \in Nat
  BY <1>1 DEF ReadBegins, LogTypeOK
<1>5. LogTypeOK'
  BY <1>1, <1>2, <1>3, <1>4, TakeTyped DEF LogTypeOK
<1> QED
  BY <1>1, <1>2, <1>5, TakePlaces DEF PlacesInv

LEMMA RestPlaces == PlacesInv /\ UNCHANGED <<buffer, batch, stored, dropped, past>>
                      /\ open' = open /\ read' \in [Readers -> ReadType] => PlacesInv'
<1> SUFFICES ASSUME PlacesInv, UNCHANGED <<buffer, batch, stored, dropped, past>>,
                    open' = open, read' \in [Readers -> ReadType]
             PROVE  PlacesInv'
  OBVIOUS
<1>1. LogTypeOK'
  BY DEF past, PlacesInv, LogTypeOK
<1>2. Buffered' = Buffered /\ Gone' = Gone /\ Numbers' = Numbers
  BY DEF past, Buffered, InSeq, Gone, Numbers
<1>3. Partitioned'
  BY <1>2 DEF PlacesInv, Partitioned, Simple, InSeq
<1> QED
  BY <1>1, <1>2, <1>3 DEF past, PlacesInv, Covered, Counted, InSeq

LEMMA SelectPlaces == \A r \in Readers : PlacesInv /\ ReadSelects(r) => PlacesInv'
<1> SUFFICES ASSUME NEW r \in Readers, PlacesInv, ReadSelects(r) PROVE PlacesInv'
  OBVIOUS
<1>1. read' \in [Readers -> ReadType]
  BY DEF ReadSelects, NoRead, PlacesInv, LogTypeOK, ReadType
<1> QED
  BY <1>1, RestPlaces DEF ReadSelects

LEMMA PlacesStep == PlacesInv /\ [LogNext]_logVars => PlacesInv'
<1> SUFFICES ASSUME PlacesInv, [LogNext]_logVars PROVE PlacesInv'
  OBVIOUS
<1>1. CASE UNCHANGED logVars
  BY <1>1, RestPlaces DEF logVars, PlacesInv, LogTypeOK
<1> QED
  BY <1>1, EventPlaces, LoopPlaces, StopPlaces, WritePlaces, FailPlaces, BeginPlaces,
     SelectPlaces DEF LogNext

-----------------------------------------------------------------------------
(* What is stored or flushed by a read covers the events logged before it. *)
ReadOf(r) ==
  read[r].pc = "flushed" /\ ~read[r].busy =>
    1..read[r].upto \subseteq InSeq(stored) \cup InSeq(batch[r]) \cup Gone
ReadInv == \A r \in Readers : ReadOf(r)

(* Nothing is taken out of a reader's sight. *)
LEMMA StaysInSight ==
  ASSUME NEW r \in Readers, ReadOf(r), read'[r] = read[r] \/ read'[r].pc = "idle",
         Gone \subseteq Gone',
         InSeq(stored) \cup InSeq(batch[r]) \subseteq InSeq(stored') \cup InSeq(batch'[r]) \cup Gone'
  PROVE  ReadOf(r)'
<1>1. InSeq(stored)' = InSeq(stored') /\ InSeq(batch[r])' = InSeq(batch'[r])
  BY DEF InSeq
<1> QED
  BY <1>1 DEF ReadOf

LEMMA SightKept ==
  ASSUME PlacesInv, NEW r \in Readers, ReadOf(r),
         \/ LogEvent \/ LoopFlushes \/ LogStops
         \/ \E f \in Flushers : Writes(f) \/ WriteFails(f)
         \/ \E q \in Readers \ {r} : ReadBegins(q) \/ ReadSelects(q)
  PROVE  ReadOf(r)'
<1> USE DEF Gone
<1>1. CASE LogEvent
  <2>1. Gone \subseteq Gone' /\ UNCHANGED <<read, stored, batch>>
    BY <1>1, EventMoves DEF LogEvent
  <2> QED
    BY <2>1, StaysInSight
<1>2. CASE LoopFlushes \/ LogStops
  <2>1. r # "loop" /\ r # "stop" /\ r \in Flushers
    BY LogAssumption DEF Flushers
  <2>2. UNCHANGED <<read, stored, evicted, lost>> /\ batch'[r] = batch[r]
    BY <1>2, <2>1 DEF LoopFlushes, LogStops, Take, PlacesInv, LogTypeOK
  <2> QED
    BY <2>2, StaysInSight
<1>3. ASSUME NEW f \in Flushers, Writes(f) PROVE ReadOf(r)'
  <2>1. UNCHANGED <<read, evicted, lost>> /\ r \in Flushers
    BY <1>3 DEF Writes, past, Flushers
  <2>2. InSeq(stored') = InSeq(stored) \cup InSeq(batch[f])
    BY <1>3, InSeqConcat DEF Writes, PlacesInv, LogTypeOK
  <2>3. f # r => batch'[r] = batch[r]
    BY <1>3, <2>1 DEF Writes, PlacesInv, LogTypeOK
  <2>4. InSeq(stored) \cup InSeq(batch[r]) \subseteq InSeq(stored') \cup InSeq(batch'[r])
    BY <2>2, <2>3
  <2> QED
    BY <2>1, <2>4, StaysInSight
<1>4. ASSUME NEW f \in Flushers, WriteFails(f) PROVE ReadOf(r)'
  <2>1. /\ stored' = stored /\ evicted' = evicted /\ r \in Flushers
        /\ lost' = lost \cup InSeq(batch[f])
        /\ read'[r] = read[r] \/ read'[r].pc = "idle"
    <3>1. read[r] \in ReadType
      BY DEF PlacesInv, LogTypeOK
    <3> QED
      BY <1>4, <3>1 DEF WriteFails, Flushers, ReadType, NoRead
  <2>2. f # r => batch'[r] = batch[r]
    BY <1>4, <2>1 DEF WriteFails, PlacesInv, LogTypeOK
  <2> QED
    BY <2>1, <2>2, StaysInSight
<1>5. ASSUME NEW q \in Readers \ {r}, ReadBegins(q) \/ ReadSelects(q) PROVE ReadOf(r)'
  <2>1. UNCHANGED <<stored, evicted, lost>> /\ read'[r] = read[r] /\ batch'[r] = batch[r]
    BY <1>5 DEF ReadBegins, ReadSelects, Take, past, PlacesInv, LogTypeOK, Flushers
  <2> QED
    BY <2>1, StaysInSight
<1> QED
  BY <1>1, <1>2, <1>3, <1>4, <1>5

LEMMA SightBegins ==
  ASSUME PlacesInv, NEW r \in Readers, ReadBegins(r)
  PROVE  ReadOf(r)'
<1>1. /\ r \in Flushers /\ batch'[r] = buffer /\ UNCHANGED <<stored, evicted, lost>>
      /\ read'[r] = [pc |-> "flushed", upto |-> logged, busy |-> InFlight(r)]
      /\ batch[r] = <<>>
  BY DEF ReadBegins, Take, Flushers, PlacesInv, LogTypeOK
<1>2. ASSUME ~InFlight(r) PROVE Buffered \subseteq InSeq(buffer)
  <2>1. \A f \in Flushers : batch[f] = <<>>
    BY <1>1, <1>2 DEF InFlight
  <2> QED
    BY <2>1, BufferedIs, InSeqEmpty
<1>3. ~InFlight(r) => 1..logged \subseteq InSeq(stored) \cup InSeq(buffer) \cup Gone
  BY <1>2 DEF PlacesInv, Covered, Numbers
<1>4. /\ InSeq(stored)' = InSeq(stored) /\ InSeq(batch[r])' = InSeq(buffer) /\ Gone' = Gone
  BY <1>1 DEF InSeq, Gone
<1> QED
  BY <1>1, <1>3, <1>4 DEF ReadOf

LEMMA SightSelects ==
  ASSUME PlacesInv, NEW r \in Readers, ReadSelects(r)
  PROVE  ReadOf(r)'
<1>1. read'[r].pc = "idle"
  BY DEF ReadSelects, NoRead, PlacesInv, LogTypeOK
<1> QED
  BY <1>1 DEF ReadOf

-----------------------------------------------------------------------------
(* A log that lost nothing and whose flushes never met holds what was      *)
(* logged in its order: the rows, then the one batch that is written, then *)
(* the buffer.                                                             *)
Sequenced ==
  /\ \A n \in DOMAIN stored : stored[n] = n
  /\ \A f \in Flushers : \A n \in DOMAIN batch[f] : batch[f][n] = Len(stored) + n
  /\ \A n \in DOMAIN buffer : buffer[n] = logged - Len(buffer) + n
  /\ \A f, g \in Flushers : batch[f] # <<>> /\ batch[g] # <<>> => f = g
  /\ \A f \in Flushers : batch[f] # <<>> => logged = Len(stored) + Len(batch[f]) + Len(buffer)
  /\ (\A f \in Flushers : batch[f] = <<>>) => logged = Len(stored) + Len(buffer)
OrderInv == Gone = {} /\ ~entwined => Sequenced

LEMMA OrderInit == LogInit => OrderInv
  BY DEF LogInit, OrderInv, Sequenced

LEMMA OrderOfEvents == LogTypeOK /\ Sequenced /\ LogEvent /\ Gone' = {} => Sequenced'
<1> SUFFICES ASSUME LogTypeOK, Sequenced, LogEvent, Gone' = {} PROVE Sequenced'
  OBVIOUS
<1>1. Len(buffer) < MaxBuffer
  BY DEF LogEvent, Gone
<1>2. logged' = logged + 1 /\ buffer' = Append(buffer, logged + 1) /\ UNCHANGED <<batch, stored>>
  BY <1>1 DEF LogEvent
<1>3. buffer \in Seq(Nat) /\ logged \in Nat /\ Len(buffer) \in Nat /\ Len(stored) \in Nat
  BY DEF LogTypeOK
<1>4. /\ Len(buffer') = Len(buffer) + 1 /\ DOMAIN buffer' = 1..(Len(buffer) + 1)
      /\ \A n \in DOMAIN buffer : buffer'[n] = buffer[n]
      /\ buffer'[Len(buffer) + 1] = logged + 1 /\ DOMAIN buffer = 1..Len(buffer)
  BY <1>2, <1>3
<1>5. \A n \in DOMAIN buffer' : buffer'[n] = logged' - Len(buffer') + n
  <2> SUFFICES ASSUME NEW n \in DOMAIN buffer' PROVE buffer'[n] = logged' - Len(buffer') + n
    OBVIOUS
  <2>1. CASE n = Len(buffer) + 1
    BY <1>2, <1>3, <1>4, <2>1
  <2>2. CASE n \in DOMAIN buffer
    <3>1. buffer[n] = logged - Len(buffer) + n /\ n \in Int
      BY <1>4, <2>2 DEF Sequenced
    <3> QED
      BY <1>2, <1>3, <1>4, <2>2, <3>1
  <2> QED
    BY <1>3, <1>4, <2>1, <2>2
<1>6. \A f \in Flushers : batch[f] # <<>> => logged' = Len(stored) + Len(batch[f]) + Len(buffer')
  <2> SUFFICES ASSUME NEW f \in Flushers, batch[f] # <<>>
               PROVE  logged' = Len(stored) + Len(batch[f]) + Len(buffer')
    OBVIOUS
  <2>1. logged = Len(stored) + Len(batch[f]) + Len(buffer) /\ Len(batch[f]) \in Nat
    BY DEF Sequenced, LogTypeOK
  <2>2. logged' = logged + 1 /\ Len(buffer') = Len(buffer) + 1
    BY <1>2, <1>4
  <2>3. logged + 1 = Len(stored) + Len(batch[f]) + (Len(buffer) + 1)
    <3> DEFINE p == Len(stored)
               q == Len(batch[f])
               r == Len(buffer)
    <3>1. logged = p + q + r /\ logged \in Nat /\ p \in Nat /\ q \in Nat /\ r \in Nat
      BY <1>3, <2>1
    <3> HIDE DEF p, q, r
    <3>2. logged + 1 = p + q + (r + 1)
      BY <3>1
    <3> QED
      BY <3>2 DEF p, q, r
  <2>4. Len(stored) + Len(batch[f]) + Len(buffer') = Len(stored) + Len(batch[f]) + (Len(buffer) + 1)
    BY <2>2, Zenon
  <2> QED
    BY <2>2, <2>3, <2>4, Zenon
<1>7. (\A f \in Flushers : batch[f] = <<>>) => logged' = Len(stored) + Len(buffer')
  BY <1>2, <1>3, <1>4 DEF Sequenced
<1> QED
  BY <1>2, <1>5, <1>6, <1>7 DEF Sequenced

LEMMA OrderTaken ==
  ASSUME LogTypeOK, Sequenced, NEW f \in Flushers, Take(f), ~entwined',
         UNCHANGED <<stored, logged>>
  PROVE  Sequenced'
<1>1. /\ batch[f] = <<>> /\ buffer' = <<>> /\ batch'[f] = buffer
      /\ \A g \in Flushers \ {f} : batch'[g] = batch[g]
      /\ buffer = <<>> \/ ~InFlight(f)
  BY DEF Take, LogTypeOK
<1>2. /\ buffer \in Seq(Nat) /\ logged \in Nat /\ Len(buffer) \in Nat /\ Len(stored) \in Nat
      /\ Len(buffer') = 0 /\ DOMAIN buffer' = {}
  BY <1>1 DEF LogTypeOK
<1>3. CASE buffer = <<>>
  <2>1. \A g \in Flushers : batch'[g] = batch[g]
    BY <1>1, <1>3
  <2> QED
    BY <1>1, <1>3, <2>1 DEF Sequenced
<1>4. CASE buffer # <<>> /\ ~InFlight(f)
  <2>1. \A g \in Flushers : batch[g] = <<>>
    BY <1>1, <1>4 DEF InFlight
  <2>2. logged = Len(stored) + Len(buffer)
    BY <2>1 DEF Sequenced
  <2>3. \A n \in DOMAIN buffer : buffer[n] = Len(stored) + n
    BY <1>2, <2>2 DEF Sequenced
  <2>4. \A g \in Flushers \ {f} : batch'[g] = <<>>
    BY <1>1, <2>1
  <2>5. \A g \in Flushers : \A n \in DOMAIN batch'[g] : batch'[g][n] = Len(stored) + n
    BY <1>1, <2>3, <2>4
  <2>6. \A g \in Flushers : batch'[g] # <<>> => g = f
    BY <2>4
  <2>7. batch'[f] # <<>> /\ logged = Len(stored) + Len(batch'[f]) + Len(buffer')
    BY <1>1, <1>2, <1>4, <2>2
  <2> QED
    BY <1>2, <2>5, <2>6, <2>7 DEF Sequenced
<1> QED
  BY <1>1, <1>3, <1>4

LEMMA OrderWritten ==
  ASSUME LogTypeOK, Sequenced, NEW f \in Flushers, Writes(f)
  PROVE  Sequenced'
<1>1. /\ batch[f] # <<>> /\ stored' = stored \o batch[f] /\ batch'[f] = <<>>
      /\ UNCHANGED <<buffer, logged>>
      /\ \A g \in Flushers \ {f} : batch'[g] = batch[g]
  BY DEF Writes, past, LogTypeOK
<1>2. \A g \in Flushers : batch'[g] = <<>>
  BY <1>1 DEF Sequenced
<1>3. /\ stored \in Seq(Nat) /\ batch[f] \in Seq(Nat) /\ Len(stored) \in Nat
      /\ Len(batch[f]) \in Nat /\ Len(buffer) \in Nat
  BY DEF LogTypeOK
<1>4. Len(stored') = Len(stored) + Len(batch[f])
  BY <1>1, <1>3
<1>5. \A n \in DOMAIN stored' : stored'[n] = n
  <2> SUFFICES ASSUME NEW n \in DOMAIN stored' PROVE stored'[n] = n
    OBVIOUS
  <2>1. /\ n \in 1..(Len(stored) + Len(batch[f]))
        /\ n \in DOMAIN stored => stored'[n] = stored[n]
        /\ n \notin DOMAIN stored => /\ n - Len(stored) \in DOMAIN batch[f]
                                     /\ stored'[n] = batch[f][n - Len(stored)]
    BY <1>1, <1>3
  <2>2. CASE n \in DOMAIN stored
    BY <2>1, <2>2 DEF Sequenced
  <2>3. CASE n \notin DOMAIN stored
    <3>1. batch[f][n - Len(stored)] = Len(stored) + (n - Len(stored))
      BY <2>1, <2>3 DEF Sequenced
    <3> QED
      BY <1>3, <2>1, <2>3, <3>1
  <2> QED
    BY <2>2, <2>3
<1>6. logged = Len(stored') + Len(buffer)
  BY <1>1, <1>4 DEF Sequenced
<1>7. \A g \in Flushers : \A n \in DOMAIN batch'[g] : batch'[g][n] = Len(stored') + n
  BY <1>2
<1>8. \A n \in DOMAIN buffer' : buffer'[n] = logged' - Len(buffer') + n
  BY <1>1 DEF Sequenced
<1> QED
  BY <1>1, <1>2, <1>5, <1>6, <1>7, <1>8 DEF Sequenced

LEMMA OrderStep == LogTypeOK /\ OrderInv /\ [LogNext]_logVars => OrderInv'
<1> SUFFICES ASSUME LogTypeOK, OrderInv, [LogNext]_logVars, Gone' = {}, ~entwined'
             PROVE  Sequenced'
  BY DEF OrderInv
<1> DEFINE Kept == evicted \subseteq evicted' /\ lost \subseteq lost' /\ (entwined => entwined')
<1>1. CASE UNCHANGED <<buffer, batch, stored, past>>
  BY <1>1 DEF OrderInv, Sequenced, Gone, past
<1>2. CASE LogEvent
  <2>1. Kept
    BY <1>2 DEF LogEvent
  <2> QED
    BY <1>2, <2>1, OrderOfEvents DEF OrderInv, Gone
<1>3. ASSUME NEW f \in Flushers, Take(f), UNCHANGED <<stored, logged, evicted, lost>>
      PROVE  Sequenced'
  <2>1. Kept
    BY <1>3 DEF Take
  <2> QED
    BY <1>3, <2>1, OrderTaken DEF OrderInv, Gone
<1>4. ASSUME NEW f \in Flushers, Writes(f) PROVE Sequenced'
  <2>1. Kept
    BY <1>4 DEF Writes, past
  <2> QED
    BY <1>4, <2>1, OrderWritten DEF OrderInv, Gone
<1>5. ASSUME NEW f \in Flushers PROVE ~WriteFails(f)
  <2>1. CASE WriteFails(f)
    <3>1. batch[f] \in Seq(Nat) /\ batch[f] # <<>>
      BY <2>1 DEF WriteFails, LogTypeOK
    <3>2. batch[f][1] \in InSeq(batch[f])
      BY <3>1 DEF InSeq
    <3> QED
      BY <2>1, <3>2 DEF WriteFails, Gone
  <2> QED
    BY <2>1
<1>6. CASE LoopFlushes \/ LogStops
  BY <1>3, <1>6 DEF LoopFlushes, LogStops, Flushers
<1>7. ASSUME NEW r \in Readers, ReadBegins(r) PROVE Sequenced'
  BY <1>3, <1>7 DEF ReadBegins, Flushers
<1>8. ASSUME NEW r \in Readers, ReadSelects(r) PROVE Sequenced'
  BY <1>1, <1>8 DEF ReadSelects
<1> QED
  BY <1>1, <1>2, <1>4, <1>5, <1>6, <1>7, <1>8 DEF LogNext, logVars

(* What is whole is stored as it was logged. *)
LEMMA WholeIsOrdered ==
  ASSUME LogTypeOK, OrderInv, Whole
  PROVE  DOMAIN stored = 1..logged /\ \A n \in 1..logged : stored[n] = n
<1>1. Sequenced
  BY DEF OrderInv, Whole
<1>2. buffer \in Seq(Nat) /\ \A f \in Flushers : batch[f] \in Seq(Nat)
  BY DEF LogTypeOK
<1>3. ASSUME NEW s \in Seq(Nat), InSeq(s) = {} PROVE s = <<>>
  <2>1. s # <<>> => s[1] \in InSeq(s)
    BY DEF InSeq
  <2> QED
    BY <1>3, <2>1
<1>4. buffer = <<>> /\ \A f \in Flushers : batch[f] = <<>>
  BY <1>2, <1>3, BufferedIs DEF Whole
<1>5. logged = Len(stored) /\ stored \in Seq(Nat)
  BY <1>1, <1>4 DEF Sequenced, LogTypeOK
<1> QED
  BY <1>1, <1>5 DEF Sequenced

-----------------------------------------------------------------------------
LogInv == PlacesInv /\ ReadInv /\ OrderInv

LEMMA LogInitial == LogInit => LogInv
  BY PlacesInit, OrderInit DEF LogInv, ReadInv, ReadOf, LogInit, NoRead

LEMMA LogStep == LogInv /\ [LogNext]_logVars => LogInv'
<1> SUFFICES ASSUME LogInv, [LogNext]_logVars, NEW r \in Readers PROVE ReadOf(r)'
  BY PlacesStep, OrderStep DEF LogInv, ReadInv, PlacesInv
<1>1. PlacesInv /\ ReadOf(r)
  BY DEF LogInv, ReadInv
<1>2. CASE UNCHANGED logVars
  <2>1. UNCHANGED <<read, stored, batch, evicted, lost>>
    BY <1>2 DEF logVars, past
  <2> QED
    BY <1>1, <2>1, StaysInSight DEF Gone
<1>3. CASE ReadBegins(r)
  BY <1>1, <1>3, SightBegins
<1>4. CASE ReadSelects(r)
  BY <1>1, <1>4, SightSelects
<1> QED
  BY <1>1, <1>2, <1>3, <1>4, SightKept DEF LogNext

-----------------------------------------------------------------------------
LEMMA PlacesAccount == PlacesInv => LogAccounts
<1> SUFFICES ASSUME PlacesInv PROVE LogAccounts
  OBVIOUS
<1> DEFINE Rest == Buffered \cup Gone
<1>1. IsFiniteSet(Numbers) /\ Cardinality(Numbers) = logged /\ logged \in Nat
  BY CountTo DEF PlacesInv, LogTypeOK, Numbers
<1>2. IsFiniteSet(InSeq(stored)) /\ Cardinality(InSeq(stored)) = Len(stored)
  BY SimpleCounts DEF PlacesInv, LogTypeOK, Partitioned
<1>3. Numbers = InSeq(stored) \cup Rest /\ InSeq(stored) \cap Rest = {}
  BY DEF PlacesInv, Covered, Partitioned
<1>4. IsFiniteSet(Rest)
  BY <1>1, <1>3, FS_Subset
<1>5. Cardinality(Numbers) = Cardinality(InSeq(stored)) + Cardinality(Rest) - Cardinality({})
  BY <1>2, <1>3, <1>4, FS_Union
<1>6. Len(stored) \in Nat /\ Cardinality(Rest) \in Nat
  BY <1>4, FS_CardinalityType DEF PlacesInv, LogTypeOK
<1>7. Len(stored) + Cardinality(Rest) = logged
  BY <1>1, <1>2, <1>5, <1>6, FS_EmptySet
<1> QED
  BY <1>3, <1>7 DEF LogAccounts, PlacesInv, Covered, Counted

LEMMA LogInvariance == LogSpec => []LogInv
  BY LogInitial, LogStep, PTL DEF LogSpec

(* Every logged event is stored, waits to be written, or is gone, and is   *)
(* stored at most once, for any sizes, readers and failures (flush,        *)
(* log_event).                                                             *)
THEOREM EventsAccounted == LogSpec => []LogAccounts
<1>1. LogInv => LogAccounts
  BY PlacesAccount DEF LogInv
<1> QED
  BY <1>1, LogInvariance, PTL

(* A read that begins while no flush is in flight sees what was logged     *)
(* before it and is not gone (read_events).                                *)
THEOREM ReadsSeeLogged == LogSpec => ReadSeesLogged
<1> DEFINE Sees == \A r \in Readers : ReadSelects(r) /\ ~read[r].busy =>
                     1..read[r].upto \subseteq InSeq(stored) \cup Gone
<1>1. LogInv => Sees
  <2> SUFFICES ASSUME LogInv, NEW r \in Readers, ReadSelects(r), ~read[r].busy
               PROVE  1..read[r].upto \subseteq InSeq(stored) \cup Gone
    OBVIOUS
  <2>1. ReadOf(r) /\ read[r].pc = "flushed" /\ InSeq(batch[r]) = {}
    BY InSeqEmpty DEF LogInv, ReadInv, ReadSelects
  <2> QED
    BY <2>1 DEF ReadOf
<1>2. LogSpec => [][Sees]_logVars
  BY <1>1, LogInvariance, PTL
<1> QED
  BY <1>2 DEF ReadSeesLogged

(* A log that lost nothing, whose flushes never met and that has written   *)
(* everything holds the events in the order in which they were logged      *)
(* (flush, read_events).                                                   *)
THEOREM LogIsOrdered ==
  LogSpec => [](Whole => DOMAIN stored = 1..logged /\ \A n \in 1..logged : stored[n] = n)
<1>1. LogInv => (Whole => DOMAIN stored = 1..logged /\ \A n \in 1..logged : stored[n] = n)
  BY WholeIsOrdered DEF LogInv, PlacesInv
<1> QED
  BY <1>1, LogInvariance, PTL
=============================================================================
