-------------------------- MODULE BookIngestProofs ---------------------------
(***************************************************************************)
(* Proofs about BookIngest, for any assets, levels, workers, queue, log    *)
(* and bounds: it uses the log as BookLog specifies it, a resync that was  *)
(* asked for is on its way, a book that missed nothing becomes the venue's *)
(* and a replay of the log gives the live book.                            *)
(***************************************************************************)
EXTENDS BookIngest, BookLogProofs, WellFoundedInduction

LEMMA StepsOfLog == [Next]_vars => [LogNext]_logVars
<1> SUFFICES ASSUME [Next]_vars PROVE [LogNext]_logVars
  OBVIOUS
<1> USE DEF LogNext
<1>1. CASE UNCHANGED vars
  BY <1>1 DEF vars, logVars
<1>2. ASSUME NEW a \in Assets, NEW l \in Levels, NEW nested \in BOOLEAN,
             VenueChanges(a, l, nested)
      PROVE  UNCHANGED logVars
  BY <1>2 DEF VenueChanges
<1>3. ASSUME NEW a \in Assets, VenueSendsBook(a) \/ Discover(a) \/ DiscoverPuts(a)
      PROVE  UNCHANGED logVars
  BY <1>3 DEF VenueSendsBook, Discover, DiscoverPuts
<1>4. CASE Connects \/ Cut
  BY <1>4 DEF Connects, Cut
<1>5. ASSUME NEW w \in Workers, WorkerStep(w) PROVE UNCHANGED logVars
  BY <1>5 DEF WorkerStep, WorkerAsks, RestAnswers, RestFails, SnapshotArrives
<1>6. CASE HandleBook \/ HandleChange
  BY <1>6 DEF HandleBook, HandleChange, Receives
<1>7. CASE Stops
  BY <1>7 DEF Stops
<1>8. CASE Logging
  BY <1>8 DEF Logging
<1> QED
  BY <1>1, <1>2, <1>3, <1>4, <1>5, <1>6, <1>7, <1>8 DEF Next

(* The ingestor drives its log as the log is specified: every step of it   *)
(* is a step of the log or leaves the log alone.                           *)
THEOREM UsesLog == Spec => LogSpec
<1>1. Init => LogInit
  BY DEF Init
<1> QED
  BY <1>1, StepsOfLog, PTL DEF Spec, LogSpec

(* Every logged event of the ingestor is accounted for. *)
THEOREM EventsAreAccounted == Spec => []LogAccounts
  BY UsesLog, EventsAccounted, PTL

(* A read of the ingestor's log sees what was logged before it. *)
THEOREM ReadsSeeLoggedEvents == Spec => ReadSeesLogged
  BY UsesLog, ReadsSeeLogged, PTL

-----------------------------------------------------------------------------
MessageOK == wire \in Seq(Message) /\ history \in Seq(Message) /\ Len(history) = logged
BookOK ==
  /\ book \in [Assets -> BookType] /\ venue \in [Assets -> BookType]
  /\ based \in [Assets -> BOOLEAN]
MarksOK ==
  /\ pending \subseteq Assets /\ waiting \subseteq Assets /\ wanted \subseteq Assets
  /\ live \subseteq Assets /\ behind \subseteq Assets /\ unlogged \subseteq Assets
  /\ failed \subseteq Assets
  /\ socket \in {"none", "up", "closed"}
QueueOK == queue \in Seq(Assets) /\ Len(queue) <= QueueSize
Fetching == {f \in FetchType : f.pc = "idle" <=> f.asset = "none"}
FetchOK  == fetch \in [Workers -> Fetching]
TallyOK == tally \in [messages : Nat, mishaps : Nat] /\ tally.messages <= MaxMessages
IngestTypeOK == MessageOK /\ BookOK /\ MarksOK /\ QueueOK /\ FetchOK /\ TallyOK

LEMMA TypeParts == LogTypeOK /\ IngestTypeOK => TypeOK
  BY DEF TypeOK, IngestTypeOK, MessageOK, BookOK, MarksOK, QueueOK, FetchOK, Fetching, TallyOK

LEMMA NoFetchTyped == Empty \in BookType /\ NoFetch \in Fetching
<1>1. 0 \in Changes
  BY IngestAssumption DEF Changes
<1> QED
  BY <1>1 DEF Empty, BookType, NoFetch, Fetching, FetchType

LEMMA TypeInit == Init => IngestTypeOK
<1> SUFFICES ASSUME Init PROVE IngestTypeOK
  OBVIOUS
<1>1. MessageOK
  BY DEF Init, LogInit, MessageOK
<1>2. BookOK /\ FetchOK
  BY NoFetchTyped DEF Init, BookOK, FetchOK
<1>3. MarksOK
  BY DEF Init, MarksOK
<1>4. QueueOK
  BY IngestAssumption DEF Init, QueueOK
<1>5. TallyOK
  BY IngestAssumption DEF Init, TallyOK
<1> QED
  BY <1>1, <1>2, <1>3, <1>4, <1>5 DEF IngestTypeOK

LEMMA StalesTyped ==
  ASSUME FetchOK, NEW as
  PROVE  Stales(as) \in [Workers -> Fetching]
<1>1. ASSUME NEW w \in Workers PROVE [fetch[w] EXCEPT !.fresh = FALSE] \in Fetching
  <2>1. fetch[w] \in Fetching
    BY DEF FetchOK
  <2> QED
    BY <2>1 DEF Fetching, FetchType
<1> QED
  BY <1>1 DEF Stales, FetchOK

LEMMA MessagesTyped ==
  /\ \A a \in Assets, l \in Levels, n \in Changes, nested \in BOOLEAN :
       [kind |-> "change", asset |-> a, level |-> l, to |-> n, nested |-> nested] \in Message
  /\ \A a \in Assets, b \in BookType : [kind |-> "book", asset |-> a, book |-> b] \in Message
  /\ \A m \in Message : m.asset \in Assets
  /\ \A m \in Message : m.kind = "book" => m.book \in BookType
  /\ \A m \in Message : m.kind = "change" =>
       m.level \in Levels /\ m.to \in Changes /\ m.nested \in BOOLEAN
  BY DEF Message

LEMMA AppendTyped ==
  ASSUME NEW S, NEW s \in Seq(S), NEW x \in S
  PROVE  Append(s, x) \in Seq(S) /\ Len(Append(s, x)) = Len(s) + 1
  OBVIOUS

LEMMA TailTyped ==
  ASSUME NEW S, NEW s \in Seq(S), s # <<>>
  PROVE  Tail(s) \in Seq(S) /\ Head(s) \in S /\ Len(Tail(s)) = Len(s) - 1
  OBVIOUS

LEMMA TallyTyped ==
  /\ TallyOK /\ Tally("messages", MaxMessages) => TallyOK' /\ tally'.messages \in Changes
  /\ TallyOK /\ Tally("mishaps", MaxMishaps) => TallyOK'
  /\ TallyOK /\ UNCHANGED tally => TallyOK'
<1>1. MaxMessages \in Nat /\ MaxMishaps \in Nat
  BY IngestAssumption
<1>2. ASSUME TallyOK, Tally("messages", MaxMessages) PROVE TallyOK' /\ tally'.messages \in Changes
  <2>1. tally' = [tally EXCEPT !.messages = @ + 1] /\ tally.messages < MaxMessages
    BY <1>2 DEF Tally
  <2>2. tally.messages \in Nat /\ tally.mishaps \in Nat
    BY <1>2 DEF TallyOK
  <2>3. tally' = [messages |-> tally.messages + 1, mishaps |-> tally.mishaps]
    BY <2>1, <1>2 DEF TallyOK
  <2>4. tally'.messages = tally.messages + 1 /\ tally'.messages \in 0..MaxMessages
    BY <1>1, <2>1, <2>2, <2>3
  <2>5. tally' \in [messages : Nat, mishaps : Nat]
    BY <2>2, <2>3
  <2> QED
    BY <2>4, <2>5 DEF TallyOK, Changes
<1>3. ASSUME TallyOK, Tally("mishaps", MaxMishaps) PROVE TallyOK'
  <2>1. tally' = [tally EXCEPT !.mishaps = @ + 1]
    BY <1>3 DEF Tally
  <2>2. tally.messages \in Nat /\ tally.mishaps \in Nat
    BY <1>3 DEF TallyOK
  <2>3. tally' = [messages |-> tally.messages, mishaps |-> tally.mishaps + 1]
    BY <2>1, <1>3 DEF TallyOK
  <2> QED
    BY <1>3, <2>2, <2>3 DEF TallyOK
<1> QED
  BY <1>2, <1>3 DEF TallyOK

LEMMA ChangeTyped ==
  ASSUME IngestTypeOK, NEW a \in Assets, NEW l \in Levels, NEW nested \in BOOLEAN,
         VenueChanges(a, l, nested)
  PROVE  IngestTypeOK'
<1> USE DEF IngestTypeOK
<1>1. TallyOK' /\ tally'.messages \in Changes
  BY TallyTyped DEF VenueChanges
<1>2. FetchOK'
  BY StalesTyped DEF VenueChanges, FetchOK
<1>3. MessageOK'
  <2>1. [kind |-> "change", asset |-> a, level |-> l, to |-> tally'.messages,
         nested |-> nested] \in Message
    BY <1>1, MessagesTyped
  <2>2. wire' \in Seq(Message)
    BY <2>1, AppendTyped DEF VenueChanges, Sent, MessageOK
  <2> QED
    BY <2>2 DEF VenueChanges, MessageOK, logVars, past
<1>4. BookOK'
  <2>1. venue[a] \in BookType
    BY DEF BookOK
  <2>2. [venue[a] EXCEPT ![l] = tally'.messages] \in BookType
    BY <1>1, <2>1 DEF BookType
  <2>3. venue' = [venue EXCEPT ![a] = [venue[a] EXCEPT ![l] = tally'.messages]]
    BY DEF VenueChanges
  <2> QED
    BY <2>2, <2>3 DEF VenueChanges, BookOK, reducer
<1>5. MarksOK' /\ QueueOK'
  BY DEF VenueChanges, Miss, MarksOK, QueueOK
<1> QED
  BY <1>1, <1>2, <1>3, <1>4, <1>5

LEMMA BookSentTyped ==
  ASSUME IngestTypeOK, NEW a \in Assets, VenueSendsBook(a)
  PROVE  IngestTypeOK'
<1> USE DEF IngestTypeOK
<1>1. TallyOK'
  BY TallyTyped DEF VenueSendsBook
<1>2. MessageOK'
  <2>1. [kind |-> "book", asset |-> a, book |-> venue[a]] \in Message
    BY MessagesTyped DEF BookOK
  <2> QED
    BY <2>1, AppendTyped DEF VenueSendsBook, MessageOK, logVars, past
<1> QED
  BY <1>1, <1>2 DEF VenueSendsBook, resync, reducer, BookOK, MarksOK, QueueOK, FetchOK

LEMMA MissedTyped == MessageOK => Missed \subseteq Assets
<1> SUFFICES ASSUME MessageOK, NEW m \in InSeq(wire) PROVE m.asset \in Assets
  BY DEF Missed
<1>1. m \in Message
  BY DEF MessageOK, InSeq
<1> QED
  BY <1>1, MessagesTyped

LEMMA BreakTyped ==
  ASSUME IngestTypeOK, Breaks
  PROVE  /\ wire' \in Seq(Message) /\ live' \subseteq Assets /\ behind' \subseteq Assets
         /\ socket' \in {"none", "up", "closed"}
  BY MissedTyped DEF IngestTypeOK, Breaks, MarksOK

LEMMA ConnectionTyped == IngestTypeOK /\ (Connects \/ Cut) => IngestTypeOK'
<1> USE DEF IngestTypeOK
<1>1. ASSUME IngestTypeOK, Connects PROVE IngestTypeOK'
  BY <1>1, TallyTyped DEF Connects, logVars, past, reducer, resync, MessageOK, BookOK, MarksOK,
     QueueOK, FetchOK
<1>2. ASSUME IngestTypeOK, Cut PROVE IngestTypeOK'
  <2>1. TallyOK' /\ FetchOK'
    BY <1>2, TallyTyped, StalesTyped DEF Cut, FetchOK
  <2>2. MessageOK' /\ MarksOK'
    BY <1>2, BreakTyped DEF Cut, logVars, past, MessageOK, MarksOK
  <2>3. BookOK' /\ QueueOK'
    BY <1>2 DEF Cut, reducer, BookOK, QueueOK
  <2> QED
    BY <2>1, <2>2, <2>3
<1> QED
  BY <1>1, <1>2

LEMMA EnqueueTyped ==
  ASSUME QueueOK, NEW a \in Assets, Enqueue(a)
  PROVE  QueueOK'
<1>1. /\ Append(queue, a) \in Seq(Assets) /\ Len(Append(queue, a)) = Len(queue) + 1
      /\ Len(queue) \in Nat /\ QueueSize \in Nat
  BY IngestAssumption DEF QueueOK
<1> QED
  BY <1>1 DEF Enqueue, QueueOK

LEMMA DiscoveryTyped ==
  ASSUME IngestTypeOK, NEW a \in Assets, Discover(a) \/ DiscoverPuts(a)
  PROVE  IngestTypeOK'
<1> USE DEF IngestTypeOK
<1>1. QueueOK'
  <2>1. CASE Enqueue(a)
    BY <2>1, EnqueueTyped
  <2>2. CASE UNCHANGED queue
    BY <2>2 DEF QueueOK
  <2> QED
    BY <2>1, <2>2 DEF Discover, DiscoverPuts
<1>2. CASE Discover(a)
  BY <1>1, <1>2 DEF Discover, logVars, past, reducer, MessageOK, BookOK, MarksOK, FetchOK, TallyOK
<1>3. CASE DiscoverPuts(a)
  BY <1>1, <1>3 DEF DiscoverPuts, logVars, past, reducer, network, MessageOK, BookOK, MarksOK,
     FetchOK, TallyOK
<1> QED
  BY <1>2, <1>3

LEMMA WorkerTyped ==
  ASSUME IngestTypeOK, NEW w \in Workers, WorkerStep(w)
  PROVE  IngestTypeOK'
<1> USE DEF IngestTypeOK
<1>1. fetch[w] \in Fetching /\ NoFetch \in Fetching
  BY NoFetchTyped DEF FetchOK
<1>2. CASE WorkerAsks(w)
  <2>1. Tail(queue) \in Seq(Assets) /\ Head(queue) \in Assets /\ Len(Tail(queue)) = Len(queue) - 1
    BY <1>2, TailTyped DEF WorkerAsks, QueueOK
  <2>2. Len(queue) \in Nat /\ QueueSize \in Nat
    BY IngestAssumption DEF QueueOK
  <2>3. QueueOK'
    BY <1>2, <2>1, <2>2 DEF WorkerAsks, QueueOK
  <2>4. [NoFetch EXCEPT !.pc = "asked", !.asset = Head(queue)] \in Fetching
    BY <1>1, <2>1, IngestAssumption DEF Fetching, FetchType
  <2>5. FetchOK'
    BY <1>2, <2>4 DEF WorkerAsks, FetchOK
  <2> QED
    BY <1>2, <2>3, <2>5 DEF WorkerAsks, logVars, past, reducer, network, MessageOK, BookOK,
       MarksOK, TallyOK
<1>3. ~(fetch[w].pc = "idle") => fetch[w].asset \in Assets /\ fetch[w].book \in BookType
  BY <1>1 DEF Fetching, FetchType
<1>4. CASE RestAnswers(w)
  <2>1. venue[fetch[w].asset] \in BookType
    BY <1>3, <1>4 DEF RestAnswers, BookOK
  <2>2. [fetch[w] EXCEPT !.pc = "answered", !.book = venue[fetch[w].asset], !.fresh = TRUE]
          \in Fetching
    BY <1>1, <1>3, <1>4, <2>1, IngestAssumption DEF RestAnswers, Fetching, FetchType
  <2>3. FetchOK'
    BY <1>4, <2>2 DEF RestAnswers, FetchOK
  <2> QED
    BY <1>4, <2>3 DEF RestAnswers, logVars, past, reducer, network, MessageOK, BookOK,
       MarksOK, QueueOK, TallyOK
<1>5. CASE RestFails(w)
  <2>1. failed' \subseteq Assets
    BY <1>3, <1>5 DEF RestFails, MarksOK
  <2>2. FetchOK' /\ TallyOK'
    BY <1>1, <1>5, TallyTyped DEF RestFails, FetchOK
  <2> QED
    BY <1>5, <2>1, <2>2 DEF RestFails, logVars, past, reducer, network, MessageOK, BookOK,
       MarksOK, QueueOK
<1>6. CASE SnapshotArrives(w)
  <2>1. FetchOK' /\ BookOK'
    BY <1>1, <1>3, <1>6 DEF SnapshotArrives, network, FetchOK, BookOK
  <2>2. MarksOK'
    BY <1>3, <1>6 DEF SnapshotArrives, network, MarksOK
  <2> QED
    BY <1>6, <2>1, <2>2 DEF SnapshotArrives, logVars, past, network, MessageOK, QueueOK, TallyOK
<1> QED
  BY <1>2, <1>4, <1>5, <1>6 DEF WorkerStep

LEMMA ReceiveTyped ==
  ASSUME LogTypeOK, IngestTypeOK, NEW kind, Receives(kind)
  PROVE  /\ MessageOK' /\ Head(wire) \in Message /\ Head(wire).kind = kind
         /\ Head(wire).asset \in Assets
<1>1. Head(wire) \in Message /\ Tail(wire) \in Seq(Message)
  BY TailTyped DEF Receives, IngestTypeOK, MessageOK
<1>2. Append(history, Head(wire)) \in Seq(Message)
      /\ Len(Append(history, Head(wire))) = Len(history) + 1
  BY <1>1, AppendTyped DEF IngestTypeOK, MessageOK
<1> QED
  BY <1>1, <1>2, MessagesTyped DEF Receives, LogEvent, IngestTypeOK, MessageOK

LEMMA BookHandledTyped == LogTypeOK /\ IngestTypeOK /\ HandleBook => IngestTypeOK'
<1> SUFFICES ASSUME LogTypeOK, IngestTypeOK, HandleBook PROVE IngestTypeOK'
  OBVIOUS
<1>1. /\ MessageOK' /\ Head(wire) \in Message /\ Head(wire).kind = "book"
      /\ Head(wire).asset \in Assets
  BY ReceiveTyped DEF HandleBook
<1>2. Head(wire).book \in BookType
  BY <1>1, MessagesTyped
<1>3. BookOK'
  BY <1>1, <1>2 DEF HandleBook, IngestTypeOK, BookOK
<1>4. MarksOK'
  BY <1>1 DEF HandleBook, IngestTypeOK, MarksOK
<1> QED
  BY <1>1, <1>3, <1>4 DEF HandleBook, IngestTypeOK, QueueOK, FetchOK, TallyOK

LEMMA ResyncTyped ==
  ASSUME QueueOK, MarksOK, NEW a \in Assets, RequestResync(a)
  PROVE  QueueOK' /\ pending' \subseteq Assets
<1>1. CASE UNCHANGED <<pending, queue>>
  BY <1>1 DEF QueueOK, MarksOK
<1>2. CASE pending' = pending \cup {a} /\ queue' = Append(queue, a) /\ Len(queue) # QueueSize
  <2>1. Len(queue) \in Nat /\ QueueSize \in Nat /\ Len(queue) <= QueueSize
    BY IngestAssumption DEF QueueOK
  <2>2. Append(queue, a) \in Seq(Assets) /\ Len(Append(queue, a)) = Len(queue) + 1
    BY AppendTyped DEF QueueOK
  <2> QED
    BY <1>2, <2>1, <2>2 DEF QueueOK, MarksOK
<1> QED
  BY <1>1, <1>2 DEF RequestResync

LEMMA ChangeHandledTyped == LogTypeOK /\ IngestTypeOK /\ HandleChange => IngestTypeOK'
<1> SUFFICES ASSUME LogTypeOK, IngestTypeOK, HandleChange PROVE IngestTypeOK'
  OBVIOUS
<1> DEFINE m == Head(wire)
<1>1. MessageOK' /\ m \in Message /\ m.kind = "change" /\ m.asset \in Assets
  BY ReceiveTyped DEF HandleChange
<1>2. m.level \in Levels /\ m.to \in Changes
  BY <1>1, MessagesTyped
<1>3. FetchOK'
  BY StalesTyped DEF HandleChange, IngestTypeOK, FetchOK
<1>4. BookOK' /\ QueueOK' /\ pending' \subseteq Assets
  <2>1. venue' = venue /\ based' = based
    BY DEF HandleChange
  <2>2. CASE SetLevel(m)
    <3>1. [book[m.asset] EXCEPT ![m.level] = m.to] \in BookType
      BY <1>1, <1>2 DEF IngestTypeOK, BookOK, BookType
    <3>2. book' = [book EXCEPT ![m.asset] = [book[m.asset] EXCEPT ![m.level] = m.to]]
      BY <2>2 DEF SetLevel
    <3> QED
      BY <1>1, <2>1, <2>2, <3>1, <3>2 DEF SetLevel, IngestTypeOK, BookOK, QueueOK, MarksOK
  <2>3. CASE RequestResync(m.asset) /\ UNCHANGED book
    BY <1>1, <2>1, <2>3, ResyncTyped DEF IngestTypeOK, BookOK
  <2> QED
    BY <2>2, <2>3 DEF HandleChange
<1>5. MarksOK'
  BY <1>1, <1>4 DEF HandleChange, IngestTypeOK, MarksOK
<1> QED
  BY <1>1, <1>3, <1>4, <1>5 DEF HandleChange, IngestTypeOK, TallyOK

LEMMA StopTyped == IngestTypeOK /\ Stops => IngestTypeOK'
<1> SUFFICES ASSUME IngestTypeOK, Stops PROVE IngestTypeOK'
  OBVIOUS
<1>1. MessageOK' /\ MarksOK'
  BY BreakTyped DEF Stops, LogStops, IngestTypeOK, MessageOK, MarksOK
<1>2. FetchOK'
  BY NoFetchTyped DEF Stops, FetchOK
<1> QED
  BY <1>1, <1>2 DEF Stops, reducer, IngestTypeOK, BookOK, QueueOK, TallyOK

LEMMA LoggingTyped == IngestTypeOK /\ Logging => IngestTypeOK'
<1>1. Logging => logged' = logged
  BY DEF Logging, LoopFlushes, Writes, WriteFails, ReadBegins, ReadSelects, past
<1>2. Logging /\ TallyOK => TallyOK'
  BY TallyTyped DEF Logging
<1> QED
  BY <1>1, <1>2 DEF Logging, reducer, resync, network, IngestTypeOK, MessageOK, BookOK, MarksOK,
     QueueOK, FetchOK

LEMMA TypeStep == LogTypeOK /\ IngestTypeOK /\ [Next]_vars => IngestTypeOK'
<1> SUFFICES ASSUME LogTypeOK, IngestTypeOK, [Next]_vars PROVE IngestTypeOK'
  OBVIOUS
<1>1. CASE UNCHANGED vars
  BY <1>1 DEF vars, logVars, past, reducer, resync, network, IngestTypeOK, MessageOK, BookOK,
     MarksOK, QueueOK, FetchOK, TallyOK
<1> QED
  BY <1>1, ChangeTyped, BookSentTyped, ConnectionTyped, DiscoveryTyped, WorkerTyped,
     BookHandledTyped, ChangeHandledTyped, StopTyped, LoggingTyped DEF Next

-----------------------------------------------------------------------------
Served(a) == a \in InSeq(queue) \/ (\E w \in Workers : fetch[w].asset = a) \/ a \in failed

LEMMA ServedIs == PendingIsServed <=> (open => \A a \in pending : Served(a))
  BY DEF PendingIsServed, Served

LEMMA ServedNext == PendingIsServed' <=> (open' => \A a \in pending' : Served(a)')
  BY DEF PendingIsServed, Served, InSeq

(* What is served stays so while the queue, the workers and the failures   *)
(* keep the asset.                                                         *)
LEMMA StaysServed ==
  ASSUME NEW a, Served(a), InSeq(queue) \subseteq InSeq(queue'), failed \subseteq failed',
         \A w \in Workers : fetch'[w].asset = fetch[w].asset
  PROVE  Served(a)'
<1>1. InSeq(queue)' = InSeq(queue')
  BY DEF InSeq
<1> QED
  BY <1>1 DEF Served

LEMMA StalesKeep ==
  ASSUME FetchOK, NEW as, fetch' = Stales(as), NEW w \in Workers
  PROVE  fetch'[w].asset = fetch[w].asset
<1>1. fetch[w] \in Fetching
  BY DEF FetchOK
<1> QED
  BY <1>1 DEF Stales, Fetching, FetchType

LEMMA ServedByWorker ==
  ASSUME IngestTypeOK, NEW w \in Workers, NEW a \in Assets, Served(a), a \in pending',
         WorkerStep(w)
  PROVE  Served(a)'
<1>1. /\ fetch \in [Workers -> Fetching] /\ queue \in Seq(Assets)
      /\ \A v \in Workers : fetch[v].pc = "idle" => fetch[v].asset = "none"
  BY DEF IngestTypeOK, FetchOK, QueueOK, Fetching
<1>2. a # "none"
  BY IngestAssumption
<1>3. CASE WorkerAsks(w)
  <2>1. InSeq(queue) = {Head(queue)} \cup InSeq(queue')
    BY <1>1, <1>3, InSeqTail DEF WorkerAsks
  <2>2. /\ fetch'[w].asset = Head(queue) /\ fetch[w].asset = "none" /\ failed' = failed
        /\ \A v \in Workers \ {w} : fetch'[v] = fetch[v]
    BY <1>1, <1>3 DEF WorkerAsks, NoFetch
  <2>3. InSeq(queue)' = InSeq(queue')
    BY DEF InSeq
  <2> QED
    BY <1>2, <2>1, <2>2, <2>3 DEF Served
<1>4. CASE RestAnswers(w)
  <2>1. \A v \in Workers : fetch'[v].asset = fetch[v].asset
    BY <1>1, <1>4 DEF RestAnswers, Fetching, FetchType
  <2> QED
    BY <1>4, <2>1, StaysServed DEF RestAnswers
<1>5. CASE RestFails(w) \/ SnapshotArrives(w)
  <2>1. /\ queue' = queue /\ \A v \in Workers \ {w} : fetch'[v] = fetch[v]
        /\ a = fetch[w].asset => a \in failed'
        /\ a # fetch[w].asset => (a \in failed => a \in failed')
    BY <1>1, <1>5 DEF RestFails, SnapshotArrives
  <2> QED
    BY <2>1 DEF Served, InSeq
<1> QED
  BY <1>3, <1>4, <1>5 DEF WorkerStep

LEMMA ServedByMessage ==
  ASSUME LogTypeOK, IngestTypeOK, NEW a \in Assets, a \in pending => Served(a), a \in pending',
         HandleBook \/ HandleChange
  PROVE  Served(a)'
<1>1. CASE HandleBook
  <2>1. /\ a \in pending /\ (a \in failed => a \in failed') /\ UNCHANGED <<queue, fetch>>
    BY <1>1 DEF HandleBook
  <2> QED
    BY <2>1 DEF Served, InSeq
<1>2. CASE HandleChange
  <2> DEFINE b == Head(wire).asset
  <2>1. b \in Assets
    BY <1>2, ReceiveTyped DEF HandleChange
  <2>2. failed' = failed /\ \A w \in Workers : fetch'[w].asset = fetch[w].asset
    BY <1>2, StalesKeep DEF HandleChange, IngestTypeOK
  <2>3. CASE UNCHANGED <<pending, queue>>
    BY <2>2, <2>3, StaysServed
  <2>4. CASE pending' = pending \cup {b} /\ queue' = Append(queue, b)
    <3>1. InSeq(queue') = InSeq(queue) \cup {b}
      BY <2>1, <2>4, InSeqAppend DEF IngestTypeOK, QueueOK
    <3>2. InSeq(queue)' = InSeq(queue')
      BY DEF InSeq
    <3>3. CASE a = b
      BY <3>1, <3>2, <3>3 DEF Served
    <3>4. CASE a # b
      BY <2>2, <2>4, <3>1, <3>4, StaysServed
    <3> QED
      BY <3>3, <3>4
  <2> QED
    BY <1>2, <2>3, <2>4 DEF HandleChange, SetLevel, RequestResync
<1> QED
  BY <1>1, <1>2

Elsewhere ==
  \/ \E c \in Assets : \/ VenueSendsBook(c) \/ Discover(c) \/ DiscoverPuts(c)
                       \/ \E l \in Levels, nested \in BOOLEAN : VenueChanges(c, l, nested)
  \/ Connects \/ Cut \/ Logging \/ UNCHANGED vars

LEMMA ServedElsewhere ==
  ASSUME IngestTypeOK, NEW a \in Assets, Served(a), Elsewhere
  PROVE  Served(a)'
<1>1. failed' = failed
  BY DEF Elsewhere, VenueSendsBook, Discover, DiscoverPuts, VenueChanges, Connects, Cut, Logging,
     vars, resync
<1>2. InSeq(queue) \subseteq InSeq(queue')
  <2>1. CASE queue' = queue
    BY <2>1
  <2>2. ASSUME NEW c \in Assets, Enqueue(c) PROVE InSeq(queue) \subseteq InSeq(queue')
    BY <2>2, InSeqAppend DEF Enqueue, IngestTypeOK, QueueOK
  <2>3. queue' = queue \/ \E c \in Assets : Enqueue(c)
    BY DEF Elsewhere, VenueSendsBook, Discover, DiscoverPuts, VenueChanges, Connects, Cut,
       Logging, vars, resync
  <2> QED
    BY <2>1, <2>2, <2>3
<1>3. \A w \in Workers : fetch'[w].asset = fetch[w].asset
  <2>1. ASSUME NEW as, fetch' = Stales(as)
        PROVE  \A w \in Workers : fetch'[w].asset = fetch[w].asset
    BY <2>1, StalesKeep DEF IngestTypeOK
  <2>2. fetch' = fetch \/ \E as : fetch' = Stales(as)
    BY DEF Elsewhere, VenueSendsBook, Discover, DiscoverPuts, VenueChanges, Connects, Cut,
       Logging, vars, resync
  <2> QED
    BY <2>1, <2>2
<1> QED
  BY <1>1, <1>2, <1>3, StaysServed

LEMMA ServedStep ==
  ASSUME LogTypeOK, IngestTypeOK, IngestTypeOK', PendingIsServed, [Next]_vars
  PROVE  PendingIsServed'
<1> SUFFICES ASSUME open', NEW a \in pending' PROVE Served(a)'
  BY ServedNext
<1>1. a \in Assets
  BY DEF IngestTypeOK, MarksOK
<1>2. ~Stops /\ open
  <2>1. ~LogStops
    BY DEF LogStops
  <2>2. open
    BY <2>1, StepsOfLog DEF LogNext, LogEvent, LoopFlushes, Writes, WriteFails, ReadBegins,
       ReadSelects, logVars
  <2> QED
    BY <2>1, <2>2 DEF Stops
<1>3. a \in pending => Served(a)
  BY <1>2, ServedIs
<1>4. CASE HandleBook \/ HandleChange
  BY <1>1, <1>3, <1>4, ServedByMessage
<1>5. CASE \E w \in Workers : WorkerStep(w)
  <2>1. pending' \subseteq pending
    BY <1>5 DEF WorkerStep, WorkerAsks, RestAnswers, RestFails, SnapshotArrives
  <2> QED
    BY <1>1, <1>3, <1>5, <2>1, ServedByWorker
<1>6. CASE Elsewhere
  <2>1. pending' \subseteq pending
    BY <1>6 DEF Elsewhere, VenueChanges, VenueSendsBook, Discover, DiscoverPuts, Connects, Cut,
       Logging, resync, vars
  <2> QED
    BY <1>1, <1>3, <1>6, <2>1, ServedElsewhere
<1> QED
  BY <1>2, <1>4, <1>5, <1>6 DEF Next, Elsewhere

-----------------------------------------------------------------------------
(* The greatest of some positions. *)
LEMMA LatestIs ==
  ASSUME NEW k \in Nat, NEW N, N \subseteq 1..k, N # {}
  PROVE  Max(N) \in N /\ \A n \in N : n <= Max(N)
<1> DEFINE D == {k - n : n \in N}
<1>2. D \subseteq Nat /\ D # {}
  <2>1. \A n \in N : n \in 1..k /\ k - n \in Nat /\ k - n \in D
    OBVIOUS
  <2> QED
    BY <2>1
<1> DEFINE R == OpToRel(<, Nat)
<1>1. IsWellFoundedOn(R, Nat)
  BY NatLessThanWellFounded
<1>3. \A y, z \in Nat : y < z => <<y, z>> \in R
  BY DEF OpToRel
<1> HIDE DEF R, D
<1>4. PICK d \in D : \A y \in D : <<y, d>> \notin R
  BY <1>1, <1>2, WFMin
<1>5. \A y \in D : d <= y
  <2> TAKE y \in D
  <2>1. d \in Nat /\ y \in Nat
    BY <1>2
  <2>2. ~(y < d)
    BY <1>3, <1>4, <2>1
  <2> QED
    BY <2>1, <2>2
<1>6. PICK x \in N : d = k - x
  BY DEF D
<1>7. \A n \in N : n <= x
  <2> TAKE n \in N
  <2>1. d <= k - n
    BY <1>5 DEF D
  <2> QED
    BY <2>1, <1>6
<1>8. \E z \in N : \A n \in N : z >= n
  BY <1>7
<1>9. Max(N) \in N /\ \A n \in N : Max(N) >= n
  BY <1>8 DEF Max
<1> QED
  BY <1>9

-----------------------------------------------------------------------------
ChangeOf(m, a, l) == m.kind = "change" /\ m.asset = a /\ m.level = l
Quiet(ms, n, a, l) == \A k \in DOMAIN ms : k > n => ~ChangeOf(ms[k], a, l)

(* The last change of a level among some messages, and every book after    *)
(* it, set it to v.                                                        *)
Agrees(ms, v, a, l) ==
  \A n \in DOMAIN ms : Sets(ms[n], a, l) /\ Quiet(ms, n, a, l) => Value(ms[n], l) = v

LEMMA KindsOf ==
  \A m \in Message, a \in Assets, l \in Levels :
    /\ m.kind \in {"book", "change"}
    /\ ChangeOf(m, a, l) => Sets(m, a, l) /\ Value(m, l) = m.to
    /\ Sets(m, a, l) /\ ~ChangeOf(m, a, l) => m.kind = "book"
  BY DEF Message, ChangeOf, Sets, Value

LEMMA Appended ==
  ASSUME NEW s \in Seq(Message), NEW m \in Message
  PROVE  /\ DOMAIN s = 1..Len(s) /\ Len(s) \in Nat
         /\ DOMAIN Append(s, m) = 1..(Len(s) + 1)
         /\ \A n \in DOMAIN s : Append(s, m)[n] = s[n]
         /\ Append(s, m)[Len(s) + 1] = m
  OBVIOUS

LEMMA Tailed ==
  ASSUME NEW s \in Seq(Message), s # <<>>
  PROVE  /\ Tail(s) \in Seq(Message) /\ Head(s) \in Message /\ Head(s) = s[1]
         /\ Len(s) \in Nat \ {0} /\ DOMAIN s = 1..Len(s)
         /\ DOMAIN Tail(s) = 1..(Len(s) - 1)
         /\ \A n \in DOMAIN Tail(s) : Tail(s)[n] = s[n + 1]
  OBVIOUS

LEMMA AppendedOther ==
  ASSUME NEW s \in Seq(Message), NEW m \in Message, NEW a \in Assets, NEW l \in Levels, NEW v,
         ~ChangeOf(m, a, l), Sets(m, a, l) => Value(m, l) = v, Agrees(s, v, a, l)
  PROVE  Agrees(Append(s, m), v, a, l) /\ (Quiet(Append(s, m), 0, a, l) => Quiet(s, 0, a, l))
<1> DEFINE t == Append(s, m)
<1>1. /\ DOMAIN s = 1..Len(s) /\ Len(s) \in Nat /\ DOMAIN t = 1..(Len(s) + 1)
      /\ \A n \in DOMAIN s : t[n] = s[n]
      /\ t[Len(s) + 1] = m
  BY Appended
<1> HIDE DEF t
<1>2. DOMAIN s \subseteq DOMAIN t /\ \A n \in DOMAIN t : n \in DOMAIN s \/ n = Len(s) + 1
  BY <1>1
<1>3. \A n \in Nat : Quiet(t, n, a, l) => Quiet(s, n, a, l)
  BY <1>1, <1>2 DEF Quiet
<1>4. Agrees(t, v, a, l)
  <2> SUFFICES ASSUME NEW n \in DOMAIN t, Sets(t[n], a, l), Quiet(t, n, a, l)
               PROVE  Value(t[n], l) = v
    BY DEF Agrees
  <2>1. CASE n = Len(s) + 1
    BY <1>1, <2>1
  <2>2. CASE n \in DOMAIN s
    <3>1. n \in Nat /\ t[n] = s[n]
      BY <1>1, <2>2
    <3> QED
      BY <1>3, <2>2, <3>1 DEF Agrees
  <2> QED
    BY <1>2, <2>1, <2>2
<1> QED
  BY <1>3, <1>4 DEF t

LEMMA AppendedChange ==
  ASSUME NEW s \in Seq(Message), NEW m \in Message, NEW a \in Assets, NEW l \in Levels,
         ChangeOf(m, a, l)
  PROVE  Agrees(Append(s, m), m.to, a, l) /\ ~Quiet(Append(s, m), 0, a, l)
<1> DEFINE t == Append(s, m)
<1>1. /\ DOMAIN s = 1..Len(s) /\ Len(s) \in Nat /\ DOMAIN t = 1..(Len(s) + 1)
      /\ t[Len(s) + 1] = m
  BY Appended
<1> HIDE DEF t
<1>2. Len(s) + 1 \in DOMAIN t /\ Len(s) + 1 > 0 /\ \A n \in DOMAIN s : Len(s) + 1 > n
  BY <1>1
<1>3. ~Quiet(t, 0, a, l) /\ \A n \in DOMAIN s : ~Quiet(t, n, a, l)
  BY <1>1, <1>2 DEF Quiet
<1>4. Value(m, l) = m.to
  BY KindsOf
<1>5. \A n \in DOMAIN t : n \in DOMAIN s \/ n = Len(s) + 1
  BY <1>1
<1> QED
  BY <1>1, <1>3, <1>4, <1>5 DEF Agrees, t

LEMMA AgreesTail ==
  ASSUME NEW s \in Seq(Message), s # <<>>, NEW a \in Assets, NEW l \in Levels, NEW v,
         Agrees(s, v, a, l)
  PROVE  /\ Agrees(Tail(s), v, a, l)
         /\ Quiet(Tail(s), 0, a, l) => /\ Sets(Head(s), a, l) => Value(Head(s), l) = v
                                       /\ ~ChangeOf(Head(s), a, l) => Quiet(s, 0, a, l)
<1> DEFINE t == Tail(s)
<1>1. /\ Head(s) = s[1] /\ Len(s) \in Nat \ {0} /\ DOMAIN s = 1..Len(s)
      /\ DOMAIN t = 1..(Len(s) - 1) /\ \A n \in DOMAIN t : t[n] = s[n + 1]
  BY Tailed
<1> HIDE DEF t
<1>2. /\ 1 \in DOMAIN s
      /\ \A n \in DOMAIN t : n + 1 \in DOMAIN s /\ n \in Nat
      /\ \A k \in DOMAIN s : k = 1 \/ (k - 1 \in DOMAIN t /\ s[k] = t[k - 1])
      /\ \A k \in DOMAIN s : k \in Nat /\ k > 0
  BY <1>1
<1>3. ASSUME NEW n \in Nat, Quiet(t, n, a, l) PROVE Quiet(s, n + 1, a, l)
  <2> SUFFICES ASSUME NEW k \in DOMAIN s, k > n + 1 PROVE ~ChangeOf(s[k], a, l)
    BY DEF Quiet
  <2>1. k # 1 /\ k - 1 > n
    BY <1>2
  <2> QED
    BY <1>2, <1>3, <2>1 DEF Quiet
<1>4. Agrees(t, v, a, l)
  <2> SUFFICES ASSUME NEW n \in DOMAIN t, Sets(t[n], a, l), Quiet(t, n, a, l)
               PROVE  Value(t[n], l) = v
    BY DEF Agrees
  <2>1. n + 1 \in DOMAIN s /\ t[n] = s[n + 1] /\ Quiet(s, n + 1, a, l)
    BY <1>1, <1>2, <1>3
  <2> QED
    BY <2>1 DEF Agrees
<1>5. ASSUME Quiet(t, 0, a, l)
      PROVE  /\ Sets(Head(s), a, l) => Value(Head(s), l) = v
             /\ ~ChangeOf(Head(s), a, l) => Quiet(s, 0, a, l)
  <2>1. Quiet(s, 1, a, l)
    BY <1>3, <1>5
  <2>2. Sets(s[1], a, l) => Value(s[1], l) = v
    BY <1>2, <2>1 DEF Agrees
  <2>3. ~ChangeOf(s[1], a, l) => Quiet(s, 0, a, l)
    <3>1. \A k \in DOMAIN s : k = 1 \/ k > 1
      BY <1>2
    <3> QED
      BY <2>1, <3>1 DEF Quiet
  <2> QED
    BY <1>1, <2>2, <2>3
<1> QED
  BY <1>4, <1>5 DEF t

(* Messages that agree on a level bring a book to it. *)
LEMMA AgreesApplied ==
  ASSUME NEW s \in Seq(Message), NEW a \in Assets, NEW l \in Levels, NEW v, NEW b,
         Agrees(s, v, a, l), Quiet(s, 0, a, l) => b[l] = v
  PROVE  Level(b, l, s, {n \in DOMAIN s : Sets(s[n], a, l)}) = v
<1> DEFINE N == {n \in DOMAIN s : Sets(s[n], a, l)}
<1>1. DOMAIN s = 1..Len(s) /\ Len(s) \in Nat /\ \A n \in DOMAIN s : s[n] \in Message
  OBVIOUS
<1>2. \A n \in DOMAIN s : ChangeOf(s[n], a, l) => n \in N
  BY <1>1, KindsOf
<1>3. N \subseteq DOMAIN s /\ \A n \in N : Sets(s[n], a, l)
  OBVIOUS
<1> HIDE DEF N
<1>4. CASE N = {}
  <2>1. Quiet(s, 0, a, l)
    BY <1>2, <1>4 DEF Quiet
  <2> QED
    BY <1>4, <2>1 DEF Level, N
<1>5. CASE N # {}
  <2>1. Max(N) \in N /\ \A n \in N : n <= Max(N)
    BY <1>1, <1>3, <1>5, LatestIs
  <2>2. Max(N) \in Nat
    BY <1>1, <1>3, <2>1
  <2>3. \A n \in DOMAIN s : n > Max(N) => n \notin N
    BY <1>1, <2>1, <2>2
  <2>4. Quiet(s, Max(N), a, l)
    BY <1>2, <2>3 DEF Quiet
  <2>5. Value(s[Max(N)], l) = v
    BY <1>3, <2>1, <2>4 DEF Agrees
  <2> QED
    BY <1>5, <2>5 DEF Level, N
<1> QED
  BY <1>4, <1>5

-----------------------------------------------------------------------------
BookAt(a, l)     == based[a] /\ a \notin behind => book[a][l] = venue[a][l]
FetchAt(w, a, l) ==
  fetch[w].asset = a /\ fetch[w].fresh => fetch[w].book[l] = venue[a][l]
LevelAt(a, l) ==
  /\ Agrees(wire, venue[a][l], a, l)
  /\ Quiet(wire, 0, a, l) => BookAt(a, l) /\ \A w \in Workers : FetchAt(w, a, l)
LineInv ==
  /\ socket # "up" => live = {}
  /\ \A n \in DOMAIN wire : wire[n].asset \in live
SyncInv == LineInv /\ \A a \in Assets, l \in Levels : LevelAt(a, l)

LEMMA LevelNext ==
  ASSUME NEW a, NEW l
  PROVE  LevelAt(a, l)' <=>
           /\ Agrees(wire', venue'[a][l], a, l)
           /\ Quiet(wire', 0, a, l) => BookAt(a, l)' /\ \A w \in Workers : FetchAt(w, a, l)'
  BY DEF LevelAt, Agrees, Quiet, ChangeOf, Sets, Value

LEMMA SyncInit == Init => SyncInv
<1> SUFFICES ASSUME Init PROVE SyncInv
  OBVIOUS
<1>1. DOMAIN wire = {} /\ LineInv
  BY DEF Init, LineInv
<1>2. ASSUME NEW a \in Assets, NEW l \in Levels PROVE LevelAt(a, l)
  BY <1>1 DEF Init, LevelAt, Agrees, BookAt, FetchAt, NoFetch
<1> QED
  BY <1>1, <1>2 DEF SyncInv

LEMMA LevelStays ==
  ASSUME NEW a \in Assets, NEW l \in Levels, LevelAt(a, l), wire' = wire, venue' = venue,
         BookAt(a, l) => BookAt(a, l)',
         \A w \in Workers : FetchAt(w, a, l) => FetchAt(w, a, l)'
  PROVE  LevelAt(a, l)'
  BY LevelNext DEF LevelAt

(* Fetches that are made stale promise nothing new. *)
LEMMA StaleFetches ==
  ASSUME FetchOK, NEW as, fetch' = Stales(as), NEW w \in Workers
  PROVE  /\ fetch'[w].asset = fetch[w].asset /\ fetch'[w].book = fetch[w].book
         /\ fetch'[w].fresh => fetch[w].fresh /\ fetch[w].asset \notin as
<1>1. fetch[w] \in Fetching
  BY DEF FetchOK
<1>2. fetch'[w] = IF fetch[w].asset \in as THEN [fetch[w] EXCEPT !.fresh = FALSE] ELSE fetch[w]
  BY DEF Stales
<1>3. CASE fetch[w].asset \in as
  BY <1>1, <1>2, <1>3 DEF Fetching, FetchType
<1>4. CASE fetch[w].asset \notin as
  BY <1>2, <1>4
<1> QED
  BY <1>3, <1>4

(* A level that changes at the venue, and the others. *)
LEMMA ChangeSyncs ==
  ASSUME IngestTypeOK, SyncInv, NEW a \in Assets, NEW l \in Levels, NEW nested \in BOOLEAN,
         VenueChanges(a, l, nested)
  PROVE  SyncInv'
<1> DEFINE m == [kind |-> "change", asset |-> a, level |-> l, to |-> tally'.messages,
                 nested |-> nested]
<1>1. /\ wire \in Seq(Message) /\ venue \in [Assets -> BookType] /\ FetchOK
      /\ UNCHANGED <<book, based, live, socket>>
      /\ venue' = [venue EXCEPT ![a] = [venue[a] EXCEPT ![l] = tally'.messages]]
  BY DEF VenueChanges, IngestTypeOK, MessageOK, BookOK, reducer
<1>2. m \in Message
  <2>1. tally'.messages \in Changes
    BY TallyTyped DEF VenueChanges, IngestTypeOK
  <2> QED
    BY <2>1, MessagesTyped
<1>3. /\ m.asset = a /\ ChangeOf(m, a, l) /\ m.to = tally'.messages
      /\ \A b \in Assets, k \in Levels :
           b # a \/ k # l => ~Sets(m, b, k) /\ ~ChangeOf(m, b, k)
  BY DEF ChangeOf, Sets
<1>4. /\ venue'[a][l] = tally'.messages
      /\ \A b \in Assets, k \in Levels : b # a \/ k # l => venue'[b][k] = venue[b][k]
  BY <1>1 DEF BookType
<1>5. /\ a \in live => /\ wire' = Append(wire, m) /\ behind' = behind /\ fetch' = fetch
      /\ a \notin live => /\ wire' = wire /\ behind' = behind \cup {a} /\ fetch' = Stales({a})
  BY DEF VenueChanges, Sent, Miss
<1> HIDE DEF m
<1>6. LineInv'
  <2>1. CASE a \in live
    <3>1. \A n \in DOMAIN Append(wire, m) : Append(wire, m)[n].asset \in live
      BY <1>1, <1>2, <1>3, <2>1, Appended DEF SyncInv, LineInv
    <3> QED
      BY <1>1, <1>5, <2>1, <3>1 DEF SyncInv, LineInv
  <2>2. CASE a \notin live
    BY <1>1, <1>5, <2>2 DEF SyncInv, LineInv
  <2> QED
    BY <2>1, <2>2
<1>7. ASSUME NEW b \in Assets, NEW k \in Levels, a \in live PROVE LevelAt(b, k)'
  <2>1. LevelAt(b, k) /\ wire' = Append(wire, m) /\ behind' = behind /\ fetch' = fetch
    BY <1>5, <1>7 DEF SyncInv
  <2>2. CASE b = a /\ k = l
    <3>1. Agrees(Append(wire, m), m.to, a, l) /\ ~Quiet(Append(wire, m), 0, a, l)
      BY <1>1, <1>2, <1>3, AppendedChange
    <3> QED
      BY <1>3, <1>4, <2>1, <2>2, <3>1, LevelNext
  <2>3. CASE b # a \/ k # l
    <3>1. ~ChangeOf(m, b, k) /\ ~Sets(m, b, k) /\ Agrees(wire, venue[b][k], b, k)
      BY <1>3, <2>1, <2>3 DEF LevelAt
    <3>2. /\ Agrees(Append(wire, m), venue[b][k], b, k)
          /\ Quiet(Append(wire, m), 0, b, k) => Quiet(wire, 0, b, k)
      BY <1>1, <1>2, <3>1, AppendedOther
    <3>3. venue'[b][k] = venue[b][k]
      BY <1>4, <2>3
    <3>4. Quiet(wire, 0, b, k) => BookAt(b, k)' /\ \A w \in Workers : FetchAt(w, b, k)'
      BY <1>1, <2>1, <3>3 DEF LevelAt, BookAt, FetchAt
    <3> QED
      BY <2>1, <3>2, <3>3, <3>4, LevelNext
  <2> QED
    BY <2>2, <2>3
<1>8. ASSUME NEW b \in Assets, NEW k \in Levels, a \notin live PROVE LevelAt(b, k)'
  <2>1. LevelAt(b, k) /\ wire' = wire /\ behind' = behind \cup {a}
    BY <1>5, <1>8 DEF SyncInv
  <2>2. \A w \in Workers :
          /\ fetch'[w].asset = fetch[w].asset /\ fetch'[w].book = fetch[w].book
          /\ fetch'[w].fresh => fetch[w].fresh /\ fetch[w].asset # a
    BY <1>1, <1>5, <1>8, StaleFetches
  <2>3. CASE b = a
    <3>1. \A n \in DOMAIN wire : ~Sets(wire[n], b, k)
      BY <1>8, <2>3 DEF SyncInv, LineInv, Sets
    <3>2. Agrees(wire, venue'[b][k], b, k)
      BY <3>1 DEF Agrees
    <3>3. BookAt(b, k)' /\ \A w \in Workers : FetchAt(w, b, k)'
      BY <2>1, <2>2, <2>3 DEF BookAt, FetchAt
    <3> QED
      BY <2>1, <3>2, <3>3, LevelNext
  <2>4. CASE b # a
    <3>1. venue'[b][k] = venue[b][k]
      BY <1>4, <2>4
    <3>2. BookAt(b, k) => BookAt(b, k)'
      BY <1>1, <2>1, <3>1 DEF BookAt
    <3>3. \A w \in Workers : FetchAt(w, b, k) => FetchAt(w, b, k)'
      BY <2>2, <3>1 DEF FetchAt
    <3> QED
      BY <2>1, <3>1, <3>2, <3>3, LevelNext DEF LevelAt
  <2> QED
    BY <2>3, <2>4
<1> QED
  BY <1>6, <1>7, <1>8 DEF SyncInv

LEMMA BookSentSyncs ==
  ASSUME IngestTypeOK, SyncInv, NEW a \in Assets, VenueSendsBook(a)
  PROVE  SyncInv'
<1> DEFINE m == [kind |-> "book", asset |-> a, book |-> venue[a]]
<1>1. /\ wire \in Seq(Message) /\ a \in live /\ wire' = Append(wire, m)
      /\ UNCHANGED <<book, based, behind, fetch, venue, live, socket>>
  BY DEF VenueSendsBook, IngestTypeOK, MessageOK, reducer, resync
<1>2. m \in Message /\ m.asset = a
  BY MessagesTyped DEF IngestTypeOK, BookOK
<1>3. \A b \in Assets, l \in Levels :
        ~ChangeOf(m, b, l) /\ (Sets(m, b, l) => Value(m, l) = venue[b][l])
  BY DEF ChangeOf, Sets, Value
<1> HIDE DEF m
<1>4. LineInv'
  <2>1. \A n \in DOMAIN Append(wire, m) : Append(wire, m)[n].asset \in live
    BY <1>1, <1>2, Appended DEF SyncInv, LineInv
  <2> QED
    BY <1>1, <2>1 DEF SyncInv, LineInv
<1>5. ASSUME NEW b \in Assets, NEW l \in Levels PROVE LevelAt(b, l)'
  <2>1. Agrees(wire, venue[b][l], b, l)
    BY DEF SyncInv, LevelAt
  <2>2. /\ Agrees(Append(wire, m), venue[b][l], b, l)
        /\ Quiet(Append(wire, m), 0, b, l) => Quiet(wire, 0, b, l)
    BY <1>1, <1>2, <1>3, <2>1, AppendedOther
  <2>3. Quiet(wire, 0, b, l) => BookAt(b, l)' /\ \A w \in Workers : FetchAt(w, b, l)'
    BY <1>1 DEF SyncInv, LevelAt, BookAt, FetchAt
  <2> QED
    BY <1>1, <2>2, <2>3, LevelNext
<1> QED
  BY <1>4, <1>5 DEF SyncInv

(* What breaks with its connection leaves no promise about what it carried. *)
LEMMA BreakSyncs ==
  ASSUME IngestTypeOK, SyncInv, Breaks, UNCHANGED <<book, based, venue>>,
         \A w \in Workers : fetch'[w].fresh =>
           /\ fetch[w].fresh /\ fetch'[w].asset = fetch[w].asset
           /\ fetch'[w].book = fetch[w].book /\ fetch[w].asset \notin Missed
  PROVE  SyncInv'
<1>1. wire' = <<>> /\ live' = {} /\ behind' = behind \cup Missed
  BY DEF Breaks
<1>2. LineInv'
  BY <1>1 DEF LineInv
<1>3. ASSUME NEW a \in Assets, NEW l \in Levels PROVE LevelAt(a, l)'
  <2>1. a \notin Missed => Quiet(wire, 0, a, l)
    BY DEF Missed, InSeq, Quiet, ChangeOf
  <2>2. BookAt(a, l)'
    BY <1>1, <2>1 DEF SyncInv, LevelAt, BookAt
  <2>3. \A w \in Workers : FetchAt(w, a, l)'
    <3> SUFFICES ASSUME NEW w \in Workers, fetch'[w].asset = a, fetch'[w].fresh
                 PROVE  fetch'[w].book[l] = venue'[a][l]
      BY DEF FetchAt
    <3>1. FetchAt(w, a, l) /\ fetch[w].asset = a /\ fetch[w].fresh
      BY <2>1 DEF SyncInv, LevelAt
    <3> QED
      BY <3>1 DEF FetchAt
  <2>4. Agrees(wire', venue'[a][l], a, l)
    BY <1>1 DEF Agrees
  <2> QED
    BY <2>2, <2>3, <2>4, LevelNext
<1> QED
  BY <1>2, <1>3 DEF SyncInv

LEMMA ConnectionSyncs ==
  ASSUME IngestTypeOK, SyncInv, Connects \/ Cut \/ Stops
  PROVE  SyncInv'
<1>1. CASE Connects
  <2>1. /\ UNCHANGED <<book, based, behind, fetch, venue, wire>> /\ live = {} /\ socket' = "up"
    BY <1>1 DEF Connects, reducer, resync, SyncInv, LineInv
  <2>2. LineInv'
    BY <2>1 DEF SyncInv, LineInv
  <2>3. ASSUME NEW a \in Assets, NEW l \in Levels PROVE LevelAt(a, l)'
    BY <2>1, LevelStays DEF SyncInv, BookAt, FetchAt
  <2> QED
    BY <2>2, <2>3 DEF SyncInv
<1>2. CASE Cut
  <2>1. \A w \in Workers :
          /\ fetch'[w].asset = fetch[w].asset /\ fetch'[w].book = fetch[w].book
          /\ fetch'[w].fresh => fetch[w].fresh /\ fetch[w].asset \notin Missed
    BY <1>2, StaleFetches DEF Cut, IngestTypeOK
  <2> QED
    BY <1>2, <2>1, BreakSyncs DEF Cut, reducer
<1>3. CASE Stops
  <2>1. \A w \in Workers : ~fetch'[w].fresh
    BY <1>3 DEF Stops, NoFetch
  <2> QED
    BY <1>3, <2>1, BreakSyncs DEF Stops, reducer
<1> QED
  BY <1>1, <1>2, <1>3

LEMMA DiscoverySyncs ==
  ASSUME IngestTypeOK, SyncInv, NEW a \in Assets, Discover(a) \/ DiscoverPuts(a)
  PROVE  SyncInv'
<1>1. UNCHANGED <<book, based, behind, fetch, venue, wire, socket>>
  BY DEF Discover, DiscoverPuts, reducer, network
<1>2. live \subseteq live' /\ (socket # "up" => live' = live)
  BY DEF Discover, DiscoverPuts, network
<1>3. LineInv'
  BY <1>1, <1>2 DEF SyncInv, LineInv
<1>4. ASSUME NEW b \in Assets, NEW l \in Levels PROVE LevelAt(b, l)'
  BY <1>1, LevelStays DEF SyncInv, BookAt, FetchAt
<1> QED
  BY <1>3, <1>4 DEF SyncInv

LEMMA WorkerSyncs ==
  ASSUME IngestTypeOK, SyncInv, NEW w \in Workers, WorkerStep(w)
  PROVE  SyncInv'
<1>1. UNCHANGED <<venue, live, wire, socket>>
  BY DEF WorkerStep, WorkerAsks, RestAnswers, RestFails, SnapshotArrives, network
<1>2. LineInv'
  BY <1>1 DEF SyncInv, LineInv
<1>3. /\ fetch \in [Workers -> Fetching] /\ book \in [Assets -> BookType]
      /\ based \in [Assets -> BOOLEAN]
  BY DEF IngestTypeOK, FetchOK, BookOK
<1> SUFFICES ASSUME NEW a \in Assets, NEW l \in Levels PROVE LevelAt(a, l)'
  BY <1>2 DEF SyncInv
<1>4. LevelAt(a, l)
  BY DEF SyncInv
<1>5. CASE WorkerAsks(w) \/ RestFails(w)
  <2>1. UNCHANGED <<book, based, behind>>
    BY <1>5 DEF WorkerAsks, RestFails, reducer
  <2>2. ~fetch'[w].fresh /\ \A v \in Workers \ {w} : fetch'[v] = fetch[v]
    <3>1. ~NoFetch.fresh /\ ~[NoFetch EXCEPT !.pc = "asked", !.asset = Head(queue)].fresh
      BY DEF NoFetch
    <3>2. \/ fetch' = [fetch EXCEPT ![w] = NoFetch]
          \/ fetch' = [fetch EXCEPT ![w] = [NoFetch EXCEPT !.pc = "asked", !.asset = Head(queue)]]
      BY <1>5 DEF WorkerAsks, RestFails
    <3> QED
      BY <1>3, <3>1, <3>2
  <2> QED
    BY <1>1, <1>4, <2>1, <2>2, LevelStays DEF BookAt, FetchAt
<1>6. CASE RestAnswers(w)
  <2>1. UNCHANGED <<book, based, behind>>
    BY <1>6 DEF RestAnswers, reducer
  <2>2. /\ fetch'[w].asset = fetch[w].asset /\ fetch'[w].book = venue[fetch[w].asset]
        /\ \A v \in Workers \ {w} : fetch'[v] = fetch[v]
    BY <1>3, <1>6 DEF RestAnswers, Fetching, FetchType
  <2> QED
    BY <1>1, <1>4, <2>1, <2>2, LevelStays DEF BookAt, FetchAt
<1>7. CASE SnapshotArrives(w)
  <2> DEFINE c == fetch[w].asset
  <2>1. c \in Assets
    BY <1>3, <1>7 DEF SnapshotArrives, Fetching, FetchType
  <2>2. /\ book' = [book EXCEPT ![c] = fetch[w].book] /\ based' = [based EXCEPT ![c] = TRUE]
        /\ behind' = IF fetch[w].fresh THEN behind \ {c} ELSE behind \cup {c}
    BY <1>7 DEF SnapshotArrives
  <2>3. ~fetch'[w].fresh /\ \A v \in Workers \ {w} : fetch'[v] = fetch[v]
    BY <1>3, <1>7 DEF SnapshotArrives, NoFetch
  <2>4. \A v \in Workers : FetchAt(v, a, l) => FetchAt(v, a, l)'
    BY <1>1, <2>3 DEF FetchAt
  <2>5. CASE a # c
    <3>1. book'[a] = book[a] /\ based'[a] = based[a] /\ (a \in behind' <=> a \in behind)
      BY <1>3, <2>1, <2>2, <2>5
    <3> QED
      BY <1>1, <1>4, <2>4, <3>1, LevelStays DEF BookAt
  <2>6. CASE a = c
    <3>1. Quiet(wire, 0, a, l) => BookAt(a, l)'
      <4>1. book'[a] = fetch[w].book /\ (a \notin behind' => fetch[w].fresh)
        BY <1>3, <2>1, <2>2, <2>6
      <4> QED
        BY <1>1, <1>4, <2>6, <4>1 DEF LevelAt, FetchAt, BookAt
    <3> QED
      BY <1>1, <1>4, <2>4, <3>1, LevelNext DEF LevelAt
  <2> QED
    BY <2>5, <2>6
<1> QED
  BY <1>5, <1>6, <1>7 DEF WorkerStep

LEMMA ReceivedLine ==
  ASSUME IngestTypeOK, SyncInv, NEW kind, Receives(kind), UNCHANGED <<live, socket>>
  PROVE  LineInv'
<1>1. wire \in Seq(Message) /\ wire # <<>> /\ wire' = Tail(wire)
  BY DEF Receives, IngestTypeOK, MessageOK
<1>2. \A n \in DOMAIN Tail(wire) : Tail(wire)[n].asset \in live
  <2> SUFFICES ASSUME NEW n \in DOMAIN Tail(wire) PROVE Tail(wire)[n].asset \in live
    OBVIOUS
  <2>1. n + 1 \in DOMAIN wire /\ Tail(wire)[n] = wire[n + 1]
    BY <1>1, Tailed
  <2> QED
    BY <2>1 DEF SyncInv, LineInv
<1> QED
  BY <1>1, <1>2 DEF SyncInv, LineInv

LEMMA BookSyncs ==
  ASSUME LogTypeOK, IngestTypeOK, SyncInv, HandleBook
  PROVE  SyncInv'
<1> DEFINE m == Head(wire)
           c == m.asset
<1>1. /\ wire \in Seq(Message) /\ wire # <<>> /\ wire' = Tail(wire)
      /\ m \in Message /\ m.kind = "book" /\ c \in Assets
  BY ReceiveTyped DEF HandleBook, Receives, IngestTypeOK, MessageOK
<1>2. /\ book' = [book EXCEPT ![c] = m.book] /\ based' = [based EXCEPT ![c] = TRUE]
      /\ behind' = behind \ {c} /\ UNCHANGED <<fetch, venue, live, socket>>
  BY DEF HandleBook
<1>3. LineInv'
  BY <1>2, ReceivedLine DEF HandleBook
<1>4. ASSUME NEW a \in Assets, NEW l \in Levels PROVE LevelAt(a, l)'
  <2>1. Agrees(wire, venue[a][l], a, l) /\ LevelAt(a, l) /\ ~ChangeOf(m, a, l)
    BY <1>1 DEF SyncInv, LevelAt, ChangeOf
  <2>2. /\ Agrees(Tail(wire), venue[a][l], a, l)
        /\ Quiet(Tail(wire), 0, a, l) => /\ Sets(m, a, l) => Value(m, l) = venue[a][l]
                                         /\ Quiet(wire, 0, a, l)
    BY <1>1, <2>1, AgreesTail
  <2>3. \A w \in Workers : FetchAt(w, a, l) => FetchAt(w, a, l)'
    BY <1>2 DEF FetchAt
  <2>4. CASE a = c
    <3>1. Sets(m, a, l) /\ Value(m, l) = m.book[l] /\ book'[a] = m.book
      BY <1>1, <1>2, <2>4 DEF Sets, Value, IngestTypeOK, BookOK
    <3>2. Quiet(Tail(wire), 0, a, l) => BookAt(a, l)'
      BY <1>2, <2>2, <3>1 DEF BookAt
    <3> QED
      BY <1>1, <1>2, <2>1, <2>2, <2>3, <3>2, LevelNext DEF LevelAt
  <2>5. CASE a # c
    <3>1. book'[a] = book[a] /\ based'[a] = based[a] /\ (a \in behind' <=> a \in behind)
      BY <1>1, <1>2, <2>5 DEF IngestTypeOK, BookOK
    <3>2. BookAt(a, l) => BookAt(a, l)'
      BY <1>2, <3>1 DEF BookAt
    <3> QED
      BY <1>1, <1>2, <2>1, <2>2, <2>3, <3>2, LevelNext DEF LevelAt
  <2> QED
    BY <2>4, <2>5
<1> QED
  BY <1>3, <1>4 DEF SyncInv

LEMMA ChangeHandledSyncs ==
  ASSUME LogTypeOK, IngestTypeOK, SyncInv, HandleChange
  PROVE  SyncInv'
<1> DEFINE m == Head(wire)
           c == m.asset
<1>1. /\ wire \in Seq(Message) /\ wire # <<>> /\ wire' = Tail(wire)
      /\ m \in Message /\ m.kind = "change" /\ c \in Assets /\ m.level \in Levels
  BY ReceiveTyped, MessagesTyped DEF HandleChange, Receives, IngestTypeOK, MessageOK
<1>2. UNCHANGED <<based, behind, venue, live, socket>> /\ fetch' = Stales({c})
  BY DEF HandleChange
<1>3. /\ based[c] => book' = [book EXCEPT ![c] = [book[c] EXCEPT ![m.level] = m.to]]
      /\ ~based[c] => book' = book
  BY DEF HandleChange, SetLevel
<1>4. LineInv'
  BY <1>2, ReceivedLine DEF HandleChange
<1>5. \A w \in Workers :
        /\ fetch'[w].asset = fetch[w].asset /\ fetch'[w].book = fetch[w].book
        /\ fetch'[w].fresh => fetch[w].fresh /\ fetch[w].asset # c
  BY <1>2, StaleFetches DEF IngestTypeOK
<1>6. book \in [Assets -> BookType]
  BY DEF IngestTypeOK, BookOK
<1>7. ASSUME NEW a \in Assets, NEW l \in Levels PROVE LevelAt(a, l)'
  <2>1. Agrees(wire, venue[a][l], a, l) /\ LevelAt(a, l)
    BY DEF SyncInv, LevelAt
  <2>2. /\ Agrees(Tail(wire), venue[a][l], a, l)
        /\ Quiet(Tail(wire), 0, a, l) =>
             /\ Sets(m, a, l) => Value(m, l) = venue[a][l]
             /\ ~ChangeOf(m, a, l) => Quiet(wire, 0, a, l)
    BY <1>1, <2>1, AgreesTail
  <2>3. CASE a = c /\ l = m.level
    <3>1. Sets(m, a, l) /\ Value(m, l) = m.to
      BY <1>1, <2>3 DEF Sets, Value
    <3>2. based[a] => book'[a][l] = m.to
      BY <1>1, <1>3, <1>6, <2>3 DEF BookType
    <3>3. Quiet(Tail(wire), 0, a, l) => BookAt(a, l)'
      BY <1>2, <2>2, <3>1, <3>2 DEF BookAt
    <3>4. \A w \in Workers : FetchAt(w, a, l)'
      BY <1>5, <2>3 DEF FetchAt
    <3> QED
      BY <1>1, <1>2, <2>2, <3>3, <3>4, LevelNext
  <2>4. CASE a # c \/ l # m.level
    <3>1. ~ChangeOf(m, a, l) /\ book'[a][l] = book[a][l]
      BY <1>1, <1>3, <1>6, <2>4 DEF ChangeOf, BookType
    <3>2. BookAt(a, l) => BookAt(a, l)'
      BY <1>2, <3>1 DEF BookAt
    <3>3. \A w \in Workers : FetchAt(w, a, l) => FetchAt(w, a, l)'
      BY <1>2, <1>5 DEF FetchAt
    <3> QED
      BY <1>1, <1>2, <2>1, <2>2, <3>1, <3>2, <3>3, LevelNext DEF LevelAt
  <2> QED
    BY <2>3, <2>4
<1> QED
  BY <1>4, <1>7 DEF SyncInv

LEMMA SyncStep == LogTypeOK /\ IngestTypeOK /\ SyncInv /\ [Next]_vars => SyncInv'
<1> SUFFICES ASSUME LogTypeOK, IngestTypeOK, SyncInv, [Next]_vars PROVE SyncInv'
  OBVIOUS
<1>1. CASE Logging \/ UNCHANGED vars
  <2>1. UNCHANGED <<book, based, behind, fetch, venue, wire, live, socket>>
    BY <1>1 DEF Logging, vars, reducer, resync, network
  <2>2. LineInv'
    BY <2>1 DEF SyncInv, LineInv
  <2>3. ASSUME NEW a \in Assets, NEW l \in Levels PROVE LevelAt(a, l)'
    BY <2>1, LevelStays DEF SyncInv, BookAt, FetchAt
  <2> QED
    BY <2>2, <2>3 DEF SyncInv
<1> QED
  BY <1>1, ChangeSyncs, BookSentSyncs, ConnectionSyncs, DiscoverySyncs, WorkerSyncs, BookSyncs,
     ChangeHandledSyncs DEF Next

LEMMA SyncConverges == IngestTypeOK /\ SyncInv => BookConverges
<1> SUFFICES ASSUME IngestTypeOK, SyncInv, NEW a \in Assets, based[a], a \notin behind
             PROVE  Applied(book[a], a, wire) = venue[a]
  BY DEF BookConverges
<1>1. wire \in Seq(Message) /\ venue[a] \in BookType
  BY DEF IngestTypeOK, MessageOK, BookOK
<1>2. ASSUME NEW l \in Levels PROVE Applied(book[a], a, wire)[l] = venue[a][l]
  <2>1. Agrees(wire, venue[a][l], a, l) /\ (Quiet(wire, 0, a, l) => book[a][l] = venue[a][l])
    BY DEF SyncInv, LevelAt, BookAt
  <2>2. Level(book[a], l, wire, {n \in DOMAIN wire : Sets(wire[n], a, l)}) = venue[a][l]
    BY <1>1, <2>1, AgreesApplied
  <2> QED
    BY <2>2 DEF Applied
<1>3. venue[a] = [l \in Levels |-> venue[a][l]]
  BY <1>1 DEF BookType
<1>4. Applied(book[a], a, wire) = [l \in Levels |-> Applied(book[a], a, wire)[l]]
  BY DEF Applied
<1> QED
  BY <1>2, <1>3, <1>4

-----------------------------------------------------------------------------
(* The last logged message that a replay takes to set a level sets it to v. *)
Logs(m, a, l) == Replays(m) /\ Sets(m, a, l)
LastSets(ms, v, a, l) ==
  \A n \in DOMAIN ms :
    Logs(ms[n], a, l) /\ (\A k \in DOMAIN ms : k > n => ~Logs(ms[k], a, l)) => Value(ms[n], l) = v
HasBook(ms, a) == \E n \in DOMAIN ms : ms[n].kind = "book" /\ ms[n].asset = a
HistoryAt(a) ==
  /\ based[a] <=> HasBook(history, a)
  /\ ~based[a] => book[a] = Empty
  /\ based[a] => \A l \in Levels : LastSets(history, book[a][l], a, l)
HistoryInv == \A a \in Assets \ unlogged : HistoryAt(a)

LEMMA HistoryNext ==
  ASSUME NEW a
  PROVE  HistoryAt(a)' <=>
           /\ based'[a] <=> HasBook(history', a)
           /\ ~based'[a] => book'[a] = Empty
           /\ based'[a] => \A l \in Levels : LastSets(history', book'[a][l], a, l)
  BY DEF HistoryAt, HasBook, LastSets, Logs, Replays, Sets, Value, Empty

LEMMA HistoryInit == Init => HistoryInv
<1> SUFFICES ASSUME Init, NEW a \in Assets PROVE HistoryAt(a)
  BY DEF HistoryInv
<1>1. DOMAIN history = {} /\ based[a] = FALSE /\ book[a] = Empty
  BY DEF Init
<1> QED
  BY <1>1 DEF HistoryAt, HasBook

LEMMA LastSetsAppend ==
  ASSUME NEW s \in Seq(Message), NEW m \in Message, NEW a \in Assets, NEW l \in Levels
  PROVE  /\ Logs(m, a, l) => LastSets(Append(s, m), Value(m, l), a, l)
         /\ \A v : ~Logs(m, a, l) /\ LastSets(s, v, a, l) => LastSets(Append(s, m), v, a, l)
<1> DEFINE t == Append(s, m)
<1>1. /\ DOMAIN s = 1..Len(s) /\ Len(s) \in Nat /\ DOMAIN t = 1..(Len(s) + 1)
      /\ \A n \in DOMAIN s : t[n] = s[n]
      /\ t[Len(s) + 1] = m
  BY Appended
<1> HIDE DEF t
<1>2. /\ DOMAIN s \subseteq DOMAIN t /\ \A n \in DOMAIN t : n \in DOMAIN s \/ n = Len(s) + 1
      /\ Len(s) + 1 \in DOMAIN t /\ \A n \in DOMAIN s : Len(s) + 1 > n
  BY <1>1
<1>3. ASSUME Logs(m, a, l) PROVE LastSets(t, Value(m, l), a, l)
  BY <1>1, <1>2, <1>3 DEF LastSets
<1>4. ASSUME NEW v, ~Logs(m, a, l), LastSets(s, v, a, l) PROVE LastSets(t, v, a, l)
  <2> SUFFICES ASSUME NEW n \in DOMAIN t, Logs(t[n], a, l),
                      \A k \in DOMAIN t : k > n => ~Logs(t[k], a, l)
               PROVE  Value(t[n], l) = v
    BY DEF LastSets
  <2>1. n \in DOMAIN s /\ t[n] = s[n]
    BY <1>1, <1>2, <1>4
  <2>2. \A k \in DOMAIN s : k > n => ~Logs(s[k], a, l)
    BY <1>1, <1>2
  <2> QED
    BY <1>4, <2>1, <2>2 DEF LastSets
<1> QED
  BY <1>3, <1>4 DEF t

LEMMA HasBookAppend ==
  ASSUME NEW s \in Seq(Message), NEW m \in Message, NEW a
  PROVE  HasBook(Append(s, m), a) <=> HasBook(s, a) \/ (m.kind = "book" /\ m.asset = a)
<1> DEFINE t == Append(s, m)
<1>1. /\ DOMAIN s = 1..Len(s) /\ Len(s) \in Nat /\ DOMAIN t = 1..(Len(s) + 1)
      /\ \A n \in DOMAIN s : t[n] = s[n]
      /\ t[Len(s) + 1] = m
  BY Appended
<1> HIDE DEF t
<1>2. /\ DOMAIN s \subseteq DOMAIN t /\ \A n \in DOMAIN t : n \in DOMAIN s \/ n = Len(s) + 1
      /\ Len(s) + 1 \in DOMAIN t
  BY <1>1
<1>3. HasBook(t, a) <=> HasBook(s, a) \/ (m.kind = "book" /\ m.asset = a)
  BY <1>1, <1>2 DEF HasBook
<1> QED
  BY <1>3 DEF t

LEMMA BookIsLogged ==
  ASSUME LogTypeOK, IngestTypeOK, HistoryInv, HandleBook
  PROVE  HistoryInv'
<1> DEFINE m == Head(wire)
           c == m.asset
<1>1. m \in Message /\ m.kind = "book" /\ c \in Assets /\ history \in Seq(Message)
  BY ReceiveTyped DEF HandleBook, IngestTypeOK, MessageOK
<1>2. /\ book' = [book EXCEPT ![c] = m.book] /\ based' = [based EXCEPT ![c] = TRUE]
      /\ unlogged' = unlogged \ {c} /\ history' = Append(history, m)
  BY DEF HandleBook, Receives
<1>3. book \in [Assets -> BookType] /\ based \in [Assets -> BOOLEAN]
  BY DEF IngestTypeOK, BookOK
<1> HIDE DEF m
<1> SUFFICES ASSUME NEW a \in Assets \ unlogged' PROVE HistoryAt(a)'
  BY DEF HistoryInv
<1>4. HasBook(history', a) <=> HasBook(history, a) \/ (m.kind = "book" /\ c = a)
  BY <1>1, <1>2, HasBookAppend
<1>5. CASE a = c
  <2>1. \A l \in Levels : Logs(m, a, l) /\ Value(m, l) = m.book[l]
    BY <1>1, <1>5 DEF Logs, Replays, Sets, Value
  <2>2. \A l \in Levels : LastSets(history', m.book[l], a, l)
    BY <1>1, <1>2, <2>1, LastSetsAppend
  <2>3. based'[a] /\ book'[a] = m.book
    BY <1>1, <1>2, <1>3, <1>5
  <2> QED
    BY <1>1, <1>4, <1>5, <2>2, <2>3, HistoryNext
<1>6. CASE a # c
  <2>1. HistoryAt(a) /\ based'[a] = based[a] /\ book'[a] = book[a]
    BY <1>1, <1>2, <1>3, <1>6 DEF HistoryInv
  <2>2. \A l \in Levels : ~Logs(m, a, l)
    BY <1>6 DEF Logs, Sets
  <2>3. \A l \in Levels :
          LastSets(history, book[a][l], a, l) => LastSets(history', book[a][l], a, l)
    BY <1>1, <1>2, <2>2, LastSetsAppend
  <2> QED
    BY <1>4, <1>6, <2>1, <2>3, HistoryNext DEF HistoryAt
<1> QED
  BY <1>5, <1>6

LEMMA ChangeIsLogged ==
  ASSUME LogTypeOK, IngestTypeOK, HistoryInv, HandleChange
  PROVE  HistoryInv'
<1> DEFINE m == Head(wire)
           c == m.asset
<1>1. /\ m \in Message /\ m.kind = "change" /\ c \in Assets /\ m.level \in Levels
      /\ history \in Seq(Message)
  BY ReceiveTyped, MessagesTyped DEF HandleChange, IngestTypeOK, MessageOK
<1>2. /\ based' = based /\ history' = Append(history, m)
      /\ unlogged' = IF m.nested THEN unlogged \cup {c} ELSE unlogged
      /\ based[c] => book' = [book EXCEPT ![c] = [book[c] EXCEPT ![m.level] = m.to]]
      /\ ~based[c] => book' = book
  BY DEF HandleChange, Receives, SetLevel
<1>3. book \in [Assets -> BookType]
  BY DEF IngestTypeOK, BookOK
<1> HIDE DEF m
<1> SUFFICES ASSUME NEW a \in Assets \ unlogged' PROVE HistoryAt(a)'
  BY DEF HistoryInv
<1>4. HistoryAt(a) /\ (a = c => ~m.nested)
  BY <1>1, <1>2 DEF HistoryInv
<1>5. HasBook(history', a) <=> HasBook(history, a)
  BY <1>1, <1>2, HasBookAppend
<1>6. ~based[a] => book'[a] = book[a]
  BY <1>1, <1>2, <1>3
<1>7. ASSUME based[a], NEW l \in Levels PROVE LastSets(history', book'[a][l], a, l)
  <2>1. CASE a = c /\ l = m.level
    <3>1. Logs(m, a, l) /\ Value(m, l) = m.to
      BY <1>1, <1>4, <2>1 DEF Logs, Replays, Sets, Value
    <3>2. book'[a][l] = m.to
      BY <1>1, <1>2, <1>3, <1>7, <2>1 DEF BookType
    <3> QED
      BY <1>1, <1>2, <3>1, <3>2, LastSetsAppend
  <2>2. CASE a # c \/ l # m.level
    <3>1. ~Logs(m, a, l) /\ book'[a][l] = book[a][l]
      BY <1>1, <1>2, <1>3, <2>2 DEF Logs, Sets, BookType
    <3> QED
      BY <1>1, <1>2, <1>4, <1>7, <3>1, LastSetsAppend DEF HistoryAt
  <2> QED
    BY <2>1, <2>2
<1> QED
  BY <1>2, <1>4, <1>5, <1>6, <1>7, HistoryNext DEF HistoryAt

LEMMA HistoryStep == LogTypeOK /\ IngestTypeOK /\ HistoryInv /\ [Next]_vars => HistoryInv'
<1> SUFFICES ASSUME LogTypeOK, IngestTypeOK, HistoryInv, [Next]_vars PROVE HistoryInv'
  OBVIOUS
<1>1. ASSUME UNCHANGED <<book, based, history, unlogged>> PROVE HistoryInv'
  BY <1>1, HistoryNext DEF HistoryInv, HistoryAt
<1>2. ASSUME NEW w \in Workers, SnapshotArrives(w) PROVE HistoryInv'
  <2> DEFINE c == fetch[w].asset
  <2>1. /\ book' = [book EXCEPT ![c] = fetch[w].book] /\ based' = [based EXCEPT ![c] = TRUE]
        /\ unlogged' = unlogged \cup {c} /\ history' = history
    BY <1>2 DEF SnapshotArrives
  <2> SUFFICES ASSUME NEW a \in Assets \ unlogged' PROVE HistoryAt(a)'
    BY DEF HistoryInv
  <2>2. a # c /\ HistoryAt(a)
    BY <2>1 DEF HistoryInv
  <2>3. book'[a] = book[a] /\ based'[a] = based[a]
    BY <2>1, <2>2 DEF IngestTypeOK, BookOK
  <2> QED
    BY <2>1, <2>2, <2>3, HistoryNext DEF HistoryAt
<1>3. CASE HandleBook \/ HandleChange
  BY <1>3, BookIsLogged, ChangeIsLogged
<1>4. ASSUME NEW w \in Workers, WorkerAsks(w) \/ RestAnswers(w) \/ RestFails(w)
      PROVE  HistoryInv'
  BY <1>1, <1>4 DEF WorkerAsks, RestAnswers, RestFails, reducer
<1>5. ASSUME NEW a \in Assets, VenueSendsBook(a) \/ Discover(a) \/ DiscoverPuts(a)
      PROVE  HistoryInv'
  BY <1>1, <1>5 DEF VenueSendsBook, Discover, DiscoverPuts, reducer
<1>6. ASSUME NEW a \in Assets, NEW l \in Levels, NEW nested \in BOOLEAN,
             VenueChanges(a, l, nested)
      PROVE  HistoryInv'
  BY <1>1, <1>6 DEF VenueChanges, reducer
<1>7. CASE Connects \/ Cut \/ Stops \/ Logging \/ UNCHANGED vars
  BY <1>1, <1>7 DEF Connects, Cut, Stops, Logging, vars, reducer
<1> QED
  BY <1>2, <1>3, <1>4, <1>5, <1>6, <1>7 DEF Next, WorkerStep

(* Replaying what was logged, in its order, gives the live book. *)
LEMMA HistoryReplays ==
  ASSUME LogTypeOK, IngestTypeOK, OrderInv, HistoryInv
  PROVE  ReplayIsLive
<1> SUFFICES ASSUME Whole, NEW a \in Assets \ unlogged
             PROVE  Replayed(a) = [has |-> based[a], book |-> book[a]]
  BY DEF ReplayIsLive
<1> DEFINE rows == {n \in DOMAIN stored : Replays(history[stored[n]])}
           ms   == [n \in rows |-> history[stored[n]]]
           has  == \E n \in rows : ms[n].kind = "book" /\ ms[n].asset = a
<1>1. Replayed(a) = [has |-> has, book |-> IF has THEN Applied(Empty, a, ms) ELSE Empty]
  BY DEF Replayed
<1>2. /\ DOMAIN stored = 1..logged /\ \A n \in 1..logged : stored[n] = n
      /\ history \in Seq(Message) /\ Len(history) = logged /\ logged \in Nat
  BY WholeIsOrdered DEF IngestTypeOK, MessageOK, LogTypeOK
<1>3. DOMAIN history = 1..logged
  BY <1>2
<1>4. rows = {n \in 1..logged : Replays(history[n])} /\ ms = [n \in rows |-> history[n]]
  BY <1>2
<1>5. HistoryAt(a) /\ based[a] \in BOOLEAN /\ book[a] \in BookType
  BY DEF HistoryInv, IngestTypeOK, BookOK
<1>6. /\ DOMAIN ms = rows /\ rows \subseteq 1..logged /\ \A n \in rows : ms[n] = history[n]
      /\ \A n \in 1..logged : n \in rows <=> Replays(history[n])
  BY <1>4
<1> HIDE DEF rows, ms
<1>7. has <=> based[a]
  <2>1. has <=> HasBook(history, a)
    BY <1>3, <1>6 DEF HasBook, Replays
  <2> QED
    BY <1>5, <2>1 DEF HistoryAt
<1> HIDE DEF has
<1>8. CASE ~based[a]
  BY <1>1, <1>5, <1>7, <1>8 DEF HistoryAt
<1>9. CASE based[a]
  <2>1. PICK x \in 1..logged : history[x].kind = "book" /\ history[x].asset = a
    BY <1>3, <1>5, <1>9 DEF HistoryAt, HasBook
  <2>2. ASSUME NEW l \in Levels PROVE Applied(Empty, a, ms)[l] = book[a][l]
    <3> DEFINE N == {n \in DOMAIN ms : Sets(ms[n], a, l)}
    <3>1. \A n \in 1..logged : n \in N <=> Logs(history[n], a, l)
      BY <1>6 DEF Logs
    <3>2. N \subseteq 1..logged
      BY <1>6
    <3>3. x \in N
      BY <2>1, <3>1 DEF Logs, Replays, Sets
    <3>4. Applied(Empty, a, ms)[l] = Level(Empty, l, ms, N)
      BY DEF Applied
    <3> HIDE DEF N
    <3>5. Max(N) \in N /\ \A n \in N : n <= Max(N)
      BY <1>2, <3>2, <3>3, LatestIs
    <3>6. Max(N) \in 1..logged /\ Logs(history[Max(N)], a, l)
      BY <3>1, <3>2, <3>5
    <3>7. \A k \in 1..logged : k > Max(N) => ~Logs(history[k], a, l)
      <4> TAKE k \in 1..logged
      <4>1. k \in N => k <= Max(N)
        BY <3>5
      <4>2. k \in Nat /\ Max(N) \in Nat
        BY <1>2, <3>6
      <4> QED
        BY <3>1, <4>1, <4>2
    <3>8. Value(history[Max(N)], l) = book[a][l]
      BY <1>3, <1>5, <1>9, <3>6, <3>7 DEF HistoryAt, LastSets
    <3>9. ms[Max(N)] = history[Max(N)]
      BY <1>6, <3>5, <3>6 DEF N
    <3> QED
      BY <3>3, <3>4, <3>8, <3>9 DEF Level
  <2>3. book[a] = [l \in Levels |-> book[a][l]]
    BY <1>5 DEF BookType
  <2>4. Applied(Empty, a, ms) = [l \in Levels |-> Applied(Empty, a, ms)[l]]
    BY DEF Applied
  <2>5. Applied(Empty, a, ms) = book[a]
    BY <2>2, <2>3, <2>4
  <2> QED
    BY <1>1, <1>7, <1>9, <2>5
<1> QED
  BY <1>8, <1>9

-----------------------------------------------------------------------------
IInv == LogInv /\ IngestTypeOK /\ PendingIsServed /\ SyncInv /\ HistoryInv

LEMMA IngestInvariance == Spec => []IInv
<1>1. Init => IInv
  BY LogInitial, TypeInit, SyncInit, HistoryInit DEF IInv, PendingIsServed, Init
<1>2. IInv /\ [Next]_vars => IInv'
  BY StepsOfLog, LogStep, TypeStep, ServedStep, SyncStep, HistoryStep DEF IInv, LogInv, PlacesInv
<1> QED
  BY <1>1, <1>2, PTL DEF Spec

(* Every state of the ingestor and its log is well typed. *)
THEOREM TypeCorrect == Spec => []TypeOK
<1>1. IInv => TypeOK
  BY TypeParts DEF IInv, LogInv, PlacesInv
<1> QED
  BY <1>1, IngestInvariance, PTL

(* A book that was marked for a resync is in the queue or with a worker,   *)
(* unless its fetch failed, however messages, fetches, failures and        *)
(* reconnections interleave (_request_resync).                             *)
THEOREM ResyncsAreServed == Spec => []PendingIsServed
<1>1. IInv => PendingIsServed
  BY DEF IInv
<1> QED
  BY <1>1, IngestInvariance, PTL

(* A book with a base that missed nothing is the venue's once what is on   *)
(* the wire is applied, however snapshots, changes, lost connections and   *)
(* discoveries interleave (PolymarketBookReducer, _handle_message,         *)
(* _fetch_snapshot).                                                       *)
THEOREM BooksConverge == Spec => []BookConverges
<1>1. IInv => BookConverges
  BY SyncConverges DEF IInv
<1> QED
  BY <1>1, IngestInvariance, PTL

(* The log of an ingestor that lost nothing and whose flushes never met    *)
(* replays to the live book of every asset that was built from logged      *)
(* messages alone (replay_from_log).                                       *)
THEOREM ReplaysAreLive == Spec => []ReplayIsLive
<1>1. IInv => ReplayIsLive
  BY HistoryReplays DEF IInv, LogInv, PlacesInv
<1> QED
  BY <1>1, IngestInvariance, PTL
=============================================================================
