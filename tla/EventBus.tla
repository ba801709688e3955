------------------------------ MODULE EventBus ------------------------------
(***************************************************************************)
(* The in-memory event bus (libs/events/__init__.py).  Every subscriber    *)
(* has a bounded queue and a consumer task.  On most topics a publisher    *)
(* waits when a queue is full; on the lossy market data topics it never    *)
(* waits: events of one key coalesce to the latest, and a full queue drops *)
(* its oldest item.                                                        *)
(*                                                                         *)
(* All of it runs on one asyncio loop, so what lies between two awaits is  *)
(* one step: a publisher is interrupted only at a full queue, a consumer   *)
(* only inside a handler.                                                  *)
(***************************************************************************)
EXTENDS Integers, Sequences, FiniteSets, SequencesExt

CONSTANTS
  Topics, Lossy,  \* all topics, and LOSSY_TOPICS
  Subs,           \* subscriptions, each made at most once
  TopicOf,        \* the topic of a subscription
  Relay,          \* the topic its handler publishes to, or None
  Removable,      \* the subscriptions that may be unsubscribed
  Failing,        \* the subscriptions whose handler may raise
  Producers,      \* publishers that are not handlers
  Posts,          \* the topics a producer publishes to
  Keys,           \* coalescing keys: asset_id, market_id, pair_id, symbol
  Cap,            \* queue maxsize
  MaxSent,        \* bounds of the events of a publisher or key on one topic
  MayClose,       \* close() is called
  None            \* no topic, no key, no event

ASSUME TopicsAssumption ==
  /\ Lossy \subseteq Topics /\ None \notin Topics \cup Keys \cup Producers \cup Subs
  /\ TopicOf \in [Subs -> Topics] /\ Relay \in [Subs -> Topics \cup {None}]
  /\ Removable \subseteq Subs /\ Failing \subseteq Subs
  /\ Posts \in [Producers -> SUBSET Topics]
ASSUME SourcesAssumption == Keys \cap (Producers \cup Subs) = {} /\ Producers \cap Subs = {}
ASSUME CapAssumption == Cap \in Nat \ {0} /\ MayClose \in BOOLEAN
ASSUME MaxSentAssumption == MaxSent \in [Producers \cup Subs \cup Keys \cup {None} -> Nat]

VARIABLES
  subs,         \* _subscribers: the live list of each topic
  queue,        \* the queue of each subscription
  latest,       \* its latest payload per key, 0 for none
  pending,      \* its pending_keys
  task,         \* its consumer task: "none", "running" or "cancelled"
  handling,     \* the event in its handler, or None while it is not busy
  pub,          \* a publisher waiting at a full queue
  stats,        \* the counters of stats()
  closing,      \* close() waits in drain()
  \* what has been seen of the bus
  sent,         \* events per topic and source
  since,        \* what had been sent when a subscription was made
  newest,       \* the last event of each source handed to a handler
  handed,       \* events handed to each handler
  offered       \* events offered to each subscription

history == <<sent, since, newest, handed, offered>>
vars    == <<subs, queue, latest, pending, task, handling, pub, stats, closing, history>>

-----------------------------------------------------------------------------
(* An event is the n-th of its source on a topic.  The source of a         *)
(* lossless event is its publisher, that of a lossy one its key (None when *)
(* the payload has none), for these are what the order is promised for.    *)
Publishers == Producers \cup Subs
Sources    == Publishers \cup Keys \cup {None}
Event(src, no)   == [src |-> src, no |-> no]
Payload(src, no) == [kind |-> "payload", src |-> src, no |-> no]
KeyItem(k)       == [kind |-> "key", src |-> k, no |-> 0]
Items            == [kind : {"payload", "key"}, src : Sources, no : Nat]
Waiting          == [topic : Topics, no : Nat, at : Subs, next : Nat]
NotWaiting       == [topic |-> None, no |-> 0, at |-> None, next |-> 0]
Unrelayed(ev)    == [src |-> ev.src, no |-> ev.no, relayed |-> FALSE]
NotBusy          == [src |-> None, no |-> 0, relayed |-> FALSE]
Counters         == {"published", "delivered", "dropped", "coalesced", "errors"}

TypeOK ==
  /\ subs \in [Topics -> Seq(Subs)]
  /\ queue \in [Subs -> Seq(Items)] /\ \A s \in Subs : Len(queue[s]) <= Cap
  /\ latest \in [Subs -> [Keys -> Nat]]
  /\ pending \in [Subs -> SUBSET Keys]
  /\ task \in [Subs -> {"none", "running", "cancelled"}]
  /\ handling \in [Subs -> [src : Sources, no : Nat, relayed : BOOLEAN]]
  /\ pub \in [Publishers -> Waiting \cup {NotWaiting}]
  /\ stats \in [Counters -> Nat]
  /\ closing \in BOOLEAN
  /\ sent \in [Topics -> [Sources -> Nat]]
  /\ since \in [Subs -> [Sources -> Nat]]
  /\ newest \in [Subs -> [Sources -> Nat]]
  /\ handed \in [Subs -> Nat]
  /\ offered \in [Subs -> Nat]

Init ==
  /\ subs = [t \in Topics |-> <<>>]
  /\ queue = [s \in Subs |-> <<>>]
  /\ latest = [s \in Subs |-> [k \in Keys |-> 0]]
  /\ pending = [s \in Subs |-> {}]
  /\ task = [s \in Subs |-> "none"]
  /\ handling = [s \in Subs |-> NotBusy]
  /\ pub = [x \in Publishers |-> NotWaiting]
  /\ stats = [c \in Counters |-> 0]
  /\ closing = FALSE
  /\ sent = [t \in Topics |-> [x \in Sources |-> 0]]
  /\ since = [s \in Subs |-> [x \in Sources |-> 0]]
  /\ newest = [s \in Subs |-> [x \in Sources |-> 0]]
  /\ handed = [s \in Subs |-> 0]
  /\ offered = [s \in Subs |-> 0]

Places(t)     == DOMAIN subs[t]
Subscribed(t) == {subs[t][j] : j \in Places(t)}
Listed        == UNION {Subscribed(t) : t \in Topics}
BugFull(s)    == Len(queue[s]) > Cap
Full(s)       == Len(queue[s]) >= Cap
Busy(s)       == handling[s].no # 0
Idle(s)       == queue[s] = <<>> /\ ~Busy(s)

(* _ensure_started revives every listed subscription whose task is gone. *)
EnsureStarted(listed) == [s \in Subs |-> IF s \in listed THEN "running" ELSE task[s]]

-----------------------------------------------------------------------------
Subscribe(s) ==
  LET t == TopicOf[s] IN
  /\ task[s] = "none" /\ s \notin Listed
  /\ subs' = [subs EXCEPT ![t] = Append(@, s)]
  /\ task' = EnsureStarted(Listed \cup {s})
  /\ since' = [since EXCEPT ![s] = sent[t]]
  /\ UNCHANGED <<queue, latest, pending, handling, pub, stats, closing, sent, newest, handed, offered>>

(* The task is cancelled where it waits: for an item, or in the handler,   *)
(* whose event and own publication end there.  The queue stays as it is.   *)
Unsubscribe(s) ==
  LET t == TopicOf[s] IN
  /\ s \in Removable \cap Listed
  /\ \E j \in Places(t) : subs[t][j] = s /\ subs' = [subs EXCEPT ![t] = RemoveAt(@, j)]
  /\ task' = [task EXCEPT ![s] = "cancelled"]
  /\ IF task[s] = "running"
     THEN /\ handling' = [handling EXCEPT ![s] = NotBusy]
          /\ pub' = [pub EXCEPT ![s] = NotWaiting]
     ELSE UNCHANGED <<handling, pub>>
  /\ UNCHANGED <<queue, latest, pending, stats, closing, history>>

-----------------------------------------------------------------------------
(* publish on a topic that is not lossy walks the live list of subscribers *)
(* by position and puts into queue after queue, up to the first full one.  *)

FirstFull(t, from) ==
  Min({j \in Places(t) : j >= from /\ Full(subs[t][j])} \cup {Len(subs[t]) + 1})

PutFrom(x, t, no, from, resumed) ==
  LET stop    == FirstFull(t, from)
      reached == resumed \cup {subs[t][j] : j \in {j \in Places(t) : from <= j /\ j < stop}}
  IN
  /\ queue' = [s \in Subs |-> IF s \in reached THEN Append(queue[s], Payload(x, no)) ELSE queue[s]]
  /\ offered' = [s \in Subs |-> offered[s] + IF s \in reached THEN 1 ELSE 0]
  /\ pub' = [pub EXCEPT ![x] =
       IF stop \in Places(t)
       THEN [topic |-> t, no |-> no, at |-> subs[t][stop], next |-> stop + 1]
       ELSE NotWaiting]

Counted(t) == [stats EXCEPT !.published = @ + IF subs[t] = <<>> THEN 0 ELSE 1]

PublishLossless(x, t) ==
  /\ t \notin Lossy /\ sent[t][x] < MaxSent[x]
  /\ pub[x] = NotWaiting
  /\ sent' = [sent EXCEPT ![t][x] = @ + 1]
  /\ PutFrom(x, t, sent[t][x] + 1, 1, {})
  /\ task' = EnsureStarted(Listed)
  /\ stats' = Counted(t)
  /\ UNCHANGED <<subs, latest, pending, since, newest, handed>>

(* A waiting publisher goes on once the queue it waits for has room.  A    *)
(* publisher that has not waited may take that room first.                 *)
BugPublisherResumes(x) ==  \* the walk goes on behind the next subscriber
  LET w == pub[x] IN
  /\ w # NotWaiting /\ ~Full(w.at)
  /\ PutFrom(x, w.topic, w.no, w.next + 1, {w.at})
  /\ UNCHANGED <<subs, latest, pending, task, handling, stats, closing, sent, since, newest, handed>>

PublisherResumes(x) ==
  LET w == pub[x] IN
  /\ w # NotWaiting /\ ~Full(w.at)
  /\ PutFrom(x, w.topic, w.no, w.next, {w.at})
  /\ UNCHANGED <<subs, latest, pending, task, handling, stats, closing, sent, since, newest, handed>>

-----------------------------------------------------------------------------
(* _enqueue_lossy, for every subscriber in one step. *)

BugCoalesces(s, k) == FALSE
Coalesces(s, k) == k \in pending[s]
Evicts(s, k)    == ~Coalesces(s, k) /\ Full(s)
Evicted(s)      == Head(queue[s])

BugLatestAfter(s, k, no) ==  \* the dict keeps what is there
  [j \in Keys |-> IF j = k /\ ~Coalesces(s, k) THEN no
                  ELSE IF Evicts(s, k) /\ Evicted(s) = KeyItem(j) THEN 0 ELSE latest[s][j]]

LatestAfter(s, k, no) ==
  [j \in Keys |-> IF j = k THEN no
                  ELSE IF Evicts(s, k) /\ Evicted(s) = KeyItem(j) THEN 0 ELSE latest[s][j]]

BugPendingAfter(s, k) == pending[s] \cup ({k} \cap Keys)  \* an evicted key still pends

PendingAfter(s, k) ==
  (pending[s] \ {j \in Keys : Evicts(s, k) /\ Evicted(s) = KeyItem(j)}) \cup ({k} \cap Keys)

QueueAfter(s, k, no) ==
  IF Coalesces(s, k) THEN queue[s]
  ELSE Append(IF Full(s) THEN Tail(queue[s]) ELSE queue[s],
              IF k \in Keys THEN KeyItem(k) ELSE Payload(k, no))

PublishLossy(t, k) ==
  LET no     == sent[t][k] + 1
      listed == Subscribed(t)
  IN
  /\ t \in Lossy /\ sent[t][k] < MaxSent[k]
  /\ sent' = [sent EXCEPT ![t][k] = no]
  /\ queue' = [s \in Subs |-> IF s \in listed THEN QueueAfter(s, k, no) ELSE queue[s]]
  /\ latest' = [s \in Subs |-> IF s \in listed THEN LatestAfter(s, k, no) ELSE latest[s]]
  /\ pending' = [s \in Subs |-> IF s \in listed THEN PendingAfter(s, k) ELSE pending[s]]
  /\ offered' = [s \in Subs |-> offered[s] + IF s \in listed THEN 1 ELSE 0]
  /\ task' = EnsureStarted(Listed)
  /\ stats' = [Counted(t) EXCEPT
       !.coalesced = @ + Cardinality({s \in listed : Coalesces(s, k)}),
       !.dropped   = @ + Cardinality({s \in listed : Evicts(s, k)})]
  /\ UNCHANGED <<subs, pub, since, newest, handed>>

Publish(x) ==
  /\ pub[x] = NotWaiting
  /\ \E t \in Posts[x] :
       PublishLossless(x, t) \/ \E k \in Keys \cup {None} : PublishLossy(t, k)
  /\ UNCHANGED <<handling, closing>>

-----------------------------------------------------------------------------
(* _consume: the next item, and the latest payload if the item is a key. *)
BugTaken(s, item) == pending[s]  \* the key still pends after its item is gone
Taken(s, item)    == pending[s] \ {item.src}

Take(s) ==
  LET item == Head(queue[s])
      ev   == IF item.kind = "key" THEN Event(item.src, latest[s][item.src])
              ELSE Event(item.src, item.no)
  IN
  /\ task[s] = "running" /\ ~Busy(s) /\ queue[s] # <<>>
  /\ queue' = [queue EXCEPT ![s] = Tail(@)]
  /\ IF item.kind = "key"
     THEN /\ pending' = [pending EXCEPT ![s] = Taken(s, item)]
          /\ latest' = [latest EXCEPT ![s][item.src] = 0]
     ELSE UNCHANGED <<pending, latest>>
  /\ handling' = [handling EXCEPT ![s] = Unrelayed(ev)]
  /\ newest' = [newest EXCEPT ![s][ev.src] = ev.no]
  /\ handed' = [handed EXCEPT ![s] = @ + 1]
  /\ UNCHANGED <<subs, task, pub, stats, closing, sent, since, offered>>

(* A handler may publish in turn, and waits with its publication. *)
HandlerPublishes(s) ==
  /\ Busy(s) /\ Relay[s] # None /\ ~handling[s].relayed
  /\ handling' = [handling EXCEPT ![s].relayed = TRUE]
  /\ \/ PublishLossless(s, Relay[s])
     \/ \E k \in Keys \cup {None} : PublishLossy(Relay[s], k)
  /\ UNCHANGED closing

HandlerDone(s) ==
  /\ Busy(s) /\ pub[s] = NotWaiting
  /\ handling' = [handling EXCEPT ![s] = NotBusy]
  /\ UNCHANGED <<subs, queue, latest, pending, task, pub, closing, history>>

HandlerReturns(s) ==
  /\ HandlerDone(s)
  /\ stats' = [stats EXCEPT !.delivered = @ + 1]

BugRaisesCounted(s) ==  \* every event taken from the queue counts as delivered
  /\ s \in Failing /\ HandlerDone(s)
  /\ stats' = [stats EXCEPT !.errors = @ + 1, !.delivered = @ + 1]

BugRaisesKills(s) ==  \* the exception ends the consumer task
  /\ s \in Failing /\ Busy(s) /\ pub[s] = NotWaiting
  /\ handling' = [handling EXCEPT ![s] = NotBusy]
  /\ task' = [task EXCEPT ![s] = "cancelled"]
  /\ UNCHANGED <<subs, queue, latest, pending, pub, stats, closing, history>>

HandlerRaises(s) ==
  /\ s \in Failing /\ HandlerDone(s)
  /\ stats' = [stats EXCEPT !.errors = @ + 1]

-----------------------------------------------------------------------------
(* close: drain, which polls, and then cancel every consumer at once. *)
CloseBegins ==
  /\ MayClose /\ ~closing
  /\ closing' = TRUE
  /\ task' = EnsureStarted(Listed)
  /\ UNCHANGED <<subs, queue, latest, pending, handling, pub, stats, history>>

CloseEnds ==
  /\ closing /\ \A s \in Listed : Idle(s)
  /\ closing' = FALSE
  /\ task' = [s \in Subs |-> IF s \in Listed THEN "none" ELSE task[s]]
  /\ UNCHANGED <<subs, queue, latest, pending, handling, pub, stats, history>>

Next ==
  \/ \E s \in Subs : Subscribe(s) \/ Unsubscribe(s)
  \/ \E x \in Producers : Publish(x)
  \/ \E x \in Publishers : PublisherResumes(x)
  \/ \E s \in Subs : Take(s) \/ HandlerPublishes(s) \/ HandlerReturns(s) \/ HandlerRaises(s)
  \/ CloseBegins
  \/ CloseEnds

Spec == Init /\ [][Next]_vars

(* The loop runs what is ready, and handlers end. *)
Fairness ==
  /\ \A x \in Publishers : WF_vars(PublisherResumes(x))
  /\ \A s \in Subs : WF_vars(Take(s)) /\ WF_vars(HandlerReturns(s) \/ HandlerRaises(s))

FairSpec == Spec /\ Fairness

-----------------------------------------------------------------------------
(***************************************************************************)
(* Properties.                                                             *)
(***************************************************************************)
KeysQueued(s)  == {queue[s][j].src : j \in {j \in DOMAIN queue[s] : queue[s][j].kind = "key"}}
Unkeyed(s)     == {j \in DOMAIN queue[s] : queue[s][j].kind = "payload"}

(* The three structures of a subscription agree: a key pends exactly while *)
(* one item of the queue stands for it and its latest payload is kept.     *)
(* (A key that pended without an item would coalesce its events forever.)  *)
QueueAgreesWithKeys ==
  \A s \in Subs :
    /\ pending[s] = KeysQueued(s)
    /\ pending[s] = {k \in Keys : latest[s][k] # 0}
    /\ Len(queue[s]) = Cardinality(pending[s]) + Cardinality(Unkeyed(s))

(* Lossless: to a handler that stays subscribed the bus hands every event  *)
(* of a publisher once, in order, from its subscription on, however often  *)
(* and wherever the publisher has to wait.  (An event under way when it    *)
(* subscribes may still reach it.)                                         *)
From(s, x)  == {j \in DOMAIN queue[s] : queue[s][j].src = x}
Waits(s, x) == {queue[s][j].no : j \in From(s, x)}
Firsts(s, x) == IF newest[s][x] # 0 THEN {newest[s][x] + 1} ELSE {since[s][x], since[s][x] + 1}

LosslessInOrder ==
  \A t \in Topics \ Lossy, x \in Publishers : \A s \in Subscribed(t) :
    /\ \A i, j \in From(s, x) : i < j => queue[s][i].no < queue[s][j].no
    /\ \E first \in Firsts(s, x), last \in {sent[t][x] - 1, sent[t][x]} :
         /\ Waits(s, x) = first..last /\ first <= last + 1
         /\ pub[x].topic # t => last = sent[t][x]

(* Lossy: the newest event of every key is kept until it is handled, but   *)
(* for drops, each of which is counted; and as long as the keys fit the    *)
(* queue and every payload has one, nothing is dropped.                    *)
FreshestKept ==
  /\ \A t \in Lossy : \A s \in Subscribed(t) :
       Cardinality({k \in Keys : /\ sent[t][k] > since[s][k]
                                 /\ sent[t][k] \notin {latest[s][k], newest[s][k]}})
         <= stats.dropped
  /\ Cardinality(Keys) <= Cap /\ (\A t \in Topics : sent[t][None] = 0) => stats.dropped = 0

(* The counters account for every event offered to a subscription: what is *)
(* neither queued nor dropped nor coalesced went to a handler, and what a  *)
(* handler got it has delivered, failed, or holds; only the event of a     *)
(* handler cut off by unsubscribe goes uncounted.  (A sum of counts is the *)
(* size of the set that has as many elements of each.)                     *)
Units(count) == UNION {{s} \X (1..count[s]) : s \in Subs}
Total(count) == Cardinality(Units(count))
Queued       == [s \in Subs |-> Len(queue[s])]

CountersAccount ==
  LET taken   == Total(handed)
      counted == stats.delivered + stats.errors + Cardinality({s \in Subs : Busy(s)})
      cutOff  == Cardinality({s \in Subs : task[s] = "cancelled"})
  IN
  /\ Total(offered) = taken + Total(Queued) + stats.dropped + stats.coalesced
  /\ counted <= taken /\ taken <= counted + cutOff

(* Backpressure ends: publishers that wait go on, through every queue on   *)
(* their way, and what is queued is handled, so that the bus comes to rest *)
(* (for the events are bounded) as long as handlers return and no chain of *)
(* handlers that publish leads back to where it began.                     *)
BusSettles == []<>((\A x \in Publishers : pub[x] = NotWaiting) /\ (\A s \in Subs : Idle(s)))

(* A lossy subscription, whatever else the bus does, is a mailbox that     *)
(* keeps the latest event of each key.                                     *)
Mailbox(s) == INSTANCE KeepLatest WITH
  box   <- latest[s],
  other <- Cardinality(Unkeyed(s)),
  out   <- [k \in Keys |-> newest[s][k]]

LossySubs == {s \in Subs : TopicOf[s] \in Lossy}

LossyKeepsLatest ==  \* Mailbox(s)!Spec for each of them
  /\ \A s \in LossySubs : Mailbox(s)!Init
  /\ [][\A s \in LossySubs : [Mailbox(s)!Next]_(Mailbox(s)!vars)]_vars
=============================================================================
