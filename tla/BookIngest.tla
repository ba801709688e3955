----------------------------- MODULE BookIngest ------------------------------
(***************************************************************************)
(* RealtimeIngestorService (modules/realtime_ingestor/service.py): it      *)
(* follows the order books of Polymarket over the WebSocket                *)
(* (libs/polymarket/websocket.py), fetches snapshots over REST through a   *)
(* bounded queue and a pool of workers, reduces both to one book per asset *)
(* (libs/polymarket/book_state.py) and logs the raw events (BookLog), from *)
(* which libs/polymarket/replay.py rebuilds the books.                     *)
(*                                                                         *)
(* A book is modelled by the number of the change that last set each of    *)
(* its levels.  The topics it is published on are lossy, so publishing     *)
(* never waits and a message is handled in one step.  Discovery publishes  *)
(* a market once.                                                          *)
(***************************************************************************)
EXTENDS BookLog, FiniteSetsExt

CONSTANTS
  Assets, Levels,
  Workers,      \* _snapshot_concurrency
  QueueSize,    \* maxsize of the snapshot queue
  MaxMessages,  \* bound of the changes at the venue and of the books it sends
  MaxMishaps    \* bound of the connections that break, REST calls and log writes that fail

ASSUME IngestAssumption ==
  /\ {QueueSize, MaxMessages, MaxMishaps} \subseteq Nat /\ QueueSize > 0
  /\ "none" \notin Assets

VARIABLES
  book,        \* the book of the reducer for each asset
  based,       \* _has_snapshot
  pending,     \* _resync_pending
  queue,       \* _snapshot_queue
  waiting,     \* the market whose discovery waits at the full queue
  fetch,       \* the workers
  wanted,      \* the subscriptions of the WebSocket client
  \* the venue and the connection to it
  venue,       \* its books
  live,        \* the assets it sends on this connection
  wire,        \* what it has sent and nobody has handled
  socket,      \* none was opened, one is up, or the last one is closed
  \* what has happened
  history,     \* the messages logged, by number
  behind,      \* assets whose book misses changes that are not on the wire
  unlogged,    \* assets whose book has seen what replay does not
  failed,      \* assets whose last fetch failed
  tally        \* how often each bounded thing happened

reducer == <<book, based>>
resync  == <<pending, queue, waiting, fetch, failed>>
network == <<venue, live, wire, socket>>
vars    == <<logVars, reducer, resync, network, wanted, history, behind, unlogged, tally>>

-----------------------------------------------------------------------------
Changes  == 0..MaxMessages
BookType == [Levels -> Changes]
Empty    == [l \in Levels |-> 0]
Message  == [kind : {"book"}, asset : Assets, book : BookType]
            \cup [kind : {"change"}, asset : Assets, level : Levels, to : Changes,
                  nested : BOOLEAN]
FetchType == [pc : {"idle", "asked", "answered"}, asset : Assets \cup {"none"},
              book : BookType, fresh : BOOLEAN]
NoFetch   == [pc |-> "idle", asset |-> "none", book |-> Empty, fresh |-> FALSE]

TypeOK ==
  /\ LogTypeOK
  /\ book \in [Assets -> BookType] /\ venue \in [Assets -> BookType]
  /\ based \in [Assets -> BOOLEAN]
  /\ pending \subseteq Assets /\ waiting \subseteq Assets /\ wanted \subseteq Assets
  /\ live \subseteq Assets /\ behind \subseteq Assets /\ unlogged \subseteq Assets
  /\ failed \subseteq Assets
  /\ queue \in Seq(Assets) /\ Len(queue) <= QueueSize
  /\ fetch \in [Workers -> FetchType]
  /\ wire \in Seq(Message) /\ history \in Seq(Message) /\ Len(history) = logged
  /\ socket \in {"none", "up", "closed"}
  /\ tally \in [messages : Nat, mishaps : Nat]

Init ==
  /\ LogInit
  /\ book = [a \in Assets |-> Empty] /\ based = [a \in Assets |-> FALSE]
  /\ pending = {} /\ queue = <<>> /\ waiting = {} /\ failed = {}
  /\ fetch = [w \in Workers |-> NoFetch]
  /\ wanted = {} /\ live = {} /\ wire = <<>> /\ socket = "none"
  /\ venue = [a \in Assets |-> Empty]
  /\ history = <<>> /\ behind = {} /\ unlogged = {}
  /\ tally = [messages |-> 0, mishaps |-> 0]

Tally(what, max) == tally[what] < max /\ tally' = [tally EXCEPT ![what] = @ + 1]

-----------------------------------------------------------------------------
(* The venue: its books change, and it sends the changes and now and then  *)
(* a whole book of what is subscribed.  What changes before the discovery  *)
(* of a market or after stop concerns nobody.                              *)

Sent(a, m) == IF a \in live THEN Append(wire, m) ELSE wire
Miss(a)    == behind' = IF a \in live THEN behind ELSE behind \cup {a}
Stales(as) == [w \in Workers |-> IF fetch[w].asset \in as
                                 THEN [fetch[w] EXCEPT !.fresh = FALSE] ELSE fetch[w]]

VenueChanges(a, l, nested) ==
  /\ open /\ a \in wanted /\ Tally("messages", MaxMessages)
  /\ venue' = [venue EXCEPT ![a][l] = tally'.messages]
  /\ wire' = Sent(a, [kind |-> "change", asset |-> a, level |-> l,
                      to |-> tally'.messages, nested |-> nested])
  /\ Miss(a)
  /\ fetch' = IF a \in live THEN fetch ELSE Stales({a})
  /\ UNCHANGED <<logVars, reducer, pending, queue, waiting, failed, live, socket,
                 wanted, history, unlogged>>

VenueSendsBook(a) ==
  /\ a \in live /\ Tally("messages", MaxMessages)
  /\ wire' = Append(wire, [kind |-> "book", asset |-> a, book |-> venue[a]])
  /\ UNCHANGED <<logVars, reducer, resync, venue, live, socket, wanted,
                 history, behind, unlogged>>

(* connect subscribes to everything that is wanted; a connection breaks    *)
(* with what is on it.  No book is invalidated and no snapshot is fetched. *)
Connects ==
  /\ open /\ socket # "up" /\ wanted # {}
  /\ socket' = "up" /\ live' = wanted
  /\ UNCHANGED <<logVars, reducer, resync, venue, wire, wanted, history, behind,
                 unlogged, tally>>

Missed == {m.asset : m \in {n \in InSeq(wire) : n.kind = "change"}}
Breaks ==
  /\ socket' = IF socket = "up" THEN "closed" ELSE socket
  /\ live' = {} /\ wire' = <<>> /\ behind' = behind \cup Missed

Cut ==
  /\ socket = "up" /\ Tally("mishaps", MaxMishaps)
  /\ Breaks /\ fetch' = Stales(Missed)
  /\ UNCHANGED <<logVars, reducer, pending, queue, waiting, failed, venue, wanted,
                 history, unlogged>>

-----------------------------------------------------------------------------
(* _on_market_discovered: subscribe, then ask for the snapshot.  The put   *)
(* waits while the queue is full, and the bus delivers one market at a     *)
(* time.  On a closed connection the subscription raises and the snapshot  *)
(* is never asked for.                                                     *)

Enqueue(a) == Len(queue) < QueueSize /\ queue' = Append(queue, a)

Discover(a) ==
  /\ open /\ a \notin wanted /\ waiting = {}
  /\ wanted' = wanted \cup {a}
  /\ live' = IF socket = "up" THEN live \cup {a} ELSE live
  /\ \/ socket # "closed" /\ Enqueue(a) /\ UNCHANGED waiting
     \/ socket # "closed" /\ Len(queue) = QueueSize /\ waiting' = {a} /\ UNCHANGED queue
     \/ socket = "closed" /\ UNCHANGED <<queue, waiting>>
  /\ UNCHANGED <<logVars, reducer, pending, fetch, failed, venue, wire, socket,
                 history, behind, unlogged, tally>>

DiscoverPuts(a) ==
  /\ open /\ a \in waiting
  /\ Enqueue(a) /\ waiting' = waiting \ {a}
  /\ UNCHANGED <<logVars, reducer, pending, fetch, failed, network, wanted,
                 history, behind, unlogged, tally>>

-----------------------------------------------------------------------------
(* A worker: take from the queue, ask, and apply what is answered.         *)

BugWorkerAsks(w) ==  \* only while there is a connection
  /\ open /\ socket = "up" /\ fetch[w].pc = "idle" /\ queue # <<>>
  /\ queue' = Tail(queue)
  /\ fetch' = [fetch EXCEPT ![w] = [NoFetch EXCEPT !.pc = "asked", !.asset = Head(queue)]]
  /\ UNCHANGED <<logVars, reducer, pending, waiting, failed, network, wanted, history,
                 behind, unlogged, tally>>

WorkerAsks(w) ==
  /\ open /\ fetch[w].pc = "idle" /\ queue # <<>>
  /\ queue' = Tail(queue)
  /\ fetch' = [fetch EXCEPT ![w] = [NoFetch EXCEPT !.pc = "asked", !.asset = Head(queue)]]
  /\ UNCHANGED <<logVars, reducer, pending, waiting, failed, network, wanted, history,
                 behind, unlogged, tally>>

RestAnswers(w) ==
  /\ fetch[w].pc = "asked"
  /\ fetch' = [fetch EXCEPT ![w].pc = "answered", ![w].book = venue[fetch[w].asset],
                            ![w].fresh = TRUE]
  /\ UNCHANGED <<logVars, reducer, pending, queue, waiting, failed, network, wanted,
                 history, behind, unlogged, tally>>

RestFails(w) ==
  /\ fetch[w].pc = "asked" /\ Tally("mishaps", MaxMishaps)
  /\ failed' = failed \cup {fetch[w].asset}
  /\ fetch' = [fetch EXCEPT ![w] = NoFetch]
  /\ UNCHANGED <<logVars, reducer, pending, queue, waiting, network, wanted, history,
                 behind, unlogged>>

SnapshotArrives(w) ==
  /\ open /\ fetch[w].pc = "answered"
  /\ LET a == fetch[w].asset IN
     /\ book' = [book EXCEPT ![a] = fetch[w].book]
     /\ based' = [based EXCEPT ![a] = TRUE]
     /\ pending' = pending \ {a} /\ failed' = failed \ {a}
     /\ behind' = IF fetch[w].fresh THEN behind \ {a} ELSE behind \cup {a}
     /\ unlogged' = unlogged \cup {a}
  /\ fetch' = [fetch EXCEPT ![w] = NoFetch]
  /\ UNCHANGED <<logVars, queue, waiting, network, wanted, history, tally>>

-----------------------------------------------------------------------------
(* _handle_message: log the raw event, then reduce it. *)

BugReceives(kind) ==  \* books are not among the logged types
  /\ open /\ wire # <<>> /\ Head(wire).kind = kind
  /\ wire' = Tail(wire)
  /\ IF kind = "book" THEN UNCHANGED <<logVars, history>>
     ELSE LogEvent /\ history' = Append(history, Head(wire))

Receives(kind) ==
  /\ open /\ wire # <<>> /\ Head(wire).kind = kind
  /\ wire' = Tail(wire)
  /\ LogEvent /\ history' = Append(history, Head(wire))

BugHandleBook ==  \* keeps the base it has
  /\ Receives("book")
  /\ LET m == Head(wire) IN
     /\ book' = IF based[m.asset] THEN book ELSE [book EXCEPT ![m.asset] = m.book]
     /\ based' = [based EXCEPT ![m.asset] = TRUE]
     /\ pending' = pending \ {m.asset} /\ failed' = failed \ {m.asset}
     /\ behind' = behind \ {m.asset} /\ unlogged' = unlogged \ {m.asset}
  /\ UNCHANGED <<queue, waiting, fetch, venue, live, socket, wanted, tally>>

HandleBook ==
  /\ Receives("book")
  /\ LET m == Head(wire) IN
     /\ book' = [book EXCEPT ![m.asset] = m.book]
     /\ based' = [based EXCEPT ![m.asset] = TRUE]
     /\ pending' = pending \ {m.asset} /\ failed' = failed \ {m.asset}
     /\ behind' = behind \ {m.asset} /\ unlogged' = unlogged \ {m.asset}
  /\ UNCHANGED <<queue, waiting, fetch, venue, live, socket, wanted, tally>>

(* A change sets a level of a book that has a base; otherwise it asks for  *)
(* one.  One of several assets in a message is not in the log's asset_id.  *)
SetLevel(m) ==
  /\ based[m.asset]
  /\ book' = [book EXCEPT ![m.asset][m.level] = m.to]
  /\ UNCHANGED <<pending, queue>>

BugRequestResync(a) ==  \* a full queue leaves the mark
  IF a \in pending THEN UNCHANGED <<pending, queue>>
  ELSE /\ pending' = pending \cup {a}
       /\ queue' = IF Len(queue) < QueueSize THEN Append(queue, a) ELSE queue

RequestResync(a) ==
  IF a \in pending \/ Len(queue) = QueueSize THEN UNCHANGED <<pending, queue>>
  ELSE pending' = pending \cup {a} /\ queue' = Append(queue, a)

HandleChange ==
  /\ Receives("change")
  /\ LET m == Head(wire) IN
     /\ \/ SetLevel(m)
        \/ ~based[m.asset] /\ RequestResync(m.asset) /\ UNCHANGED book
     /\ fetch' = Stales({m.asset})
     /\ unlogged' = IF m.nested THEN unlogged \cup {m.asset} ELSE unlogged
  /\ UNCHANGED <<based, waiting, failed, venue, live, socket, wanted, behind, tally>>

-----------------------------------------------------------------------------
(* stop ends the workers and the connection before it stops the log. *)

Stops ==
  /\ LogStops
  /\ Breaks /\ fetch' = [w \in Workers |-> NoFetch]
  /\ UNCHANGED <<reducer, pending, queue, waiting, failed, venue, wanted, history,
                 unlogged, tally>>

Logging ==
  /\ \/ LoopFlushes /\ UNCHANGED tally
     \/ \E f \in Flushers :
          \/ Writes(f) /\ UNCHANGED tally
          \/ WriteFails(f) /\ Tally("mishaps", MaxMishaps)
     \/ \E r \in Readers : (ReadBegins(r) \/ ReadSelects(r)) /\ UNCHANGED tally
  /\ UNCHANGED <<reducer, resync, network, wanted, history, behind, unlogged>>

WorkerStep(w) == WorkerAsks(w) \/ RestAnswers(w) \/ RestFails(w) \/ SnapshotArrives(w)

Next ==
  \/ \E a \in Assets :
       \/ \E l \in Levels, nested \in BOOLEAN : VenueChanges(a, l, nested)
       \/ VenueSendsBook(a) \/ Discover(a) \/ DiscoverPuts(a)
  \/ Connects \/ Cut
  \/ \E w \in Workers : WorkerStep(w)
  \/ HandleBook \/ HandleChange
  \/ Stops \/ Logging

Spec == Init /\ [][Next]_vars

(* The loop runs a worker that can go on, and a request over HTTP is       *)
(* answered or fails.  Neither the venue nor the connection is fair.       *)
FairSpec == Spec /\ \A w \in Workers : WF_vars(WorkerStep(w))

-----------------------------------------------------------------------------
(* Messages applied to a book: the last of them that sets a level decides  *)
(* it, and a whole book sets every level.                                  *)
Sets(m, a, l) == m.asset = a /\ (m.kind = "book" \/ m.level = l)
Value(m, l)   == IF m.kind = "book" THEN m.book[l] ELSE m.to
Level(b, l, ms, N) == IF N = {} THEN b[l] ELSE Value(ms[Max(N)], l)
Applied(b, a, ms)  ==
  [l \in Levels |-> Level(b, l, ms, {n \in DOMAIN ms : Sets(ms[n], a, l)})]

(* A book with a base that missed nothing is the venue's book once what is *)
(* on the wire is applied: snapshots over REST and changes over the        *)
(* WebSocket may be interleaved in any way, but for a snapshot that is     *)
(* overtaken by a change (PolymarketBookReducer).                          *)
BookConverges ==
  \A a \in Assets : based[a] /\ a \notin behind =>
    Applied(book[a], a, wire) = venue[a]

(* A request for a resync is in the queue or with a worker until the book  *)
(* has a base, unless the fetch failed: then nothing asks again, for the   *)
(* mark stays (_request_resync, _fetch_snapshot).                          *)
PendingIsServed ==
  open => \A a \in pending :
    a \in InSeq(queue) \cup {fetch[w].asset : w \in Workers} \cup failed

(* A resync that was asked for ends, however often messages and markets    *)
(* come between: the mark is taken back, or the fetch fails, or the        *)
(* service stops (_request_resync, _snapshot_worker).                      *)
ResyncEnds == \A a \in Assets : []<>(a \notin pending \/ a \in failed \/ ~open)

(* Replaying a log that lost nothing and was written in order gives the    *)
(* live book of an asset that was built from logged messages alone         *)
(* (replay_from_log).                                                      *)
(* The rows of an asset are found by asset_id, and the changes before its  *)
(* first book are skipped: that book sets every level anyway.              *)
Replays(m)  == m.kind = "book" \/ ~m.nested
Replayed(a) ==
  LET rows == {n \in DOMAIN stored : Replays(history[stored[n]])}
      ms   == [n \in rows |-> history[stored[n]]]
      has  == \E n \in rows : ms[n].kind = "book" /\ ms[n].asset = a
  IN [has |-> has, book |-> IF has THEN Applied(Empty, a, ms) ELSE Empty]
ReplayIsLive ==
  Whole => \A a \in Assets \ unlogged :
    Replayed(a) = [has |-> based[a], book |-> book[a]]
=============================================================================
