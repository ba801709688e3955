---------------------------- MODULE SimulationRun ----------------------------
(***************************************************************************)
(* One paper-trading run of SimulationService                              *)
(* (modules/simulation/service.py) with its rows in SimulationStore        *)
(* (libs/db/simulation_store.py): the life cycle calls of the API, the     *)
(* feed that settles signals, the equity poll and the feedback loop.       *)
(*                                                                         *)
(* Runs share nothing but the feed, which serves them in turn: here the    *)
(* other runs are the time between Lists and Visits.  A feed handles one   *)
(* snapshot after the other and a source listens to one topic, so the lock *)
(* of a run is never contended and is left out.                            *)
(*                                                                         *)
(* Money is modelled by the trades it accounts for: a cash balance is the  *)
(* initial capital less the cost of a set of trades, a position the sum of *)
(* a set of trades.                                                        *)
(***************************************************************************)
EXTENDS Integers, Sequences, FiniteSets

CONSTANTS
  Instruments,  \* the instruments of the run
  MaxLegs,      \* the signals of a snapshot: one, or two for a pair
  Admins,       \* API calls that can be in flight together
  Feed, Poll,   \* the consumer of the snapshots, the equity loop
  Cooldown,     \* cooldown_seconds
  MinClosed,    \* feedback_min_closed_trades
  MaxTime,      \* bound of the clock
  MaxTrades,    \* bound of the trades
  MaxCalls,     \* bound of the API calls and rounds of the equity loop
  MaxMishaps    \* bound of crashes and database errors

ASSUME ProcsAssumption   == Feed # Poll /\ {Feed, Poll} \cap Admins = {}
ASSUME SettingsAssumption ==
  Cooldown \in Nat /\ MinClosed \in Nat \ {0} /\ MaxLegs \in Nat \ {0}
ASSUME SimBoundsAssumption ==
  {MaxTime, MaxTrades, MaxCalls, MaxMishaps} \subseteq Nat

VARIABLES
  row,      \* the row of sim_runs
  trades,   \* the rows of sim_trades, by number
  pos,      \* sim_positions: the trades in the position of each instrument
  obj,      \* the _ActiveRun objects of this run, in the order of _bind
  active,   \* which of them _active holds, 0 for none
  call,     \* where the calls, the feed and the poll wait
  up,       \* the process runs
  clock,
  \* what the world outside has seen
  quiet,    \* a pause or stop took effect and no start was called since
  torn,     \* trades whose three transactions were cut short
  fed,      \* how often the outcome of a trade went into the weights
  upset,    \* what has happened that the code does not guard against
  count     \* calls and mishaps so far

db     == <<row, trades, pos>>
memory == <<obj, active>>
world  == <<quiet, torn, fed, upset>>
vars   == <<db, memory, call, up, clock, world, count>>

-----------------------------------------------------------------------------
Procs      == Admins \cup {Feed, Poll}
Ids        == 1..MaxTrades
Statuses   == {"paused", "running", "stopped"}
RowType    == [status : Statuses \cup {"absent"}, cash : SUBSET Ids, mark : 0..MaxTrades]
TradeType  == [inst : Instruments, at : 0..MaxTime, closed : BOOLEAN, late : BOOLEAN]
ActiveType == [status : Statuses, cash : SUBSET Ids,
               last : [Instruments -> (-Cooldown)..MaxTime]]
Upsets     == {"transitions", "feedbacks", "stale", "crash", "fault"}

CallType ==
  [pc : {"idle", "save", "activate", "lookup", "write", "reread", "install", "pop",
         "learn", "mark", "held", "point",
         "leg", "sizing", "trade", "position", "cash"},
   kind : {"none", "create", "running", "paused", "stopped", "feedback", "trade"},
   obj : Nat, row : RowType,
   legs : Seq(Instruments), at : 0..MaxTime, late : BOOLEAN, closed : BOOLEAN,
   held : SUBSET Ids, paid : SUBSET Ids, id : 0..MaxTrades]

NoRow   == [status |-> "absent", cash |-> {}, mark |-> 0]
Idle    == [pc |-> "idle", kind |-> "none", obj |-> 0, row |-> NoRow,
            legs |-> <<>>, at |-> 0, late |-> FALSE, closed |-> FALSE,
            held |-> {}, paid |-> {}, id |-> 0]

TypeOK ==
  /\ row \in RowType
  /\ trades \in Seq(TradeType)
  /\ pos \in [Instruments -> SUBSET Ids]
  /\ obj \in Seq(ActiveType)
  /\ active \in 0..Len(obj)
  /\ call \in [Procs -> CallType]
  /\ up \in BOOLEAN /\ quiet \in BOOLEAN
  /\ clock \in 0..MaxTime
  /\ torn \subseteq Ids
  /\ fed \in [Ids -> Nat]
  /\ upset \subseteq Upsets
  /\ count \in [calls : Nat, mishaps : Nat]

(* The process starts; the run may exist from before. *)
Init ==
  /\ \E status \in Statuses \cup {"absent"} : row = [NoRow EXCEPT !.status = status]
  /\ trades = <<>> /\ pos = [i \in Instruments |-> {}]
  /\ obj = <<>> /\ active = 0
  /\ call = [p \in Procs |-> Idle]
  /\ up = FALSE /\ clock = 0
  /\ quiet = FALSE /\ torn = {} /\ fed = [t \in Ids |-> 0] /\ upset = {}
  /\ count = [calls |-> 0, mishaps |-> 0]

Goto(p, pc)      == call' = [call EXCEPT ![p].pc = pc]
At(p, pc)        == up /\ call[p].pc = pc
Return(p)        == call' = [call EXCEPT ![p] = Idle]
Bound(r)         == [status |-> r.status, cash |-> r.cash,
                     last |-> [i \in Instruments |-> -Cooldown]]
Transitioning(a) == call[a].kind \in {"create", "running", "paused", "stopped"}
Upset(what)      == upset' = upset \cup what

-----------------------------------------------------------------------------
(* create_run: bind, save the row, enter _active. *)

Called(p) ==
  /\ At(p, "idle") /\ count.calls < MaxCalls
  /\ count' = [count EXCEPT !.calls = @ + 1]
Overlaps(a) ==
  Upset(IF \E b \in Admins \ {a} : Transitioning(b) THEN {"transitions"} ELSE {})

CreateRun(a) ==
  /\ At(a, "idle") /\ Overlaps(a)
  /\ obj = <<>> /\ row = NoRow
  /\ obj' = <<Bound([NoRow EXCEPT !.status = "paused"])>>
  /\ call' = [call EXCEPT ![a] = [Idle EXCEPT !.pc = "save", !.kind = "create", !.obj = 1]]
  /\ UNCHANGED <<db, active, up, clock, quiet, torn, fed, count>>

SaveCommits(a) ==
  /\ At(a, "save")
  /\ row' = [NoRow EXCEPT !.status = "paused"]
  /\ Goto(a, "activate")
  /\ UNCHANGED <<trades, pos, memory, up, clock, world, count>>

Activates(a) ==
  /\ At(a, "activate")
  /\ active' = call[a].obj
  /\ Return(a)
  /\ UNCHANGED <<db, obj, up, clock, world, count>>

-----------------------------------------------------------------------------
(* start_run, pause_run, stop_run: _transition with its allowed_from. *)

BugAllowedFrom(status) ==  \* a stopped run can be started again
  CASE status = "running" -> {"paused", "stopped"}
    [] status = "paused"  -> {"running"}
    [] status = "stopped" -> {"running", "paused"}

AllowedFrom(status) ==
  CASE status = "running" -> {"paused"}
    [] status = "paused"  -> {"running"}
    [] status = "stopped" -> {"running", "paused"}

(* With an active object its record decides, otherwise the row. *)
TransitionRun(a, status) ==
  /\ Called(a) /\ Overlaps(a)
  /\ active # 0 => obj[active].status \in AllowedFrom(status)
  /\ quiet' = (quiet /\ status # "running")
  /\ call' = [call EXCEPT ![a] = [Idle EXCEPT !.pc = IF active = 0 THEN "lookup" ELSE "write",
                                              !.kind = status, !.obj = active]]
  /\ UNCHANGED <<db, memory, up, clock, torn, fed>>

LookupReads(a) ==
  /\ At(a, "lookup")
  /\ IF row.status \in AllowedFrom(call[a].kind) THEN Goto(a, "write") ELSE Return(a)
  /\ UNCHANGED <<db, memory, up, clock, world, count>>

WriteCommits(a) ==
  /\ At(a, "write")
  /\ row' = [row EXCEPT !.status = call[a].kind]
  /\ Goto(a, "reread")
  /\ UNCHANGED <<trades, pos, memory, up, clock, world, count>>

(* The row as get_run reads it in its thread. *)
Rereads(p) ==
  /\ At(p, "reread")
  /\ call' = [call EXCEPT ![p].pc = "install", ![p].row = [row EXCEPT !.mark = 0]]
  /\ UNCHANGED <<db, memory, up, clock, world, count>>

(* What was read replaces the record; it may be older than the row by now. *)
Stale(p) == call[p].row # [row EXCEPT !.mark = 0]
SetRecord(p) ==
  obj' = [obj EXCEPT ![call[p].obj].status = call[p].row.status,
                     ![call[p].obj].cash   = call[p].row.cash]
NoteStale(p) == Upset(IF Stale(p) THEN {"stale"} ELSE {})

BugTransitionInstalls(a) ==  \* enters the object before it is bound
  /\ At(a, "install") /\ call[a].kind \in Statuses
  /\ NoteStale(a)
  /\ IF call[a].obj # 0 THEN SetRecord(a) /\ UNCHANGED active
     ELSE active' = Len(obj) + 1 /\ UNCHANGED obj
  /\ quiet' = (call[a].kind # "running")
  /\ IF call[a].kind = "stopped" THEN Goto(a, "pop") ELSE Return(a)
  /\ UNCHANGED <<db, up, clock, torn, fed, count>>

TransitionInstalls(a) ==
  /\ At(a, "install") /\ call[a].kind \in Statuses
  /\ NoteStale(a)
  /\ \/ call[a].obj # 0 /\ SetRecord(a) /\ UNCHANGED active
     \/ /\ call[a].obj = 0 /\ call[a].kind # "stopped"
        /\ obj' = Append(obj, Bound(call[a].row))
        /\ active' = Len(obj) + 1
     \/ call[a].obj = 0 /\ call[a].kind = "stopped" /\ UNCHANGED memory
  /\ quiet' = (call[a].kind # "running"
               /\ \A b \in Admins \ {a} : call[b].kind # "running")
  /\ IF call[a].kind = "stopped" THEN Goto(a, "pop") ELSE Return(a)
  /\ UNCHANGED <<db, up, clock, torn, fed, count>>

(* stop_run takes the object out of _active and values it a last time. *)
StopPops(a) ==
  /\ At(a, "pop")
  /\ active' = 0
  /\ IF active = 0 THEN Return(a)
     ELSE call' = [call EXCEPT ![a] = [Idle EXCEPT !.pc = "held", !.obj = active]]
  /\ UNCHANGED <<db, obj, up, clock, world, count>>

-----------------------------------------------------------------------------
(* apply_feedback, of the API or of the equity loop. *)

ApplyFeedback(p) ==
  /\ Called(p)
  /\ active # 0
  /\ Upset(IF \E q \in Procs \ {p} : call[q].kind = "feedback" THEN {"feedbacks"} ELSE {})
  /\ call' = [call EXCEPT ![p] = [Idle EXCEPT !.pc = "learn", !.kind = "feedback",
                                              !.obj = active]]
  /\ UNCHANGED <<db, memory, up, clock, quiet, torn, fed>>

Outcomes == {t \in DOMAIN trades : trades[t].closed /\ t > row.mark}

(* Weights move with the trades closed since the watermark. *)
BugLearns(p) ==  \* does not look at the watermark
  /\ At(p, "learn")
  /\ fed' = [t \in Ids |-> IF t \in DOMAIN trades /\ trades[t].closed THEN fed[t] + 1 ELSE fed[t]]
  /\ call' = [call EXCEPT ![p].pc = "mark", ![p].id = Len(trades)]
  /\ UNCHANGED <<db, memory, up, clock, quiet, torn, upset, count>>

Learns(p) ==
  /\ At(p, "learn")
  /\ IF Cardinality(Outcomes) < MinClosed
     THEN Goto(p, "reread") /\ UNCHANGED fed
     ELSE /\ fed' = [t \in Ids |-> IF t \in Outcomes THEN fed[t] + 1 ELSE fed[t]]
          /\ call' = [call EXCEPT ![p].pc = "mark",
                        ![p].id = CHOOSE t \in Outcomes : \A u \in Outcomes : u <= t]
  /\ UNCHANGED <<db, memory, up, clock, quiet, torn, upset, count>>

MarkCommits(p) ==
  /\ At(p, "mark")
  /\ row' = [row EXCEPT !.mark = call[p].id]
  /\ Goto(p, "reread")
  /\ UNCHANGED <<trades, pos, memory, up, clock, world, count>>

FeedbackInstalls(p) ==
  /\ At(p, "install") /\ call[p].kind = "feedback"
  /\ SetRecord(p) /\ NoteStale(p)
  /\ Return(p)
  /\ UNCHANGED <<db, active, up, clock, quiet, torn, fed, count>>

-----------------------------------------------------------------------------
(* _dispatch lists the active objects and comes to this one later.  So     *)
(* does the poll, which skips an object that was taken out and stopped.    *)

(* The source turns the snapshot into one signal or into the two of a pair. *)
Dispatches ==
  /\ At(Feed, "idle") /\ active # 0
  /\ \E k \in 1..MaxLegs : \E legs \in [1..k -> Instruments] :
       /\ \A m, n \in 1..k : legs[m] = legs[n] => m = n
       /\ call' = [call EXCEPT ![Feed] = [Idle EXCEPT !.pc = "leg", !.obj = active, !.legs = legs]]
  /\ UNCHANGED <<db, memory, up, clock, world, count>>

PollVisits ==
  /\ Called(Poll) /\ active # 0 /\ obj[active].status = "running"
  /\ call' = [call EXCEPT ![Poll] = [Idle EXCEPT !.pc = "held", !.obj = active]]
  /\ UNCHANGED <<db, memory, up, clock, world>>

-----------------------------------------------------------------------------
(* _process_signal, for the first of the legs that are left. *)

Record   == obj[call[Feed].obj]
Inst     == Head(call[Feed].legs)
NextLeg  == IF Len(call[Feed].legs) = 1 THEN Idle
            ELSE [Idle EXCEPT !.pc = "leg", !.obj = call[Feed].obj,
                              !.legs = Tail(call[Feed].legs)]
Skip     == call' = [call EXCEPT ![Feed] = NextLeg]

Settles(now) ==
  /\ Len(trades) < MaxTrades
  /\ clock' = now
  /\ call' = [call EXCEPT ![Feed].pc = "sizing", ![Feed].kind = "trade",
                          ![Feed].at = now, ![Feed].late = quiet]

BugSettleBegins ==  \* does not ask for the status
  /\ At(Feed, "leg")
  /\ \/ Skip /\ UNCHANGED clock
     \/ \E now \in clock..MaxTime : now - Record.last[Inst] >= Cooldown /\ Settles(now)
  /\ UNCHANGED <<db, memory, up, world, count>>

BugCooldown ==  \* off by one
  /\ At(Feed, "leg")
  /\ \/ Skip /\ UNCHANGED clock
     \/ \E now \in clock..MaxTime :
          /\ Record.status = "running" /\ now - Record.last[Inst] + 1 >= Cooldown
          /\ Settles(now)
  /\ UNCHANGED <<db, memory, up, world, count>>

(* Time matters only here, so it passes here. *)
SettleBegins ==
  /\ At(Feed, "leg")
  /\ \/ Skip /\ UNCHANGED clock  \* not running, a stale timestamp, or in the cooldown
     \/ \E now \in clock..MaxTime :
          /\ Record.status = "running" /\ now - Record.last[Inst] >= Cooldown
          /\ Settles(now)
  /\ UNCHANGED <<db, memory, up, world, count>>

BugSizes ==  \* starts from the initial capital
  /\ At(Feed, "sizing")
  /\ \/ Skip
     \/ call' = [call EXCEPT ![Feed].pc = "trade", ![Feed].paid = {}]
  /\ UNCHANGED <<db, memory, up, clock, world, count>>

(* Equity, direction, notional, the risk checker and the book decide about *)
(* the fill.  The positions were read before, but only the feed writes     *)
(* them; the new balance starts from the record as it is by now.           *)
Sizes ==
  /\ At(Feed, "sizing")
  /\ \/ Skip
     \/ \E closed \in IF pos[Inst] = {} THEN {FALSE} ELSE BOOLEAN :
          call' = [call EXCEPT ![Feed].pc = "trade", ![Feed].closed = closed,
                               ![Feed].paid = Record.cash]
  /\ UNCHANGED <<db, memory, up, clock, world, count>>

TradeCommits ==
  /\ At(Feed, "trade")
  /\ trades' = Append(trades, [inst |-> Inst, at |-> call[Feed].at,
                               closed |-> call[Feed].closed, late |-> call[Feed].late])
  /\ call' = [call EXCEPT ![Feed].pc = "position", ![Feed].id = Len(trades) + 1]
  /\ UNCHANGED <<row, pos, memory, up, clock, world, count>>

BugPositionCommits ==  \* stores the fill, not the position it makes
  /\ At(Feed, "position")
  /\ pos' = [pos EXCEPT ![Inst] = {call[Feed].id}]
  /\ Goto(Feed, "cash")
  /\ UNCHANGED <<row, trades, memory, up, clock, world, count>>

PositionCommits ==
  /\ At(Feed, "position")
  /\ pos' = [pos EXCEPT ![Inst] = @ \cup {call[Feed].id}]
  /\ Goto(Feed, "cash")
  /\ UNCHANGED <<row, trades, memory, up, clock, world, count>>

CashCommits ==
  /\ At(Feed, "cash")
  /\ row' = [row EXCEPT !.cash = call[Feed].paid \cup {call[Feed].id}]
  /\ Goto(Feed, "reread")
  /\ UNCHANGED <<trades, pos, memory, up, clock, world, count>>

BugTradeInstalls ==  \* keeps the record as it was before the trade
  /\ At(Feed, "install")
  /\ NoteStale(Feed)
  /\ obj' = [obj EXCEPT ![call[Feed].obj].last[Inst] = call[Feed].at]
  /\ Goto(Feed, "held")
  /\ UNCHANGED <<db, active, up, clock, quiet, torn, fed, count>>

TradeInstalls ==
  /\ At(Feed, "install")
  /\ NoteStale(Feed)
  /\ obj' = [obj EXCEPT ![call[Feed].obj] =
               [status |-> call[Feed].row.status, cash |-> call[Feed].row.cash,
                last |-> [@.last EXCEPT ![Inst] = call[Feed].at]]]
  /\ Goto(Feed, "held")
  /\ UNCHANGED <<db, active, up, clock, quiet, torn, fed, count>>

-----------------------------------------------------------------------------
(* _record_equity: the thread reads the positions, then the balance of the *)
(* record, and writes a point.  A record replaced between the two reads    *)
(* would only bring them closer.  No one here reads sim_equity_points.     *)

Held == UNION {pos[i] : i \in Instruments}

Values(p) ==
  /\ At(p, "held")
  /\ call' = [call EXCEPT ![p].pc = "point", ![p].held = Held,
                          ![p].paid = obj[call[p].obj].cash]
  /\ UNCHANGED <<db, memory, up, clock, world, count>>

PointCommits(p) ==
  /\ At(p, "point")
  /\ IF p = Feed THEN Skip ELSE Return(p)
  /\ UNCHANGED <<db, memory, up, clock, world, count>>

-----------------------------------------------------------------------------
(* The environment: database errors and the end of the process.            *)

CutShort == IF call[Feed].pc \in {"position", "cash"} THEN {call[Feed].id} ELSE {}

(* A thread raises: the call ends where it is, the feed drops its snapshot. *)
DatabaseFails(p) ==
  /\ up /\ count.mishaps < MaxMishaps
  /\ call[p].pc \in {"save", "lookup", "write", "reread", "learn", "mark", "held", "point",
                     "sizing", "trade", "position", "cash"}
  /\ count' = [count EXCEPT !.mishaps = @ + 1]
  /\ Upset({"fault"})
  /\ torn' = IF p = Feed THEN torn \cup CutShort ELSE torn
  /\ Return(p)
  /\ UNCHANGED <<db, memory, up, clock, quiet, fed>>

Crash ==
  /\ up /\ count.mishaps < MaxMishaps
  /\ count' = [count EXCEPT !.mishaps = @ + 1]
  /\ Upset({"crash"})
  /\ up' = FALSE
  /\ obj' = <<>> /\ active' = 0 /\ call' = [p \in Procs |-> Idle]
  /\ torn' = torn \cup CutShort
  /\ UNCHANGED <<db, clock, quiet, fed>>

(* restore_state before the API serves; a source that cannot be bound is   *)
(* skipped.                                                                *)
Restores ==
  /\ ~up /\ up' = TRUE
  /\ \/ /\ row.status \in {"running", "paused"}
        /\ obj' = <<Bound(row)>> /\ active' = 1
     \/ UNCHANGED memory
  /\ UNCHANGED <<db, call, clock, world, count>>

-----------------------------------------------------------------------------
Admin(a) ==
  \/ CreateRun(a) \/ SaveCommits(a) \/ Activates(a)
  \/ \E status \in Statuses : TransitionRun(a, status)
  \/ LookupReads(a) \/ WriteCommits(a) \/ TransitionInstalls(a) \/ StopPops(a)
Feedback(p) == ApplyFeedback(p) \/ Learns(p) \/ MarkCommits(p) \/ FeedbackInstalls(p)
Settle ==
  \/ Dispatches \/ SettleBegins \/ Sizes
  \/ TradeCommits \/ PositionCommits \/ CashCommits \/ TradeInstalls
Equity(p) == Values(p) \/ PointCommits(p)

Next ==
  \/ \E a \in Admins : Admin(a)
  \/ \E p \in Admins \cup {Poll} : Feedback(p)
  \/ Settle \/ PollVisits
  \/ \E p \in Procs : Rereads(p) \/ Equity(p) \/ DatabaseFails(p)
  \/ Crash \/ Restores

Spec == Init /\ [][Next]_vars

-----------------------------------------------------------------------------
(* Correctness.  The calls are not guarded against each other, so some of  *)
(* the properties name the overlap, error or crash that voids them.        *)

Free(what) == upset \cap what = {}
Cutting    == call[Feed].pc \in {"position", "cash"}
Done       == DOMAIN trades \ (torn \cup IF Cutting THEN {Len(trades)} ELSE {})

(* No trade is begun after a pause or a stop took effect, unless two       *)
(* life cycle calls overlap or a record is replaced by an older row.       *)
NoLateTrades ==
  Free({"transitions", "stale"}) => \A t \in DOMAIN trades : ~trades[t].late

(* The positions account for every trade, except those whose transactions  *)
(* were cut short by a crash or an error; no overlap loses one.            *)
PositionsAccount ==
  \A i \in Instruments : {t \in Done : trades[t].inst = i} \subseteq pos[i]
                         /\ pos[i] \subseteq {t \in DOMAIN trades : trades[t].inst = i}

(* The balance of the row has paid for every trade, except for those cut   *)
(* short by a crash, unless two objects trade, a record was replaced by an *)
(* older row, or an error kept the record from following its row.          *)
CashAccounts ==
  Free({"transitions", "stale", "fault"}) =>
    Done \subseteq row.cash /\ row.cash \subseteq DOMAIN trades

(* Trades in one instrument keep the cooldown, until a crash forgets it,   *)
(* a call binds the run again, or an error hides that a trade was stored.  *)
CooldownKept ==
  Free({"transitions", "crash", "fault"}) =>
    \A t, u \in DOMAIN trades :
      t < u /\ trades[t].inst = trades[u].inst => trades[u].at - trades[t].at >= Cooldown

(* An equity point mixes positions and balance of two moments at most one  *)
(* trade apart: the one being settled.                                     *)
EquityWithinOneTrade ==
  Free({"stale", "crash", "fault", "transitions"}) =>
    \A p \in Procs : call[p].pc = "point" => Cardinality(call[p].held \ call[p].paid) <= 1

(* The outcome of a trade moves the weights once, unless two feedback      *)
(* calls overlap or the watermark could not be stored.                     *)
FedOnce == Free({"feedbacks", "crash", "fault"}) => \A t \in Ids : fed[t] <= 1

(* A stopped run stays stopped, unless life cycle calls overlap or the     *)
(* stop itself broke off after its write.                                  *)
StoppedIsFinal ==
  [][row.status = "stopped" /\ Free({"transitions", "fault"}) => row'.status = "stopped"]_vars
=============================================================================
