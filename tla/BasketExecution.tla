--------------------------- MODULE BasketExecution ---------------------------
(***************************************************************************)
(* BasketExecutor (modules/execution_engine/basket_executor.py) with the   *)
(* ContractExecutor and OrderManager of each venue and the baskets table:  *)
(* it places the legs of a basket one after the other, cancels baskets,    *)
(* and keeps both in memory and in the table.                              *)
(*                                                                         *)
(* What lies between two awaits is one step.  The awaits are the writes to *)
(* the table and, on a live venue, the order itself, which runs in a       *)
(* thread; paper orders and cancellations run on the loop.                 *)
(***************************************************************************)
EXTENDS Integers, Sequences, FiniteSets

CONSTANTS
  Baskets,     \* identities handed out by uuid4, each at most once
  MaxLegs,     \* bound of the legs of a basket
  Venues, Kind,\* the venues: "paper", "live", "unavailable", or "absent" when
               \* no executor is configured
  VenueOf,     \* the venues of the legs of each basket
  Cancellers,  \* cancel_basket calls that can be in flight together
  MaxCrashes,  \* bound of process crashes
  MaxFaults,   \* bound of failed reads, writes, orders and cancellations
  None         \* no basket, no order

Legs      == 1..MaxLegs
LegsOf(b) == DOMAIN VenueOf[b]

ASSUME BasketsAssumption ==
  Baskets \cap Cancellers = {} /\ None \notin Baskets \cup (Baskets \X Legs)
ASSUME VenuesAssumption ==
  /\ MaxLegs \in Nat
  /\ Kind \in [Venues -> {"paper", "live", "unavailable", "absent"}]
  /\ \A b \in Baskets : \E k \in 0..MaxLegs : VenueOf[b] \in [1..k -> Venues]
ASSUME BasketBoundsAssumption == MaxCrashes \in Nat /\ MaxFaults \in Nat

VARIABLES
  status,      \* status of each basket in memory, "absent" for none
  leg,         \* its legs in memory: status and client_order_id
  manager,     \* the order manager of each venue: its orders by number
  row,         \* the baskets and basket_legs tables
  call,        \* submit_basket of each basket, and the cancel_basket calls
  up,          \* the process runs
  \* what the world outside has seen
  venue,       \* how many orders each leg placed, and whether one is open
  past,        \* whether calls ever overlapped on a basket
  faults       \* the faults so far, by kind

memory == <<status, leg, manager>>
vars   == <<memory, row, call, up, venue, past, faults>>

-----------------------------------------------------------------------------
Procs       == Baskets \cup Cancellers
BasketText  == {"submitting", "submitted", "partial", "partial_failure", "cancelled"}
LegType     == [status : {"pending", "submitted", "rejected", "unavailable", "cancelled"},
                order : Nat]
Fresh       == [status |-> "pending", order |-> 0]
FreshLegs   == [n \in Legs |-> Fresh]
RowType     == [status : BasketText \cup {"absent"}, legs : [Legs -> LegType]]
NoRow       == [status |-> "absent", legs |-> FreshLegs]
ManagerType == [status : {"pending", "submitted", "cancelled"}, ref : (Baskets \X Legs) \cup {None}]
FaultType   == [crashes : Nat, reads : Nat, writes : Nat, raised : Nat, refused : Nat]

(* A call in flight: where it waits, the leg it is at, and the values it   *)
(* passed to the thread it waits for.  "walk" is between two legs.         *)
CallType ==
  [pc : {"idle", "save", "walk", "placing", "placed", "leg", "status"},
   basket : Baskets \cup {None}, n : 0..(MaxLegs + 1),
   leg : LegType, text : BasketText, order : Nat]

Idle == [pc |-> "idle", basket |-> None, n |-> 0, leg |-> Fresh,
         text |-> "submitting", order |-> 0]

TypeOK ==
  /\ status \in [Baskets -> BasketText \cup {"absent"}]
  /\ leg \in [Baskets -> [Legs -> LegType]]
  /\ manager \in [Venues -> Seq(ManagerType)]
  /\ row \in [Baskets -> RowType]
  /\ call \in [Procs -> CallType]
  /\ up \in BOOLEAN
  /\ venue \in [Baskets -> [Legs -> [placed : Nat, open : BOOLEAN]]]
  /\ past \in [Baskets -> {"unborn", "alone", "overlapped"}]
  /\ faults \in FaultType

Init ==
  /\ status = [b \in Baskets |-> "absent"]
  /\ leg = [b \in Baskets |-> FreshLegs]
  /\ manager = [v \in Venues |-> <<>>]
  /\ row = [b \in Baskets |-> NoRow]
  /\ call = [p \in Procs |-> Idle]
  /\ up = TRUE
  /\ venue = [b \in Baskets |-> [n \in Legs |-> [placed |-> 0, open |-> FALSE]]]
  /\ past = [b \in Baskets |-> "unborn"]
  /\ faults = [crashes |-> 0, reads |-> 0, writes |-> 0, raised |-> 0, refused |-> 0]

Fault(kind) ==
  /\ faults.reads + faults.writes + faults.raised + faults.refused < MaxFaults
  /\ faults' = [faults EXCEPT ![kind] = @ + 1]

InFlight(b) == {p \in Procs : call[p].basket = b}

(* Operators named Bug... are mistakes of the kind the properties must     *)
(* catch; the specification does not use them.                             *)

Derive(b) ==
  LET is(text) == {n \in LegsOf(b) : leg[b][n].status = text}
  IN  IF LegsOf(b) # {} /\ is("cancelled") = LegsOf(b) THEN "cancelled"
      ELSE IF is("rejected") # {} THEN "partial_failure"
      ELSE IF LegsOf(b) # {} /\ is("submitted") = LegsOf(b) THEN "submitted"
      ELSE "partial"

-----------------------------------------------------------------------------
(* submit_basket. *)

SubmitBasket(b) ==
  /\ up /\ past[b] = "unborn"
  /\ past' = [past EXCEPT ![b] = "alone"]
  /\ status' = [status EXCEPT ![b] = "submitting"]
  /\ call' = [call EXCEPT ![b] = [Idle EXCEPT !.pc = "save", !.basket = b]]
  /\ UNCHANGED <<leg, manager, row, up, venue, faults>>

AtLeg(b, kinds) ==
  /\ call[b].pc = "walk" /\ call[b].n \in LegsOf(b)
  /\ Kind[VenueOf[b][call[b].n]] \in kinds

(* A leg gets its outcome in memory and goes to the table. *)
Outcome(b, outcome) ==
  /\ leg' = [leg EXCEPT ![b][call[b].n] = outcome]
  /\ call' = [call EXCEPT ![b] = [@ EXCEPT !.pc = "leg", !.leg = outcome, !.order = 0]]

RejectLeg(b) ==
  /\ AtLeg(b, {"absent"})
  /\ Outcome(b, [status |-> "rejected", order |-> 0])
  /\ UNCHANGED <<status, manager, row, up, venue, past, faults>>

BugUnavailableLeg(b) ==  \* reported as if it had been executed
  /\ AtLeg(b, {"unavailable"})
  /\ Outcome(b, [status |-> "submitted", order |-> 1])
  /\ UNCHANGED <<status, manager, row, up, venue, past, faults>>

UnavailableLeg(b) ==
  /\ AtLeg(b, {"unavailable"})
  /\ Outcome(b, [status |-> "unavailable", order |-> 0])
  /\ UNCHANGED <<status, manager, row, up, venue, past, faults>>

Placed(b, n) == [venue EXCEPT ![b][n] = [placed |-> @.placed + 1, open |-> TRUE]]

PaperLeg(b) ==
  LET n == call[b].n
      v == VenueOf[b][n]
  IN
  /\ AtLeg(b, {"paper"})
  /\ manager' = [manager EXCEPT ![v] = Append(@, [status |-> "submitted", ref |-> <<b, n>>])]
  /\ venue' = Placed(b, n)
  /\ Outcome(b, [status |-> "submitted", order |-> Len(manager[v]) + 1])
  /\ UNCHANGED <<status, row, up, past, faults>>

(* On a live venue the order is numbered, sent and noted in a thread. *)
LiveLegStarts(b) ==
  LET v == VenueOf[b][call[b].n] IN
  /\ AtLeg(b, {"live"})
  /\ manager' = [manager EXCEPT ![v] = Append(@, [status |-> "pending", ref |-> None])]
  /\ call' = [call EXCEPT ![b] = [@ EXCEPT !.pc = "placing", !.order = Len(manager[v]) + 1]]
  /\ UNCHANGED <<status, leg, row, up, venue, past, faults>>

LegAccepted(b) ==
  LET n == call[b].n
      v == VenueOf[b][n]
  IN
  /\ call[b].pc = "placing"
  /\ venue' = Placed(b, n)
  /\ manager' = [manager EXCEPT ![v][call[b].order] = [status |-> "submitted", ref |-> <<b, n>>]]
  /\ call' = [call EXCEPT ![b].pc = "placed"]
  /\ UNCHANGED <<status, leg, row, up, past, faults>>

(* place_order raised, perhaps after the venue had taken the order: the    *)
(* exception ends submit_basket where it is.                               *)
LegRaises(b) ==
  /\ call[b].pc = "placing"
  /\ Fault("raised")
  /\ venue' \in {venue, Placed(b, call[b].n)}
  /\ call' = [call EXCEPT ![b] = Idle]
  /\ UNCHANGED <<memory, row, up, past>>

BugOrderId(b) == Len(manager[VenueOf[b][call[b].n]])  \* the counter, not the order's number
OrderId(b)    == call[b].order

LegRecorded(b) ==
  LET v == VenueOf[b][call[b].n] IN
  /\ call[b].pc = "placed"
  /\ Outcome(b, [status |-> manager[v][OrderId(b)].status, order |-> OrderId(b)])
  /\ UNCHANGED <<status, manager, row, up, venue, past, faults>>

Finish(b) ==
  /\ call[b].pc = "walk" /\ call[b].n \notin LegsOf(b)
  /\ status' = [status EXCEPT ![b] = Derive(b)]
  /\ call' = [call EXCEPT ![b] = [@ EXCEPT !.pc = "status", !.text = Derive(b)]]
  /\ UNCHANGED <<leg, manager, row, up, venue, past, faults>>

-----------------------------------------------------------------------------
(* cancel_basket: from leg to leg that has an order, and to the basket     *)
(* when none is left.                                                      *)

BugNextOrder(b, from) == {n \in Legs : n > from /\ leg[b][n].order # 0
                                      /\ \A m \in (from + 1)..(n - 1) : leg[b][m].order = 0}

NextOrder(b, from) == {n \in Legs : n >= from /\ leg[b][n].order # 0
                                    /\ \A m \in from..(n - 1) : leg[b][m].order = 0}

BugMarkCancelled(c, b, n) ==  \* the row gets what the leg was before
  /\ leg' = [leg EXCEPT ![b][n].status = "cancelled"]
  /\ call' = [call EXCEPT ![c] =
       [Idle EXCEPT !.pc = "leg", !.basket = b, !.n = n, !.leg = leg[b][n]]]

MarkCancelled(c, b, n) ==
  /\ leg' = [leg EXCEPT ![b][n].status = "cancelled"]
  /\ call' = [call EXCEPT ![c] =
       [Idle EXCEPT !.pc = "leg", !.basket = b, !.n = n,
                    !.leg = [leg[b][n] EXCEPT !.status = "cancelled"]]]

(* cancel_trade asks the venue for the order its manager has under that    *)
(* number.  A live venue may refuse, or cancel without our seeing it; the  *)
(* result goes unused, and the leg is marked cancelled all the same.       *)
CancelTrade(b, n) ==
  LET v     == VenueOf[b][n]
      o     == leg[b][n].order
      known == o \in DOMAIN manager[v] /\ manager[v][o].ref # None
      ref   == manager[v][o].ref
      gone  == [venue EXCEPT ![ref[1]][ref[2]].open = FALSE]
  IN
  \/ /\ ~known
     /\ UNCHANGED <<manager, venue, faults>>
  \/ /\ known
     /\ manager' = [manager EXCEPT ![v][o].status = "cancelled"]
     /\ venue' = gone
     /\ UNCHANGED faults
  \/ /\ known /\ Kind[v] = "live"
     /\ Fault("refused")
     /\ venue' \in {venue, gone}
     /\ UNCHANGED manager

CancelFrom(c, b, from) ==
  \/ /\ \E n \in NextOrder(b, from) : CancelTrade(b, n) /\ MarkCancelled(c, b, n)
     /\ UNCHANGED <<status, row, up>>
  \/ /\ NextOrder(b, from) = {}
     /\ status' = [status EXCEPT ![b] = "cancelled"]
     /\ call' = [call EXCEPT ![c] =
          [Idle EXCEPT !.pc = "status", !.basket = b, !.text = "cancelled"]]
     /\ UNCHANGED <<leg, manager, row, up, venue, faults>>

CancelBasket(c, b) ==
  /\ up /\ call[c].pc = "idle" /\ status[b] # "absent"
  /\ past' = [past EXCEPT ![b] = IF InFlight(b) = {} THEN @ ELSE "overlapped"]
  /\ CancelFrom(c, b, 1)

CancelContinues(c) ==
  /\ call[c].pc = "walk"
  /\ CancelFrom(c, call[c].basket, call[c].n)
  /\ UNCHANGED past

-----------------------------------------------------------------------------
(* The writes.  Those to a basket without a row change nothing, and one    *)
(* that fails is logged by _persist and forgotten.                         *)

BugAfterWrite(p) ==  \* a leg whose write is done is tried again
  IF call[p].pc = "status" THEN Idle
  ELSE [Idle EXCEPT !.pc = "walk", !.basket = call[p].basket, !.n = IF call[p].n = 0 THEN 1 ELSE call[p].n]

AfterWrite(p) ==
  IF call[p].pc = "status" THEN Idle
  ELSE [Idle EXCEPT !.pc = "walk", !.basket = call[p].basket, !.n = call[p].n + 1]

BugWritten(b, p) ==  \* update_leg without the payload
  CASE call[p].pc = "save" -> [status |-> "submitting", legs |-> FreshLegs]
    [] call[p].pc = "leg"  -> [row[b] EXCEPT !.legs[call[p].n].status = call[p].leg.status]
    [] OTHER               -> [row[b] EXCEPT !.status = call[p].text]

Written(b, p) ==
  CASE call[p].pc = "save" -> [status |-> "submitting", legs |-> FreshLegs]
    [] call[p].pc = "leg"  -> [row[b] EXCEPT !.legs[call[p].n] = call[p].leg]
    [] OTHER               -> [row[b] EXCEPT !.status = call[p].text]

Commits(p) ==
  LET b == call[p].basket IN
  /\ call[p].pc \in {"save", "leg", "status"}
  /\ row' = IF row[b] = NoRow /\ call[p].pc # "save" THEN row
            ELSE [row EXCEPT ![b] = Written(b, p)]
  /\ call' = [call EXCEPT ![p] = AfterWrite(p)]
  /\ UNCHANGED <<memory, up, venue, past, faults>>

WriteFails(p) ==
  /\ call[p].pc \in {"save", "leg", "status"}
  /\ Fault("writes")
  /\ call' = [call EXCEPT ![p] = AfterWrite(p)]
  /\ UNCHANGED <<memory, row, up, venue, past>>

-----------------------------------------------------------------------------
(* Paper orders live in the memory of the process; live ones do not. *)
Crash ==
  /\ up /\ faults.crashes < MaxCrashes
  /\ up' = FALSE
  /\ status' = [b \in Baskets |-> "absent"]
  /\ leg' = [b \in Baskets |-> FreshLegs]
  /\ manager' = [v \in Venues |-> <<>>]
  /\ call' = [p \in Procs |-> Idle]
  /\ venue' = [b \in Baskets |-> [n \in Legs |->
       [venue[b][n] EXCEPT !.open = @ /\ Kind[VenueOf[b][n]] # "paper"]]]
  /\ faults' = [faults EXCEPT !.crashes = @ + 1]
  /\ UNCHANGED <<row, past>>

Restore ==
  /\ ~up
  /\ up' = TRUE
  /\ status' = [b \in Baskets |-> row[b].status]
  /\ leg' = [b \in Baskets |-> row[b].legs]
  /\ UNCHANGED <<manager, row, call, venue, past, faults>>

RestoreFails ==
  /\ ~up /\ Fault("reads")
  /\ up' = TRUE
  /\ UNCHANGED <<memory, row, call, venue, past>>

SubmitStep(b) ==
  \/ SubmitBasket(b)
  \/ RejectLeg(b)
  \/ UnavailableLeg(b)
  \/ PaperLeg(b)
  \/ LiveLegStarts(b)
  \/ LegAccepted(b)
  \/ LegRaises(b)
  \/ LegRecorded(b)
  \/ Finish(b)

Next ==
  \/ \E b \in Baskets : SubmitStep(b)
  \/ \E c \in Cancellers, b \in Baskets : CancelBasket(c, b)
  \/ \E c \in Cancellers : CancelContinues(c)
  \/ \E p \in Procs : Commits(p) \/ WriteFails(p)
  \/ Crash
  \/ Restore
  \/ RestoreFails

Spec == Init /\ [][Next]_vars

-----------------------------------------------------------------------------
(***************************************************************************)
(* Properties.                                                             *)
(***************************************************************************)
HasOrder(b, n) == venue[b][n].placed > 0
AtRest(b)      == InFlight(b) = {}
Unrecorded(b)  == {n \in Legs : HasOrder(b, n) /\ row[b].legs[n].order = 0}

(* No fake execution, whatever was interrupted: a leg that is reported as  *)
(* submitted or cancelled, in memory or in the table, has an order at its  *)
(* venue, and so has every leg of a basket reported as submitted.          *)
ReportedIsReal ==
  \A b \in Baskets :
    /\ \A n \in Legs :
         /\ leg[b][n].status \in {"submitted", "cancelled"} => HasOrder(b, n)
         /\ row[b].legs[n].status \in {"submitted", "cancelled"} => HasOrder(b, n)
    /\ "submitted" \in {status[b], row[b].status} => \A n \in LegsOf(b) : HasOrder(b, n)

(* Neither a lost write, nor a restart, nor a cancellation on the way      *)
(* makes a basket place a leg twice.                                       *)
LegPlacedOnce == \A b \in Baskets, n \in Legs : venue[b][n].placed <= 1

(* As long as writes succeed, the table knows the number of every order    *)
(* but at most one of each basket, the one that was under way when the     *)
(* process or the executor failed; and then the basket still says          *)
(* submitting, unless somebody cancels it.                                 *)
OrdersAreRecorded ==
  faults.writes = 0 =>
    \A b \in Baskets :
      /\ Cardinality(Unrecorded(b)) <= 1
      /\ Unrecorded(b) # {} => row[b].status \in {"submitting", "cancelled"}

(* Until a restart, the number a leg holds names its own order, however    *)
(* the threads that place orders of other baskets interleave.              *)
OrderIdsAreOwn ==
  up /\ faults.crashes = 0 =>
    \A b \in Baskets, n \in Legs :
      leg[b][n].order # 0 => manager[VenueOf[b][n]][leg[b][n].order].ref = <<b, n>>

(* A restart brings a basket back as it was: whenever no call works on it, *)
(* its row says what the memory says, provided that no write failed and    *)
(* that no two calls have overlapped on it.                                *)
RowsAgree ==
  up /\ faults.writes = 0 /\ faults.reads = 0 =>
    \A b \in Baskets :
      AtRest(b) /\ past[b] = "alone" => row[b] = [status |-> status[b], legs |-> leg[b]]

(* The same without that provision, as apps/api/main.py:606-607 and the    *)
(* docstring of restore_state have it.                                     *)
RestartKeepsBaskets ==
  up /\ faults.writes = 0 /\ faults.reads = 0 =>
    \A b \in Baskets :
      AtRest(b) /\ row[b] # NoRow => row[b] = [status |-> status[b], legs |-> leg[b]]

(* When a cancelled basket comes to rest, no order of it is open: unless a *)
(* venue refused, an executor raised, a crash lost the order's number, or  *)
(* the cancellation overlapped the submission.                             *)
CancelledIsClosed ==
  up /\ faults.crashes = 0 /\ faults.refused = 0 /\ faults.raised = 0 =>
    \A b \in Baskets :
      AtRest(b) /\ past[b] = "alone" /\ status[b] = "cancelled" =>
        \A n \in Legs : ~venue[b][n].open

(* While the process runs the outcome of a leg is final, but that an       *)
(* order may be cancelled; no submission under way revives it.             *)
OutcomeIsFinal ==
  [][up /\ up' => \A b \in Baskets, n \in Legs :
       \/ leg[b][n].status = "pending"
       \/ leg'[b][n].order = leg[b][n].order
          /\ leg'[b][n].status \in {leg[b][n].status, "cancelled"}]_vars
=============================================================================
