---------------------------- MODULE TradeJournal -----------------------------
(***************************************************************************)
(* TradeJournal (libs/db/trade_journal.py) behind apps/api/journal_api.py: *)
(* the ledger of the positions that were planned, filled, closed or        *)
(* abandoned.  A handler edits an entry in a thread: it reads the row in   *)
(* one transaction, changes it in memory and writes all of it back in      *)
(* another.  Nothing keeps two handlers apart, and no status is refused.   *)
(*                                                                         *)
(* A price stands for a fill with its quantity, and every fill and every   *)
(* close costs one fee.  The prices an operator may report include 0,      *)
(* which stands for all that are not positive.                             *)
(***************************************************************************)
EXTENDS Integers, Sequences

CONSTANTS
  Positions,  \* the entries of the journal
  Editors,    \* request handlers that are reused, one request after another
  Prices

ASSUME JournalAssumption == Prices \subseteq Nat

VARIABLES
  entry,    \* the rows of journal_entries
  edit,     \* the requests
  \* what has happened
  charged,  \* the fees that were written for each entry
  raced     \* entries that two handlers have edited at once

journalVars == <<entry, edit, charged, raced>>

-----------------------------------------------------------------------------
None    == -1
Columns == [status : {"absent", "planned", "open", "closed", "abandoned"},
            in : Prices \cup {None}, out : Prices \cup {None}, fees : Nat,
            result : Seq(Int)]
NoEntry == [status |-> "absent", in |-> None, out |-> None, fees |-> 0, result |-> <<>>]
Planned == [NoEntry EXCEPT !.status = "planned"]
Request == [pc : {"idle", "update", "respond"}, kind : {"none", "fill", "close", "abandon"},
            of : Positions \cup {"none"}, row : Columns]
NoEdit  == [pc |-> "idle", kind |-> "none", of |-> "none", row |-> NoEntry]

JournalTypeOK ==
  /\ entry \in [Positions -> Columns]
  /\ edit \in [Editors -> Request]
  /\ charged \in [Positions -> Nat]
  /\ raced \subseteq Positions

JournalInit ==
  /\ entry \in [Positions -> {NoEntry, Planned}]
  /\ edit = [h \in Editors |-> NoEdit]
  /\ charged = [e \in Positions |-> 0] /\ raced = {}

-----------------------------------------------------------------------------
(* What the requests make of a row. *)

Filled(r, p) == [r EXCEPT !.status = "open", !.in = p, !.fees = @ + 1]

(* The return of a position, as far as it can be told from a row. *)
Result(r) == <<r.in, r.out, r.fees>>
Closed(r, p) ==
  LET c == [r EXCEPT !.status = "closed", !.out = p, !.fees = @ + 1]
  IN  IF c.in > 0 THEN [c EXCEPT !.result = Result(c)] ELSE c

Edits(kind, r) ==
  CASE kind = "fill"    -> {Filled(r, p) : p \in Prices}
    [] kind = "close"   -> {Closed(r, p) : p \in Prices}
    [] kind = "abandon" -> {[r EXCEPT !.status = "abandoned"]}
Cost(kind) == IF kind = "abandon" THEN 0 ELSE 1

-----------------------------------------------------------------------------
Editing(e) == {h \in Editors : edit[h].pc = "update" /\ edit[h].of = e}

(* open_entry makes up the id: nobody knows it before the row is there. *)
Opens(h, e) ==
  /\ edit[h].pc = "idle" /\ entry[e].status = "absent"
  /\ entry' = [entry EXCEPT ![e] = Planned]
  /\ edit' = [edit EXCEPT ![h] = [NoEdit EXCEPT !.pc = "respond"]]
  /\ UNCHANGED <<charged, raced>>

(* The first transaction of record_fill, close_entry and abandon. *)
Reads(h, e, kind) ==
  /\ edit[h].pc = "idle" /\ entry[e].status # "absent"
  /\ \E r \in Edits(kind, entry[e]) :
       edit' = [edit EXCEPT ![h] = [pc |-> "update", kind |-> kind, of |-> e, row |-> r]]
  /\ raced' = IF Editing(e) = {} THEN raced ELSE raced \cup {e}
  /\ UNCHANGED <<entry, charged>>

(* The second one. *)
Writing(h) ==
  /\ edit[h].pc = "update"
  /\ charged' = [charged EXCEPT ![edit[h].of] = @ + Cost(edit[h].kind)]
  /\ edit' = [edit EXCEPT ![h] = [NoEdit EXCEPT !.pc = "respond"]]
  /\ UNCHANGED raced

BugUpdateColumns(h) ==  \* a close leaves the columns of the fill alone
  /\ Writing(h)
  /\ entry' = [entry EXCEPT ![edit[h].of] =
                 IF edit[h].kind = "close" THEN [edit[h].row EXCEPT !.in = entry[edit[h].of].in]
                 ELSE edit[h].row]

BugUpdateAdds(h) ==  \* adds its fees to those of the row
  /\ Writing(h)
  /\ entry' = [entry EXCEPT ![edit[h].of] = [edit[h].row EXCEPT !.fees = @ + entry[edit[h].of].fees]]

Updates(h) ==
  /\ Writing(h)
  /\ entry' = [entry EXCEPT ![edit[h].of] = edit[h].row]

(* The database refuses: the request fails and nothing is written. *)
UpdateFails(h) ==
  /\ edit[h].pc = "update"
  /\ edit' = [edit EXCEPT ![h] = NoEdit]
  /\ UNCHANGED <<entry, charged, raced>>

Responds(h) ==
  /\ edit[h].pc = "respond"
  /\ edit' = [edit EXCEPT ![h] = NoEdit]
  /\ UNCHANGED <<entry, charged, raced>>

Begins(h) ==
  \E e \in Positions :
    Opens(h, e) \/ \E kind \in {"fill", "close", "abandon"} : Reads(h, e, kind)

JournalNext ==
  \E h \in Editors : Begins(h) \/ Updates(h) \/ UpdateFails(h) \/ Responds(h)

-----------------------------------------------------------------------------
(* What performance() counts of a closed position was computed from the    *)
(* very fills and fees its row shows, however the handlers interleave; a   *)
(* position that was never filled has no return.  Only a fill reported at  *)
(* no price leaves the result of an earlier close behind (close_entry).    *)
ResultIsOwn ==
  \A e \in Positions :
    entry[e].status = "closed" /\ entry[e].in # 0 =>
      entry[e].result = IF entry[e].in = None THEN <<>> ELSE Result(entry[e])

(* A row never shows a fee twice, and it shows every fee that was written, *)
(* unless two handlers edited it at once: then one undoes the other        *)
(* (record_fill, close_entry, _update).                                    *)
FeesAccount ==
  \A e \in Positions :
    entry[e].fees <= charged[e] /\ (e \notin raced => entry[e].fees = charged[e])
=============================================================================
