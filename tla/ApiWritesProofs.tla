--------------------------- MODULE ApiWritesProofs ---------------------------
(***************************************************************************)
(* Proofs about ApiWrites: the journal keeps its accounts however its      *)
(* requests interleave, and what holds of the cache and of the strategies  *)
(* (StrategyManagerProofs) holds beside the journal.                       *)
(***************************************************************************)
EXTENDS ApiWrites, StrategyManagerProofs

(* A closed row shows the return of its own fills; one that was never      *)
(* filled has none.                                                        *)
Sound(r) ==
  /\ r.in = None => r.result = <<>>
  /\ r.status = "closed" /\ r.in \notin {0, None} => r.result = Result(r)

(* What a handler is about to write is a row of its own, with at most the  *)
(* fees there were when it read and its own; nobody else edits an entry    *)
(* that is not raced.                                                      *)
Pending(h) ==
  LET e == edit[h].of
  IN  edit[h].pc = "update" =>
        /\ e \in Positions /\ edit[h].kind \in {"fill", "close", "abandon"}
        /\ edit[h].row \in Columns /\ Sound(edit[h].row) /\ edit[h].row.status # "absent"
        /\ edit[h].row.fees <= charged[e] + Cost(edit[h].kind)
        /\ e \notin raced =>
             /\ edit[h].row.fees = charged[e] + Cost(edit[h].kind)
             /\ \A g \in Editors : edit[g].pc = "update" /\ edit[g].of = e => g = h

JournalInv ==
  /\ JournalTypeOK
  /\ \A e \in Positions :
       Sound(entry[e]) /\ (entry[e].status = "absent" => charged[e] = 0)
  /\ FeesAccount
  /\ \A h \in Editors : Pending(h)

LEMMA PlannedColumns == NoEntry \in Columns /\ Planned \in Columns /\ Sound(NoEntry) /\ Sound(Planned) /\ Planned.fees = 0
<1>1. <<>> \in Seq(Int) /\ 0 \in Nat /\ None \in Prices \cup {None}
  OBVIOUS
<1>2. NoEntry \in Columns
  BY <1>1 DEF NoEntry, Columns
<1>3. Planned \in Columns
  BY <1>2 DEF Planned, Columns
<1>4. NoEntry.result = <<>> /\ NoEntry.in = None /\ NoEntry.fees = 0
  BY DEF NoEntry
<1>5. Planned.result = <<>> /\ Planned.in = None /\ Planned.fees = 0
  BY <1>4, <1>2 DEF Planned, Columns
<1> QED
  BY <1>2, <1>3, <1>4, <1>5 DEF Sound

LEMMA NoEditIsRequest ==
  /\ NoEdit \in Request /\ [NoEdit EXCEPT !.pc = "respond"] \in Request
  /\ NoEdit.pc # "update" /\ [NoEdit EXCEPT !.pc = "respond"].pc # "update"
  BY PlannedColumns DEF NoEdit, Request

LEMMA JournalInvInit == JournalInit => JournalInv
<1> SUFFICES ASSUME JournalInit PROVE JournalInv
  OBVIOUS
<1>1. \A e \in Positions : entry[e] \in Columns /\ Sound(entry[e]) /\ entry[e].fees = 0
  BY PlannedColumns DEF JournalInit, NoEntry, Planned
<1>2. JournalTypeOK
  BY <1>1, NoEditIsRequest DEF JournalInit, JournalTypeOK
<1>3. \A h \in Editors : edit[h].pc # "update"
  BY NoEditIsRequest DEF JournalInit
<1> QED
  BY <1>1, <1>2, <1>3 DEF JournalInv, FeesAccount, Pending, JournalInit

(* What the handlers make of a row. *)
LEMMA EditedRow ==
  ASSUME NEW r \in Columns, Sound(r), NEW kind \in {"fill", "close", "abandon"},
         NEW x \in Edits(kind, r)
  PROVE  x \in Columns /\ Sound(x) /\ x.fees = r.fees + Cost(kind) /\ x.status # "absent"
<1> USE JournalAssumption
<1>1. CASE kind = "fill"
  <2>1. PICK p \in Prices : x = Filled(r, p)
    BY <1>1 DEF Edits
  <2>2. x \in Columns /\ x.status = "open" /\ x.in = p /\ x.fees = r.fees + 1
    <3>1. r.fees + 1 \in Nat /\ p \in Prices \cup {None}
      BY DEF Columns
    <3>2. x = [r EXCEPT !.status = "open", !.in = p, !.fees = r.fees + 1]
      BY <2>1 DEF Filled, Columns
    <3> QED
      BY <3>1, <3>2, Zenon DEF Columns
  <2>3. p # None
    BY DEF None
  <2> QED
    BY <1>1, <2>2, <2>3 DEF Sound, Cost
<1>2. CASE kind = "close"
  <2>1. PICK p \in Prices : x = Closed(r, p)
    BY <1>2 DEF Edits
  <2> DEFINE c == [r EXCEPT !.status = "closed", !.out = p, !.fees = @ + 1]
  <2>2. /\ c \in Columns /\ c.in = r.in /\ c.result = r.result /\ c.fees = r.fees + 1
        /\ c.status = "closed"
    <3>1. r.fees + 1 \in Nat /\ p \in Prices \cup {None}
      BY DEF Columns
    <3> QED
      BY <3>1, Zenon DEF Columns
  <2>3. CASE c.in > 0
    <3>1. x = [c EXCEPT !.result = Result(c)]
      BY <2>1, <2>3 DEF Closed
    <3>2. Result(c) \in Seq(Int)
      BY <2>2 DEF Result, Columns, None
    <3> HIDE DEF c
    <3>3. /\ x \in Columns /\ x.in = c.in /\ x.fees = c.fees /\ x.result = Result(x)
          /\ x.status = "closed"
      BY <2>2, <3>1, <3>2 DEF Columns, Result
    <3> QED
      BY <1>2, <2>2, <2>3, <3>3 DEF Sound, None, Cost, Columns
  <2>4. CASE ~(c.in > 0)
    <3>1. x = c
      BY <2>1, <2>4 DEF Closed
    <3> QED
      BY <1>2, <2>2, <2>4, <3>1 DEF Sound, None, Cost, Columns
  <2> QED
    BY <2>3, <2>4
<1>3. CASE kind = "abandon"
  BY <1>3 DEF Edits, Columns, Sound, None, Cost
<1> QED
  BY <1>1, <1>2, <1>3

LEMMA CostIsNat == \A kind : Cost(kind) \in Nat
  BY DEF Cost

LEMMA ReadsPreserves ==
  ASSUME JournalInv, NEW h \in Editors, NEW e \in Positions,
         NEW kind \in {"fill", "close", "abandon"}, Reads(h, e, kind)
  PROVE  JournalInv'
<1> USE DEF JournalInv
<1>1. PICK r \in Edits(kind, entry[e]) :
        edit' = [edit EXCEPT ![h] = [pc |-> "update", kind |-> kind, of |-> e, row |-> r]]
  BY DEF Reads
<1>2. entry[e] \in Columns /\ charged[e] \in Nat /\ entry[e].fees \in Nat
  BY DEF JournalTypeOK, Columns
<1>3. r \in Columns /\ Sound(r) /\ r.fees = entry[e].fees + Cost(kind) /\ r.status # "absent"
  BY <1>2, EditedRow
<1>4. JournalTypeOK'
  BY <1>1, <1>3 DEF JournalTypeOK, Reads, Request
<1>5. raced \subseteq raced' /\ entry' = entry /\ charged' = charged
  BY DEF Reads
<1>6. /\ edit'[h] = [pc |-> "update", kind |-> kind, of |-> e, row |-> r]
      /\ \A g \in Editors \ {h} : edit'[g] = edit[g]
  BY <1>1 DEF JournalTypeOK
<1>7. e \notin raced' => \A g \in Editors : ~(edit[g].pc = "update" /\ edit[g].of = e)
  BY DEF Reads, Editing
<1>8. FeesAccount'
  BY <1>5 DEF FeesAccount
<1>9. Pending(h)'
  <2>1. r.fees <= charged[e] + Cost(kind)
    BY <1>2, <1>3, CostIsNat DEF FeesAccount
  <2>2. e \notin raced' => r.fees = charged[e] + Cost(kind)
    BY <1>3, <1>5 DEF FeesAccount
  <2> QED
    BY <1>3, <1>5, <1>6, <1>7, <2>1, <2>2 DEF Pending
<1>10. ASSUME NEW g \in Editors \ {h} PROVE Pending(g)'
  BY <1>5, <1>6, <1>7 DEF Pending
<1> QED
  BY <1>4, <1>5, <1>8, <1>9, <1>10

LEMMA UpdatesPreserves ==
  ASSUME JournalInv, NEW h \in Editors, Updates(h)
  PROVE  JournalInv'
<1> USE DEF JournalInv
<1> DEFINE e == edit[h].of
           row == edit[h].row
           cost == Cost(edit[h].kind)
<1>1. /\ e \in Positions /\ row \in Columns /\ Sound(row) /\ row.status # "absent"
      /\ row.fees <= charged[e] + cost
      /\ e \notin raced => row.fees = charged[e] + cost
      /\ e \notin raced => \A g \in Editors : edit[g].pc = "update" /\ edit[g].of = e => g = h
  BY DEF Pending, Updates, Writing
<1>2. /\ entry' = [entry EXCEPT ![e] = row] /\ charged' = [charged EXCEPT ![e] = @ + cost]
      /\ edit' = [edit EXCEPT ![h] = [NoEdit EXCEPT !.pc = "respond"]] /\ raced' = raced
  BY DEF Updates, Writing
<1>3. cost \in Nat /\ charged[e] \in Nat /\ row.fees \in Nat
  BY <1>1, CostIsNat DEF JournalTypeOK, Columns
<1> HIDE DEF e, row, cost
<1>4. JournalTypeOK'
  BY <1>1, <1>2, <1>3, NoEditIsRequest DEF JournalTypeOK
<1>5. \A d \in Positions :
        Sound(entry'[d]) /\ (entry'[d].status = "absent" => charged'[d] = 0)
  BY <1>1, <1>2 DEF JournalTypeOK
<1>6. FeesAccount'
  BY <1>1, <1>2, <1>3 DEF FeesAccount, JournalTypeOK
<1>7. ASSUME NEW g \in Editors PROVE Pending(g)'
  <2>1. CASE g = h
    BY <1>2, <2>1, NoEditIsRequest DEF Pending, JournalTypeOK
  <2>2. CASE g # h /\ edit[g].pc = "update"
    <3> DEFINE d == edit[g].of
    <3>1. edit'[g] = edit[g] /\ d \in Positions /\ charged[d] \in Nat /\ edit[g].row.fees \in Nat
      BY <1>2, <2>2 DEF JournalTypeOK, Pending, Columns
    <3>2. d = e => d \in raced
      BY <1>1, <2>2
    <3>3. /\ charged'[d] \in Nat /\ charged'[d] >= charged[d]
          /\ d \notin raced => charged'[d] = charged[d]
      BY <1>2, <1>3, <3>1, <3>2 DEF JournalTypeOK
    <3>4. \A f \in Editors : edit'[f].pc = "update" => f # h /\ edit'[f] = edit[f]
      BY <1>2, NoEditIsRequest DEF JournalTypeOK
    <3>5. edit[g].row.fees <= charged'[d] + Cost(edit[g].kind)
      BY <2>2, <3>1, <3>3, CostIsNat DEF Pending
    <3> QED
      BY <1>2, <2>2, <3>1, <3>3, <3>4, <3>5 DEF Pending
  <2>3. CASE g # h /\ edit[g].pc # "update"
    BY <1>2, <2>3 DEF Pending, JournalTypeOK
  <2> QED
    BY <2>1, <2>2, <2>3
<1> QED
  BY <1>4, <1>5, <1>6, <1>7

(* A request that fails, ends, or opens an entry edits nothing. *)
LEMMA RestPreserves ==
  ASSUME JournalInv, NEW h \in Editors,
         UpdateFails(h) \/ Responds(h) \/ \E e \in Positions : Opens(h, e)
  PROVE  JournalInv'
<1> USE DEF JournalInv
<1>1. PICK q \in {NoEdit, [NoEdit EXCEPT !.pc = "respond"]} : edit' = [edit EXCEPT ![h] = q]
  BY DEF UpdateFails, Responds, Opens
<1>2. charged' = charged /\ raced' = raced
  BY DEF UpdateFails, Responds, Opens
<1>3. /\ q \in Request /\ \A g \in Editors : edit'[g].pc = "update" => g # h /\ edit'[g] = edit[g]
  BY <1>1, NoEditIsRequest DEF JournalTypeOK
<1>4. \A g \in Editors : Pending(g)'
  BY <1>2, <1>3 DEF Pending
<1>5. /\ entry' \in [Positions -> Columns]
      /\ \A e \in Positions :
           /\ Sound(entry'[e]) /\ (entry'[e].status = "absent" => charged[e] = 0)
           /\ entry'[e].fees <= charged[e] /\ (e \notin raced => entry'[e].fees = charged[e])
  <2>1. CASE entry' = entry
    BY <2>1 DEF JournalTypeOK, FeesAccount
  <2>2. CASE \E e \in Positions : Opens(h, e)
    <3>1. PICK e \in Positions : Opens(h, e)
      BY <2>2
    <3>2. entry[e].status = "absent" /\ entry' = [entry EXCEPT ![e] = Planned]
      BY <3>1 DEF Opens
    <3> QED
      BY <3>2, PlannedColumns DEF JournalTypeOK, FeesAccount
  <2> QED
    BY <2>1, <2>2 DEF UpdateFails, Responds
<1> QED
  BY <1>1, <1>2, <1>3, <1>4, <1>5 DEF JournalTypeOK, FeesAccount

-----------------------------------------------------------------------------
(* The whole API: journal requests change the cache only by emptying it. *)
ApiInv == IInv /\ JournalInv

LEMMA ApiWriteKeepsManager ==
  ASSUME IInv, UNCHANGED managerVars, writes' \in Nat,
         Clears \/ UNCHANGED cacheVars
  PROVE  IInv'
<1>1. CacheInv'
  BY CacheInvClear, CacheInvStutter DEF IInv
<1>2. ManagerInv'
  BY DEF IInv, ManagerInv, ManagerTyped, Numbered, ScannersRest, OnlyScannersLeak, managerVars
<1> QED
  BY <1>1, <1>2 DEF IInv

LEMMA BeginsPreserves ==
  ASSUME JournalInv, NEW h \in Editors, Begins(h)
  PROVE  JournalInv'
  BY ReadsPreserves, RestPreserves DEF Begins

LEMMA StepApiInv == ApiInv /\ [ApiNext]_apiVars => ApiInv'
<1> SUFFICES ASSUME ApiInv, [ApiNext]_apiVars PROVE ApiInv'
  OBVIOUS
<1> USE DEF ApiInv
<1>0. ASSUME UNCHANGED journalVars PROVE JournalInv'
  BY <1>0 DEF JournalInv, JournalTypeOK, FeesAccount, Pending, journalVars
<1>1. CASE Next /\ UNCHANGED journalVars
  BY <1>0, <1>1, StepIInv
<1>2. ASSUME NEW h \in Editors, Begins(h), Operates, UNCHANGED <<cacheVars, managerVars>>
      PROVE  ApiInv'
  BY <1>2, BeginsPreserves, ApiWriteKeepsManager DEF Operates, IInv, ManagerInv, ManagerTyped
<1>3. ASSUME NEW h \in Editors, Updates(h) \/ UpdateFails(h), UNCHANGED vars
      PROVE  ApiInv'
  BY <1>3, UpdatesPreserves, RestPreserves, StepIInv
<1>4. ASSUME NEW h \in Editors, JournalAnswers(h) PROVE ApiInv'
  BY <1>4, RestPreserves, ApiWriteKeepsManager
     DEF JournalAnswers, IInv, ManagerInv, ManagerTyped
<1>5. CASE UNCHANGED apiVars
  BY <1>0, <1>5, StepIInv DEF apiVars
<1> QED
  BY <1>1, <1>2, <1>3, <1>4, <1>5 DEF ApiNext

LEMMA ApiInvariance == ApiSpec => []ApiInv
<1>1. ApiInit => ApiInv
  BY CacheInvInit, ManagerInit, JournalInvInit DEF ApiInit, ApiInv, IInv
<1> QED
  BY <1>1, StepApiInv, PTL DEF ApiSpec

(* cached_api_response and StrategyManagerService beside the journal: an   *)
(* answer shows every write that was over when its request came (unless    *)
(* its key was being loaded at a write), a key has one loader (unless its  *)
(* lock was forgotten in use), and only scanners run unheld.               *)
THEOREM ApiSafety == ApiSpec => [](AnswerIsRecent /\ OneLoader /\ OnlyScannersLeak)
<1>1. ApiInv => AnswerIsRecent /\ OneLoader /\ OnlyScannersLeak
  BY LockGivesOneLoader DEF ApiInv, IInv, CacheInv, Recent, ManagerInv
<1> QED
  BY <1>1, ApiInvariance, PTL

(* TradeJournal: the types of the journal's rows and requests. *)
THEOREM JournalTypes == ApiSpec => []JournalTypeOK
<1>1. ApiInv => JournalTypeOK
  BY DEF ApiInv, JournalInv
<1> QED
  BY <1>1, ApiInvariance, PTL

(* TradeJournal.close_entry: the result of a closed position was computed  *)
(* from the fills and fees its row shows.                                  *)
THEOREM ResultsAreOwn == ApiSpec => []ResultIsOwn
<1>1. ApiInv => ResultIsOwn
  BY DEF ApiInv, JournalInv, JournalTypeOK, Columns, Sound, ResultIsOwn
<1> QED
  BY <1>1, ApiInvariance, PTL

(* TradeJournal._update: no fee is counted twice, and none is lost unless  *)
(* two requests edited the position at once.                               *)
THEOREM FeesAreAccounted == ApiSpec => []FeesAccount
<1>1. ApiInv => FeesAccount
  BY DEF ApiInv, JournalInv
<1> QED
  BY <1>1, ApiInvariance, PTL
=============================================================================
