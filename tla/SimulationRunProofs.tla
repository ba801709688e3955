------------------------- MODULE SimulationRunProofs -------------------------
(***************************************************************************)
(* Proofs about SimulationRun, for any instruments, admins, cooldown and   *)
(* bounds: the types, the positions account for the trades, a stopped run  *)
(* stays stopped, an outcome is learned once; nothing is traded after a    *)
(* pause, the balance is paid, a valuation is at most one trade apart, and *)
(* the cooldown is kept.                                                   *)
(***************************************************************************)
EXTENDS SimulationRun, FiniteSetTheorems, WellFoundedInduction, TLAPS

Pcs == {"idle", "save", "activate", "lookup", "write", "reread", "install", "pop",
        "learn", "mark", "held", "point", "leg", "sizing", "trade", "position", "cash"}
Kinds == {"none", "create", "running", "paused", "stopped", "feedback", "trade"}

(* What a waiting call can rely on. *)
CallFits(p) ==
  /\ call[p].obj <= Len(obj)
  /\ call[p].pc \notin {"idle", "save", "lookup"} => row.status # "absent"
  /\ call[p].pc \in {"lookup", "write"} => call[p].kind \in Statuses
  /\ call[p].pc = "held" => call[p].obj # 0
  /\ call[p].pc = "install" => call[p].row.status # "absent"

(* What the feed can rely on: its object, and the trade it settles. *)
FeedFits ==
  LET f == call[Feed] IN
  /\ f.pc # "idle" => f.obj # 0 /\ f.legs # <<>>
  /\ f.pc \in {"sizing", "trade"} => Len(trades) < MaxTrades
  /\ f.pc \in {"position", "cash"} =>
       /\ f.id = Len(trades) /\ f.id \in DOMAIN trades
       /\ trades[f.id].inst = Head(f.legs)
  /\ f.pc = "cash" => f.id \in pos[Head(f.legs)]

RowFits ==
  /\ active # 0 => row.status # "absent"
  /\ Len(trades) <= MaxTrades

TypeInv == TypeOK /\ RowFits /\ FeedFits /\ \A p \in Procs : CallFits(p)

LEMMA ConstantsTyped ==
  /\ MaxTime \in Nat /\ MaxTrades \in Nat /\ MaxCalls \in Nat /\ MaxMishaps \in Nat
  /\ Cooldown \in Nat /\ MinClosed \in Nat /\ MinClosed >= 1 /\ MaxLegs \in Nat
  /\ Feed \in Procs /\ Poll \in Procs /\ Admins \subseteq Procs /\ Feed \notin Admins
  /\ Feed # Poll /\ Poll \notin Admins
  /\ NoRow \in RowType
<1>1. NoRow \in RowType
  BY SimBoundsAssumption DEF NoRow, RowType
<1> QED
  BY <1>1, SimBoundsAssumption, SettingsAssumption, ProcsAssumption DEF Procs

(* A call in its fields. *)
LEMMA CallFields ==
  ASSUME NEW c \in CallType
  PROVE  /\ c.pc \in Pcs /\ c.kind \in Kinds /\ c.obj \in Nat /\ c.row \in RowType
         /\ c.legs \in Seq(Instruments) /\ c.at \in 0..MaxTime /\ c.late \in BOOLEAN
         /\ c.closed \in BOOLEAN /\ c.held \subseteq Ids /\ c.paid \subseteq Ids
         /\ c.id \in 0..MaxTrades
  BY DEF CallType, Pcs, Kinds

LEMMA IdleTyped ==
  /\ Idle \in CallType /\ Idle.pc = "idle" /\ Idle.kind = "none" /\ Idle.obj = 0
  BY ConstantsTyped DEF Idle, CallType

(* The calls that begin. *)
LEMMA Begun ==
  /\ \A pc \in Pcs, kind \in Kinds, n \in Nat :
       [Idle EXCEPT !.pc = pc, !.kind = kind, !.obj = n] \in CallType
  /\ \A pc \in Pcs, n \in Nat : [Idle EXCEPT !.pc = pc, !.obj = n] \in CallType
  /\ \A pc \in Pcs, n \in Nat, legs \in Seq(Instruments) :
       [Idle EXCEPT !.pc = pc, !.obj = n, !.legs = legs] \in CallType
<1>1. Idle \in CallType
  BY IdleTyped
<1>2. ASSUME NEW pc \in Pcs, NEW n \in Nat
      PROVE  [Idle EXCEPT !.pc = pc, !.obj = n] \in CallType
  BY <1>1, <1>2, Zenon DEF CallType, Pcs
<1>3. ASSUME NEW pc \in Pcs, NEW kind \in Kinds, NEW n \in Nat
      PROVE  [Idle EXCEPT !.pc = pc, !.kind = kind, !.obj = n] \in CallType
  BY <1>1, <1>3, Zenon DEF CallType, Pcs, Kinds
<1>4. ASSUME NEW pc \in Pcs, NEW n \in Nat, NEW legs \in Seq(Instruments)
      PROVE  [Idle EXCEPT !.pc = pc, !.obj = n, !.legs = legs] \in CallType
  BY <1>1, <1>4, Zenon DEF CallType, Pcs
<1> QED
  BY <1>2, <1>3, <1>4

LEMMA Names ==
  /\ "save" \in Pcs /\ "lookup" \in Pcs /\ "write" \in Pcs /\ "learn" \in Pcs
  /\ "held" \in Pcs /\ "leg" \in Pcs
  /\ "create" \in Kinds /\ "feedback" \in Kinds /\ Statuses \subseteq Kinds
  /\ 1 \in Nat
  BY DEF Pcs, Kinds, Statuses

LEMMA Moved ==
  ASSUME call \in [Procs -> CallType], NEW p \in Procs, NEW c \in CallType,
         call' = [call EXCEPT ![p] = c]
  PROVE  /\ call' \in [Procs -> CallType] /\ call'[p] = c
         /\ \A q \in Procs \ {p} : call'[q] = call[q]
  OBVIOUS

LEMMA Went ==
  ASSUME call \in [Procs -> CallType], NEW p \in Procs, NEW pc \in Pcs, Goto(p, pc)
  PROVE  /\ call' \in [Procs -> CallType] /\ call'[p] = [call[p] EXCEPT !.pc = pc]
         /\ call'[p].pc = pc /\ call'[p].kind = call[p].kind /\ call'[p].obj = call[p].obj
         /\ call'[p].row = call[p].row /\ call'[p].legs = call[p].legs
         /\ call'[p].id = call[p].id
         /\ \A q \in Procs \ {p} : call'[q] = call[q]
<1> DEFINE c == [call[p] EXCEPT !.pc = pc]
<1>0. call[p] \in CallType
  OBVIOUS
<1>1. c \in CallType
  BY <1>0, Zenon DEF CallType, Pcs
<1>2. /\ c.pc = pc /\ c.kind = call[p].kind /\ c.obj = call[p].obj
      /\ c.row = call[p].row /\ c.legs = call[p].legs /\ c.id = call[p].id
  BY <1>0, Zenon DEF CallType
<1>3. call' = [call EXCEPT ![p] = c]
  BY DEF Goto
<1> HIDE DEF c
<1>4. /\ call' \in [Procs -> CallType] /\ call'[p] = c
      /\ \A q \in Procs \ {p} : call'[q] = call[q]
  BY <1>1, <1>3, Moved
<1> QED
  BY <1>2, <1>4 DEF c

-----------------------------------------------------------------------------
(* The types of the variables in groups that a step changes together. *)
DbOK ==
  /\ row \in RowType
  /\ trades \in Seq(TradeType)
  /\ pos \in [Instruments -> SUBSET Ids]
MemoryOK == obj \in Seq(ActiveType) /\ active \in 0..Len(obj)
WorldOK ==
  /\ up \in BOOLEAN /\ quiet \in BOOLEAN
  /\ clock \in 0..MaxTime
  /\ torn \subseteq Ids
  /\ fed \in [Ids -> Nat]
  /\ upset \subseteq Upsets
  /\ count \in [calls : Nat, mishaps : Nat]

LEMMA TypeGroups == TypeOK <=> DbOK /\ MemoryOK /\ WorldOK /\ call \in [Procs -> CallType]
  BY DEF TypeOK, DbOK, MemoryOK, WorldOK

LEMMA DbStays == ASSUME DbOK, UNCHANGED db PROVE DbOK'
  BY DEF DbOK, db
LEMMA MemoryStays == ASSUME MemoryOK, UNCHANGED memory PROVE MemoryOK'
  BY DEF MemoryOK, memory

(* What a step of p leaves of the other calls and of the feed. *)
LEMMA OthersFit ==
  ASSUME TypeInv, MemoryOK', Len(obj) <= Len(obj'), NEW p \in Procs, CallFits(p)',
         row.status # "absent" => row'.status # "absent",
         \A q \in Procs \ {p} : call'[q] = call[q]
  PROVE  \A q \in Procs : CallFits(q)'
<1> SUFFICES ASSUME NEW q \in Procs \ {p} PROVE CallFits(q)'
  OBVIOUS
<1>1. call[q].obj \in Nat /\ Len(obj) \in Nat /\ Len(obj') \in Nat
  BY CallFields DEF TypeInv, TypeOK, MemoryOK
<1>2. CallFits(q) /\ call'[q] = call[q]
  BY DEF TypeInv
<1> QED
  BY <1>1, <1>2 DEF CallFits

LEMMA FeedStays ==
  ASSUME TypeInv, call'[Feed] = call[Feed], UNCHANGED <<trades, pos>>
  PROVE  FeedFits'
  BY DEF TypeInv, FeedFits

(* A step of a call that changes only the world. *)
LEMMA CallStep ==
  ASSUME TypeInv, NEW p \in Procs, UNCHANGED db, UNCHANGED memory, WorldOK',
         call' \in [Procs -> CallType], CallFits(p)', p # Feed \/ FeedFits',
         \A q \in Procs \ {p} : call'[q] = call[q]
  PROVE  TypeInv'
<1>1. DbOK' /\ MemoryOK'
  BY TypeGroups, DbStays, MemoryStays DEF TypeInv
<1>2. TypeOK'
  BY <1>1 DEF TypeOK, DbOK, MemoryOK, WorldOK
<1>3. RowFits'
  BY DEF TypeInv, RowFits, db, memory
<1>4. FeedFits'
  BY FeedStays, ConstantsTyped DEF db
<1>5. obj' = obj /\ row' = row
  BY DEF db, memory
<1>6. Len(obj) <= Len(obj')
  BY <1>5 DEF TypeInv, TypeOK
<1> QED
  BY <1>1, <1>2, <1>3, <1>4, <1>5, <1>6, OthersFit DEF TypeInv

LEMMA WorldStays ==
  ASSUME TypeOK, UNCHANGED <<up, clock, world, count>>
  PROVE  WorldOK'
  BY DEF TypeOK, WorldOK, world

LEMMA CountTyped ==
  ASSUME NEW c \in [calls : Nat, mishaps : Nat]
  PROVE  /\ [c EXCEPT !.calls = @ + 1] \in [calls : Nat, mishaps : Nat]
         /\ [c EXCEPT !.mishaps = @ + 1] \in [calls : Nat, mishaps : Nat]
  OBVIOUS

LEMMA CalledTyped ==
  ASSUME TypeOK, NEW p \in Procs, Called(p)
  PROVE  count' \in [calls : Nat, mishaps : Nat]
<1>1. count \in [calls : Nat, mishaps : Nat] /\ count' = [count EXCEPT !.calls = @ + 1]
  BY DEF TypeOK, Called
<1> QED
  BY <1>1, CountTyped

LEMMA MishapTyped ==
  ASSUME TypeOK, count' = [count EXCEPT !.mishaps = @ + 1]
  PROVE  count' \in [calls : Nat, mishaps : Nat]
<1>1. count \in [calls : Nat, mishaps : Nat]
  BY DEF TypeOK
<1> QED
  BY <1>1, CountTyped

LEMMA UpsetTyped ==
  ASSUME TypeOK, NEW s \in SUBSET Upsets, Upset(s)
  PROVE  upset' \subseteq Upsets
  BY DEF TypeOK, Upset

-----------------------------------------------------------------------------
(* The calls that begin. *)
LEMMA CreatePreserves ==
  ASSUME TypeInv, NEW a \in Admins, CreateRun(a)
  PROVE  TypeInv'
<1> USE ConstantsTyped
<1> DEFINE c == [Idle EXCEPT !.pc = "save", !.kind = "create", !.obj = 1]
           o == Bound([NoRow EXCEPT !.status = "paused"])
<1>1. c \in CallType /\ c.pc = "save" /\ c.obj = 1
  <2>1. c \in CallType
    BY Begun, Names, Zenon
  <2> QED
    BY <2>1 DEF Idle
<1>2. o \in ActiveType
  BY DEF Bound, NoRow, ActiveType, Statuses
<1>3. obj = <<>> /\ obj' = <<o>> /\ call' = [call EXCEPT ![a] = c] /\ active' = active
  BY DEF CreateRun
<1> HIDE DEF c, o
<1>4. /\ call' \in [Procs -> CallType] /\ call'[a] = c
      /\ \A q \in Procs \ {a} : call'[q] = call[q]
  BY <1>1, <1>3, Moved DEF TypeInv, TypeOK
<1>5. MemoryOK' /\ Len(obj) <= Len(obj') /\ Len(obj') = 1
  BY <1>2, <1>3 DEF TypeInv, TypeOK, MemoryOK
<1>6. WorldOK'
  <2>1. upset' \subseteq Upsets
    BY UpsetTyped DEF CreateRun, Overlaps, Upsets, TypeInv
  <2> QED
    BY <2>1 DEF CreateRun, WorldOK, TypeInv, TypeOK
<1>7. UNCHANGED db
  BY DEF CreateRun
<1>8. TypeOK'
  BY <1>4, <1>5, <1>6, <1>7, TypeGroups, DbStays DEF TypeInv, TypeOK, MemoryOK, WorldOK, DbOK
<1>9. RowFits' /\ FeedFits'
  BY <1>3, <1>4, <1>7, FeedStays DEF TypeInv, RowFits, db
<1>10. CallFits(a)'
  BY <1>1, <1>4, <1>5 DEF CallFits
<1>11. \A q \in Procs : CallFits(q)'
  BY <1>4, <1>5, <1>7, <1>10, OthersFit DEF db
<1> QED
  BY <1>8, <1>9, <1>11 DEF TypeInv

LEMMA TransitionPreserves ==
  ASSUME TypeInv, NEW a \in Admins, NEW status \in Statuses, TransitionRun(a, status)
  PROVE  TypeInv'
<1> USE ConstantsTyped
<1> DEFINE pc == IF active = 0 THEN "lookup" ELSE "write"
           c  == [Idle EXCEPT !.pc = pc, !.kind = status, !.obj = active]
<1>0. pc \in Pcs /\ status \in Kinds
  BY Names
<1>1. active \in Nat /\ active <= Len(obj)
  BY DEF TypeInv, TypeOK
<1>2. c \in CallType /\ c.pc = pc /\ c.kind = status /\ c.obj = active
  <2>1. c \in CallType
    BY <1>1, <1>0, Begun, Names, Zenon
  <2> QED
    BY <2>1 DEF Idle
<1>3. call' = [call EXCEPT ![a] = c]
  BY DEF TransitionRun
<1>4. pc \in {"lookup", "write"} /\ (pc # "lookup" => row.status # "absent")
  BY DEF TypeInv, RowFits
<1> HIDE DEF c, pc
<1>5. /\ call' \in [Procs -> CallType] /\ call'[a] = c
      /\ \A q \in Procs \ {a} : call'[q] = call[q]
  BY <1>2, <1>3, Moved DEF TypeInv, TypeOK
<1>6. UNCHANGED db /\ UNCHANGED memory
  BY DEF TransitionRun
<1>7. CallFits(a)'
  BY <1>1, <1>2, <1>4, <1>5, <1>6 DEF CallFits, db, memory
<1>8. WorldOK'
  <2>1. upset' \subseteq Upsets
    BY UpsetTyped DEF TransitionRun, Overlaps, Upsets, TypeInv
  <2>2. count' \in [calls : Nat, mishaps : Nat]
    BY CalledTyped DEF TransitionRun, TypeInv
  <2> QED
    BY <2>1, <2>2 DEF TransitionRun, WorldOK, TypeInv, TypeOK
<1> QED
  BY <1>5, <1>6, <1>7, <1>8, CallStep

LEMMA FeedbackPreserves ==
  ASSUME TypeInv, NEW p \in Procs \ {Feed}, ApplyFeedback(p)
  PROVE  TypeInv'
<1> USE ConstantsTyped
<1> DEFINE c == [Idle EXCEPT !.pc = "learn", !.kind = "feedback", !.obj = active]
<1>1. active \in Nat /\ active <= Len(obj) /\ row.status # "absent"
  BY DEF TypeInv, TypeOK, RowFits, ApplyFeedback
<1>2. c \in CallType /\ c.pc = "learn" /\ c.obj = active
  <2>1. c \in CallType
    BY <1>1, Begun, Names, Zenon
  <2> QED
    BY <2>1 DEF Idle
<1>3. call' = [call EXCEPT ![p] = c]
  BY DEF ApplyFeedback
<1> HIDE DEF c
<1>4. /\ call' \in [Procs -> CallType] /\ call'[p] = c
      /\ \A q \in Procs \ {p} : call'[q] = call[q]
  BY <1>2, <1>3, Moved DEF TypeInv, TypeOK
<1>5. UNCHANGED db /\ UNCHANGED memory
  BY DEF ApplyFeedback
<1>6. CallFits(p)'
  BY <1>1, <1>2, <1>4, <1>5 DEF CallFits, db, memory
<1>7. WorldOK'
  <2>1. upset' \subseteq Upsets
    BY UpsetTyped DEF ApplyFeedback, Upsets, TypeInv
  <2>2. count' \in [calls : Nat, mishaps : Nat]
    BY CalledTyped DEF ApplyFeedback, TypeInv
  <2> QED
    BY <2>1, <2>2 DEF ApplyFeedback, WorldOK, TypeInv, TypeOK
<1> QED
  BY <1>4, <1>5, <1>6, <1>7, CallStep

LEMMA VisitPreserves ==
  ASSUME TypeInv, PollVisits
  PROVE  TypeInv'
<1> USE ConstantsTyped
<1> DEFINE c == [Idle EXCEPT !.pc = "held", !.obj = active]
<1>1. active \in Nat /\ active <= Len(obj) /\ active # 0 /\ row.status # "absent"
  BY DEF TypeInv, TypeOK, RowFits, PollVisits
<1>2. c \in CallType /\ c.pc = "held" /\ c.obj = active
  <2>1. c \in CallType
    BY <1>1, Begun, Names, Zenon
  <2> QED
    BY <2>1 DEF Idle
<1>3. call' = [call EXCEPT ![Poll] = c]
  BY DEF PollVisits
<1> HIDE DEF c
<1>4. /\ call' \in [Procs -> CallType] /\ call'[Poll] = c
      /\ \A q \in Procs \ {Poll} : call'[q] = call[q]
  BY <1>2, <1>3, Moved DEF TypeInv, TypeOK
<1>5. UNCHANGED db /\ UNCHANGED memory
  BY DEF PollVisits
<1>6. CallFits(Poll)'
  BY <1>1, <1>2, <1>4, <1>5 DEF CallFits, db, memory
<1>7. WorldOK'
  <2>1. count' \in [calls : Nat, mishaps : Nat]
    BY CalledTyped DEF PollVisits, TypeInv
  <2> QED
    BY <2>1 DEF PollVisits, WorldOK, TypeInv, TypeOK, world
<1> QED
  BY <1>4, <1>5, <1>6, <1>7, CallStep

-----------------------------------------------------------------------------
(* The calls that go on. *)
LEMMA SavePreserves ==
  ASSUME TypeInv, NEW a \in Admins, SaveCommits(a) \/ WriteCommits(a)
  PROVE  TypeInv' /\ row'.status \in Statuses
<1> USE ConstantsTyped
<1>1. PICK pc \in {"activate", "reread"} : Goto(a, pc)
  BY DEF SaveCommits, WriteCommits
<1>2. /\ call' \in [Procs -> CallType] /\ call'[a].pc = pc /\ call'[a].obj = call[a].obj
      /\ \A q \in Procs \ {a} : call'[q] = call[q]
  <2>1. pc \in Pcs /\ call \in [Procs -> CallType]
    BY DEF Pcs, TypeInv, TypeOK
  <2> QED
    BY <1>1, <2>1, Went
<1>3. row' \in RowType /\ row'.status \in Statuses
  <2>1. CASE SaveCommits(a)
    BY <2>1 DEF SaveCommits, NoRow, RowType, Statuses
  <2>2. CASE WriteCommits(a)
    <3>1. call[a].kind \in Statuses
      BY <2>2 DEF TypeInv, CallFits, WriteCommits, At
    <3> QED
      BY <2>2, <3>1 DEF WriteCommits, TypeInv, TypeOK, RowType
  <2> QED
    BY <2>1, <2>2
<1>4. row'.status # "absent"
  BY <1>3 DEF Statuses
<1>5. UNCHANGED <<trades, pos, memory, up, clock, world, count>>
  BY DEF SaveCommits, WriteCommits
<1>6. MemoryOK' /\ WorldOK' /\ Len(obj) <= Len(obj')
  BY <1>5, TypeGroups, MemoryStays, WorldStays DEF TypeInv, TypeOK, memory
<1>7. TypeOK'
  BY <1>2, <1>3, <1>5, <1>6 DEF TypeInv, TypeOK, MemoryOK, WorldOK
<1>8. RowFits' /\ FeedFits'
  BY <1>2, <1>4, <1>5, FeedStays DEF TypeInv, RowFits
<1>9. CallFits(a)'
  BY <1>2, <1>4, <1>5 DEF CallFits, TypeInv, memory
<1>10. \A q \in Procs : CallFits(q)'
  BY <1>2, <1>4, <1>6, <1>9, OthersFit
<1> QED
  BY <1>3, <1>7, <1>8, <1>10 DEF TypeInv

(* A call that returns. *)
LEMMA Returned ==
  ASSUME TypeInv, NEW p \in Procs, Return(p), MemoryOK', Len(obj) <= Len(obj'),
         row.status # "absent" => row'.status # "absent", UNCHANGED <<trades, pos>>
  PROVE  /\ call' \in [Procs -> CallType]
         /\ FeedFits' /\ \A q \in Procs : CallFits(q)'
         /\ call'[p] = Idle /\ \A q \in Procs \ {p} : call'[q] = call[q]
<1>1. /\ call' \in [Procs -> CallType] /\ call'[p] = Idle
      /\ \A q \in Procs \ {p} : call'[q] = call[q]
  BY IdleTyped, Moved DEF Return, TypeInv, TypeOK
<1>2. FeedFits'
  <2>1. CASE p = Feed
    BY <1>1, <2>1, IdleTyped DEF FeedFits
  <2>2. CASE p # Feed
    BY <1>1, <2>2, FeedStays, ConstantsTyped
  <2> QED
    BY <2>1, <2>2
<1>3. CallFits(p)'
  BY <1>1, IdleTyped DEF CallFits, MemoryOK
<1> QED
  BY <1>1, <1>2, <1>3, OthersFit

LEMMA ActivatePreserves ==
  ASSUME TypeInv, NEW a \in Admins, Activates(a)
  PROVE  TypeInv'
<1> USE ConstantsTyped
<1>1. call[a].obj \in 0..Len(obj) /\ row.status # "absent"
  <2>1. call[a] \in CallType /\ CallFits(a) /\ call[a].pc = "activate" /\ Len(obj) \in Nat
    BY DEF TypeInv, TypeOK, Activates, At
  <2>2. call[a].obj \in Nat
    BY <2>1, CallFields
  <2> QED
    BY <2>1, <2>2 DEF CallFits
<1>2. MemoryOK' /\ WorldOK' /\ DbOK' /\ Len(obj) <= Len(obj') /\ UNCHANGED db
  BY <1>1, TypeGroups, WorldStays, DbStays DEF Activates, TypeInv, TypeOK, MemoryOK
<1>3. call' \in [Procs -> CallType] /\ FeedFits' /\ \A q \in Procs : CallFits(q)'
  BY <1>2, Returned DEF Activates, db
<1> QED
  BY <1>1, <1>2, <1>3 DEF TypeInv, TypeOK, MemoryOK, WorldOK, DbOK, RowFits, db

LEMMA LookupPreserves ==
  ASSUME TypeInv, NEW a \in Admins, LookupReads(a)
  PROVE  TypeInv'
<1> USE ConstantsTyped
<1>1. /\ UNCHANGED db /\ UNCHANGED memory /\ WorldOK' /\ MemoryOK'
      /\ Len(obj) <= Len(obj') /\ row' = row /\ obj' = obj
  BY TypeGroups, WorldStays, MemoryStays DEF LookupReads, TypeInv, TypeOK, memory, db
<1>2. CASE Return(a)
  BY <1>1, <1>2, Returned, CallStep DEF db
<1>3. CASE row.status \in AllowedFrom(call[a].kind) /\ Goto(a, "write")
  <2>1. row.status # "absent" /\ call[a].kind \in Statuses
    BY <1>3 DEF AllowedFrom, LookupReads, At, TypeInv, CallFits, Statuses
  <2>2. /\ call' \in [Procs -> CallType] /\ call'[a].pc = "write" /\ call'[a].obj = call[a].obj
        /\ call'[a].kind = call[a].kind /\ \A q \in Procs \ {a} : call'[q] = call[q]
    BY <1>3, Went DEF TypeInv, TypeOK, Pcs
  <2>3. CallFits(a)'
    BY <1>1, <2>1, <2>2 DEF CallFits, TypeInv
  <2> QED
    BY <1>1, <2>2, <2>3, CallStep
<1> QED
  BY <1>2, <1>3 DEF LookupReads

LEMMA RereadPreserves ==
  ASSUME TypeInv, NEW p \in Procs, Rereads(p)
  PROVE  TypeInv'
<1> DEFINE r == [row EXCEPT !.mark = 0]
           c == [call[p] EXCEPT !.pc = "install", !.row = r]
<1>1. r \in RowType /\ r.status = row.status
  <2>1. row \in RowType /\ 0 \in 0..MaxTrades
    BY ConstantsTyped DEF TypeInv, TypeOK
  <2> QED
    BY <2>1, Zenon DEF RowType
<1>2. call[p] \in CallType /\ row.status # "absent" /\ call[p].pc = "reread"
  BY DEF TypeInv, TypeOK, CallFits, Rereads, At
<1> HIDE DEF r
<1>3. /\ c \in CallType /\ c.pc = "install" /\ c.row = r /\ c.obj = call[p].obj
      /\ c.legs = call[p].legs
  BY <1>1, <1>2, Zenon DEF CallType
<1>4. call' = [call EXCEPT ![p] = c]
  BY DEF Rereads, r
<1> HIDE DEF c
<1>5. /\ call' \in [Procs -> CallType] /\ call'[p] = c
      /\ \A q \in Procs \ {p} : call'[q] = call[q]
  BY <1>3, <1>4, Moved DEF TypeInv, TypeOK
<1>6. /\ UNCHANGED db /\ UNCHANGED memory /\ WorldOK' /\ row' = row /\ obj' = obj
  BY WorldStays DEF Rereads, TypeInv, memory, db
<1>7. CallFits(p)'
  BY <1>1, <1>2, <1>3, <1>5, <1>6 DEF CallFits, TypeInv
<1>8. p # Feed \/ FeedFits'
  BY <1>2, <1>3, <1>5 DEF FeedFits, TypeInv
<1> QED
  BY <1>5, <1>6, <1>7, <1>8, CallStep

LEMMA SeqExcept ==
  ASSUME NEW s \in Seq(ActiveType), NEW n, NEW o, n \in DOMAIN s => o \in ActiveType
  PROVE  [s EXCEPT ![n] = o] \in Seq(ActiveType) /\ Len([s EXCEPT ![n] = o]) = Len(s)
<1>1. CASE n \in DOMAIN s
  BY <1>1
<1>2. CASE n \notin DOMAIN s
  <2>1. s = [m \in 1..Len(s) |-> s[m]] /\ DOMAIN s = 1..Len(s)
    OBVIOUS
  <2>2. [s EXCEPT ![n] = o] = s
    BY <1>2, <2>1
  <2> QED
    BY <2>2
<1> QED
  BY <1>1, <1>2

(* A record follows the row that was read. *)
LEMMA RecordSet ==
  ASSUME TypeInv, NEW p \in Procs, At(p, "install"), SetRecord(p)
  PROVE  obj' \in Seq(ActiveType) /\ Len(obj') = Len(obj)
<1> DEFINE n == call[p].obj
           o == [obj[n] EXCEPT !.status = call[p].row.status, !.cash = call[p].row.cash]
<1>1. call[p].row \in RowType /\ call[p].row.status # "absent" /\ obj \in Seq(ActiveType)
  BY CallFields DEF TypeInv, TypeOK, CallFits, At
<1>2. call[p].row.status \in Statuses /\ call[p].row.cash \in SUBSET Ids
  BY <1>1 DEF RowType
<1>3. obj' = [obj EXCEPT ![n] = o]
  BY DEF SetRecord
<1>4. n \in DOMAIN obj => o \in ActiveType
  <2> HAVE n \in DOMAIN obj
  <2>1. obj[n] \in ActiveType
    BY <1>1
  <2> QED
    BY <1>2, <2>1, Zenon DEF ActiveType
<1> HIDE DEF n, o
<1> QED
  BY <1>1, <1>3, <1>4, SeqExcept

LEMMA TransitionInstallPreserves ==
  ASSUME TypeInv, NEW a \in Admins, TransitionInstalls(a)
  PROVE  TypeInv'
<1> USE ConstantsTyped
<1>1. /\ call[a] \in CallType /\ call[a].obj <= Len(obj) /\ row.status # "absent"
      /\ call[a].row \in RowType /\ call[a].row.status # "absent"
      /\ call[a].kind \in Statuses
  BY CallFields DEF TypeInv, TypeOK, CallFits, TransitionInstalls, At
<1>2. obj \in Seq(ActiveType) /\ active \in 0..Len(obj)
  BY DEF TypeInv, TypeOK
<1>3. MemoryOK' /\ Len(obj) <= Len(obj')
  <2>1. CASE call[a].obj # 0 /\ SetRecord(a) /\ UNCHANGED active
    <3>1. obj' \in Seq(ActiveType) /\ Len(obj') = Len(obj)
      BY <2>1, RecordSet DEF TransitionInstalls
    <3> QED
      BY <1>2, <2>1, <3>1 DEF MemoryOK
  <2>2. CASE /\ obj' = Append(obj, Bound(call[a].row))
             /\ active' = Len(obj) + 1
    <3>1. call[a].row.status \in Statuses /\ call[a].row.cash \in SUBSET Ids
      BY <1>1 DEF RowType
    <3>2. Bound(call[a].row) \in ActiveType
      BY <3>1 DEF Bound, ActiveType
    <3> QED
      BY <1>2, <2>2, <3>2 DEF MemoryOK
  <2>3. CASE UNCHANGED memory
    BY <1>2, <2>3 DEF MemoryOK, memory
  <2> QED
    BY <2>1, <2>2, <2>3 DEF TransitionInstalls
<1>4. UNCHANGED db
  BY DEF TransitionInstalls
<1>5. /\ call' \in [Procs -> CallType] /\ FeedFits' /\ \A q \in Procs : CallFits(q)'
  <2>1. CASE Return(a)
    BY <1>3, <1>4, <2>1, Returned DEF db
  <2>2. CASE Goto(a, "pop")
    <3>1. /\ call' \in [Procs -> CallType] /\ call'[a].pc = "pop" /\ call'[a].obj = call[a].obj
          /\ \A q \in Procs \ {a} : call'[q] = call[q]
      BY <2>2, Went DEF TypeInv, TypeOK, Pcs
    <3>2. call[a].obj \in Nat /\ Len(obj) \in Nat /\ Len(obj') \in Nat
      BY <1>1, <1>2, <1>3, CallFields DEF MemoryOK
    <3>3. CallFits(a)'
      BY <1>1, <1>3, <1>4, <3>1, <3>2 DEF CallFits, db
    <3> QED
      BY <1>3, <1>4, <3>1, <3>3, OthersFit, FeedStays DEF db
  <2> QED
    BY <2>1, <2>2 DEF TransitionInstalls
<1>6. WorldOK'
  <2>1. upset' \subseteq Upsets
    BY UpsetTyped DEF TransitionInstalls, NoteStale, Upsets, TypeInv
  <2>2. quiet' \in BOOLEAN
    BY DEF TransitionInstalls
  <2> QED
    BY <2>1, <2>2 DEF TransitionInstalls, WorldOK, TypeInv, TypeOK
<1>7. RowFits'
  BY <1>1, <1>4 DEF TypeInv, RowFits, db
<1>8. TypeOK'
  BY <1>3, <1>4, <1>5, <1>6 DEF TypeInv, TypeOK, db, WorldOK, MemoryOK
<1> QED
  BY <1>5, <1>7, <1>8 DEF TypeInv

LEMMA FeedbackInstallPreserves ==
  ASSUME TypeInv, NEW p \in Procs, FeedbackInstalls(p)
  PROVE  TypeInv'
<1>1. obj' \in Seq(ActiveType) /\ Len(obj') = Len(obj) /\ active' = active
  BY RecordSet DEF FeedbackInstalls
<1>2. MemoryOK' /\ Len(obj) <= Len(obj')
  BY <1>1 DEF MemoryOK, TypeInv, TypeOK
<1>3. UNCHANGED db
  BY DEF FeedbackInstalls
<1>4. /\ call' \in [Procs -> CallType] /\ FeedFits' /\ \A q \in Procs : CallFits(q)'
  BY <1>2, <1>3, Returned DEF FeedbackInstalls, db
<1>5. WorldOK'
  <2>1. upset' \subseteq Upsets
    BY UpsetTyped DEF FeedbackInstalls, NoteStale, Upsets, TypeInv
  <2> QED
    BY <2>1 DEF FeedbackInstalls, WorldOK, TypeInv, TypeOK
<1>6. RowFits'
  BY <1>1, <1>3 DEF TypeInv, RowFits, db
<1>7. TypeOK'
  BY <1>2, <1>3, <1>4, <1>5 DEF TypeInv, TypeOK, db, WorldOK, MemoryOK
<1> QED
  BY <1>4, <1>6, <1>7 DEF TypeInv

LEMMA PopPreserves ==
  ASSUME TypeInv, NEW a \in Admins, StopPops(a)
  PROVE  TypeInv'
<1> USE ConstantsTyped
<1>1. MemoryOK' /\ Len(obj) <= Len(obj') /\ UNCHANGED db /\ obj' = obj
  BY DEF StopPops, MemoryOK, TypeInv, TypeOK
<1>2. WorldOK' /\ DbOK'
  BY <1>1, TypeGroups, WorldStays, DbStays DEF StopPops, TypeInv
<1>3. RowFits'
  BY <1>1 DEF StopPops, TypeInv, RowFits, db
<1>4. /\ call' \in [Procs -> CallType] /\ FeedFits' /\ \A q \in Procs : CallFits(q)'
  <2>1. CASE active = 0
    BY <1>1, <2>1, Returned DEF StopPops, db
  <2>2. CASE active # 0
    <3> DEFINE c == [Idle EXCEPT !.pc = "held", !.obj = active]
    <3>1. active \in Nat /\ active <= Len(obj) /\ row.status # "absent"
      BY <2>2 DEF TypeInv, TypeOK, RowFits
    <3>2. c \in CallType
      BY <3>1, Begun, Names, Zenon
    <3>3. c.pc = "held" /\ c.obj = active
      BY <3>2 DEF Idle
    <3>4. call' = [call EXCEPT ![a] = c]
      BY <2>2 DEF StopPops
    <3> HIDE DEF c
    <3>5. /\ call' \in [Procs -> CallType] /\ call'[a] = c
          /\ \A q \in Procs \ {a} : call'[q] = call[q]
      BY <3>2, <3>4, Moved DEF TypeInv, TypeOK
    <3>6. CallFits(a)'
      BY <1>1, <2>2, <3>1, <3>3, <3>5 DEF CallFits, db
    <3> QED
      BY <1>1, <3>1, <3>5, <3>6, OthersFit, FeedStays DEF db
  <2> QED
    BY <2>1, <2>2
<1> QED
  BY <1>1, <1>2, <1>3, <1>4 DEF TypeInv, TypeOK, MemoryOK, WorldOK, DbOK

-----------------------------------------------------------------------------
(* Feedback: the watermark is the number of the last outcome. *)
LEMMA Last ==
  ASSUME NEW n \in Nat, NEW S \in SUBSET (1..n), S # {}
  PROVE  \E t \in S : \A u \in S : u <= t
<1> DEFINE T == {n - t : t \in S}
<1>1. T \subseteq Nat /\ T # {}
  <2>1. \A t \in S : n - t \in Nat
    OBVIOUS
  <2>2. PICK t \in S : TRUE
    OBVIOUS
  <2>3. n - t \in T
    BY <2>2
  <2> QED
    BY <2>1, <2>3
<1>2. PICK x \in T : \A y \in T : ~(<<y, x>> \in OpToRel(<, Nat))
  BY <1>1, NatLessThanWellFounded, WFMin
<1>3. \A y \in T : ~(y < x)
  BY <1>1, <1>2 DEF OpToRel
<1>4. PICK t \in S : x = n - t
  OBVIOUS
<1>5. ASSUME NEW u \in S PROVE u <= t
  <2>1. ~(n - u < n - t)
    BY <1>3, <1>4
  <2> QED
    BY <2>1
<1> QED
  BY <1>5

LastOutcome == CHOOSE t \in Outcomes : \A u \in Outcomes : u <= t

LEMMA LastTyped ==
  ASSUME TypeInv, Cardinality(Outcomes) >= MinClosed
  PROVE  /\ LastOutcome \in Outcomes /\ \A u \in Outcomes : u <= LastOutcome
         /\ LastOutcome \in 1..MaxTrades
<1>1. Outcomes \subseteq 1..Len(trades) /\ Len(trades) \in Nat /\ Len(trades) <= MaxTrades
  BY DEF Outcomes, TypeInv, TypeOK, RowFits
<1>2. Outcomes # {}
  BY FS_EmptySet, ConstantsTyped
<1>3. \E t \in Outcomes : \A u \in Outcomes : u <= t
  BY <1>1, <1>2, Last
<1> HIDE DEF Outcomes
<1>4. LastOutcome \in Outcomes /\ \A u \in Outcomes : u <= LastOutcome
  BY <1>3 DEF LastOutcome
<1> QED
  BY <1>1, <1>4, ConstantsTyped

(* Where Learns leaves its call. *)
LEMMA Learned ==
  ASSUME TypeInv, NEW p \in Procs, Learns(p)
  PROVE  /\ call' \in [Procs -> CallType] /\ call'[p].obj = call[p].obj
         /\ call'[p].kind = call[p].kind
         /\ \A q \in Procs \ {p} : call'[q] = call[q]
         /\ \/ call'[p].pc = "reread" /\ fed' = fed
            \/ /\ call'[p].pc = "mark" /\ call'[p].id = LastOutcome
               /\ Cardinality(Outcomes) >= MinClosed
               /\ fed' = [t \in Ids |-> IF t \in Outcomes THEN fed[t] + 1 ELSE fed[t]]
<1>0. Cardinality(Outcomes) \in Nat
  <2>1. Outcomes \subseteq 1..Len(trades) /\ Len(trades) \in Nat
    BY DEF Outcomes, TypeInv, TypeOK
  <2>2. IsFiniteSet(1..Len(trades))
    BY <2>1, FS_Interval
  <2>3. IsFiniteSet(Outcomes)
    BY <2>1, <2>2, FS_Subset
  <2> QED
    BY <2>3, FS_CardinalityType
<1>1. CASE Cardinality(Outcomes) < MinClosed
  <2>1. Goto(p, "reread") /\ fed' = fed
    BY <1>1 DEF Learns
  <2> QED
    BY <2>1, Went DEF TypeInv, TypeOK, Pcs
<1>2. CASE Cardinality(Outcomes) >= MinClosed
  <2> DEFINE c == [call[p] EXCEPT !.pc = "mark", !.id = LastOutcome]
  <2>1. call[p] \in CallType /\ LastOutcome \in 0..MaxTrades
    BY <1>2, LastTyped, ConstantsTyped DEF TypeInv, TypeOK
  <2>2. ~(Cardinality(Outcomes) < MinClosed)
    BY <1>0, <1>2, ConstantsTyped
  <2>3. /\ call' = [call EXCEPT ![p] = c]
        /\ fed' = [t \in Ids |-> IF t \in Outcomes THEN fed[t] + 1 ELSE fed[t]]
    BY <2>2 DEF Learns, LastOutcome
  <2> HIDE DEF LastOutcome
  <2>4. /\ c \in CallType /\ c.pc = "mark" /\ c.obj = call[p].obj /\ c.id = LastOutcome
        /\ c.kind = call[p].kind
    BY <2>1, Zenon DEF CallType
  <2> HIDE DEF c
  <2>5. /\ call' \in [Procs -> CallType] /\ call'[p] = c
        /\ \A q \in Procs \ {p} : call'[q] = call[q]
    BY <2>3, <2>4, Moved DEF TypeInv, TypeOK
  <2> QED
    BY <1>2, <2>3, <2>4, <2>5
<1> QED
  BY <1>0, <1>1, <1>2, ConstantsTyped

LEMMA LearnPreserves ==
  ASSUME TypeInv, NEW p \in Procs \ {Feed}, Learns(p)
  PROVE  TypeInv'
<1>1. /\ UNCHANGED db /\ UNCHANGED memory /\ row' = row /\ obj' = obj
      /\ UNCHANGED <<up, clock, quiet, torn, upset, count>>
  BY DEF Learns, db, memory
<1>2. CallFits(p)'
  BY <1>1, Learned DEF CallFits, TypeInv, Learns, At
<1>3. fed' \in [Ids -> Nat]
  BY Learned DEF TypeInv, TypeOK
<1>4. WorldOK'
  BY <1>1, <1>3 DEF WorldOK, TypeInv, TypeOK
<1> QED
  BY <1>1, <1>2, <1>4, Learned, CallStep

(* The feed is not disturbed, nor is a status. *)
LEMMA MarkPreserves ==
  ASSUME TypeInv, NEW p \in Procs \ {Feed}, MarkCommits(p)
  PROVE  TypeInv'
<1>1. /\ call' \in [Procs -> CallType] /\ call'[p].pc = "reread" /\ call'[p].obj = call[p].obj
      /\ \A q \in Procs \ {p} : call'[q] = call[q]
  BY Went DEF MarkCommits, TypeInv, TypeOK, Pcs
<1>2. row' \in RowType /\ row'.status = row.status
  <2>1. row \in RowType /\ call[p].id \in 0..MaxTrades
    BY CallFields DEF TypeInv, TypeOK
  <2> QED
    BY <2>1, Zenon DEF MarkCommits, RowType
<1>3. /\ UNCHANGED <<trades, pos, memory, up, clock, world, count>>
      /\ UNCHANGED memory /\ obj' = obj
  BY DEF MarkCommits, memory
<1>4. MemoryOK' /\ WorldOK' /\ Len(obj) <= Len(obj')
  BY <1>3, TypeGroups, MemoryStays, WorldStays DEF TypeInv, TypeOK
<1>5. TypeOK'
  BY <1>1, <1>2, <1>3, <1>4 DEF TypeInv, TypeOK, MemoryOK, WorldOK
<1>6. RowFits' /\ FeedFits'
  BY <1>1, <1>2, <1>3, FeedStays, ConstantsTyped DEF TypeInv, RowFits, memory
<1>7. CallFits(p)'
  BY <1>1, <1>2, <1>3 DEF CallFits, TypeInv, MarkCommits, At
<1>8. \A q \in Procs : CallFits(q)'
  BY <1>1, <1>2, <1>4, <1>7, OthersFit
<1> QED
  BY <1>5, <1>6, <1>8 DEF TypeInv

-----------------------------------------------------------------------------
(* Valuations. *)
LEMMA ValuePreserves ==
  ASSUME TypeInv, NEW p \in Procs, Values(p)
  PROVE  TypeInv'
<1> DEFINE cash == obj[call[p].obj].cash
           c    == [call[p] EXCEPT !.pc = "point", !.held = Held, !.paid = cash]
<1>1. call[p] \in CallType /\ CallFits(p) /\ call[p].pc = "held" /\ obj \in Seq(ActiveType)
  BY DEF TypeInv, TypeOK, Values, At
<1>2. call[p].obj \in 1..Len(obj) /\ row.status # "absent"
  <2>1. call[p].obj \in Nat /\ Len(obj) \in Nat
    BY <1>1, CallFields
  <2> QED
    BY <1>1, <2>1 DEF CallFits
<1>3. Held \in SUBSET Ids /\ cash \in SUBSET Ids
  <2>1. obj[call[p].obj] \in ActiveType
    BY <1>1, <1>2
  <2> QED
    BY <2>1 DEF Held, ActiveType, TypeInv, TypeOK
<1>4. call' = [call EXCEPT ![p] = c]
  BY DEF Values
<1> HIDE DEF cash
<1>5. /\ c \in CallType /\ c.pc = "point" /\ c.obj = call[p].obj /\ c.legs = call[p].legs
  BY <1>1, <1>3, Zenon DEF CallType
<1> HIDE DEF c
<1>6. /\ call' \in [Procs -> CallType] /\ call'[p] = c
      /\ \A q \in Procs \ {p} : call'[q] = call[q]
  BY <1>4, <1>5, Moved DEF TypeInv, TypeOK
<1>7. /\ UNCHANGED db /\ UNCHANGED memory /\ WorldOK' /\ row' = row /\ obj' = obj
  BY WorldStays DEF Values, TypeInv, memory, db
<1>8. CallFits(p)' /\ (p # Feed \/ FeedFits')
  BY <1>1, <1>2, <1>5, <1>6, <1>7 DEF CallFits, FeedFits, TypeInv
<1> QED
  BY <1>6, <1>7, <1>8, CallStep

(* The feed's call, which has an object and a leg to serve. *)
LEMMA FeedFields ==
  ASSUME TypeInv, call[Feed].pc # "idle"
  PROVE  /\ call[Feed] \in CallType
         /\ call[Feed].obj \in 1..Len(obj) /\ obj[call[Feed].obj] \in ActiveType
         /\ call[Feed].legs \in Seq(Instruments) /\ call[Feed].legs # <<>>
         /\ Inst \in Instruments /\ Inst = Head(call[Feed].legs)
         /\ call[Feed].pc \in Pcs
         /\ call[Feed].pc \notin {"save", "lookup"} => row.status # "absent"
<1>1. /\ call[Feed] \in CallType /\ CallFits(Feed) /\ FeedFits
      /\ obj \in Seq(ActiveType) /\ Len(obj) \in Nat
  BY ConstantsTyped DEF TypeInv, TypeOK
<1>2. call[Feed].obj \in Nat /\ call[Feed].legs \in Seq(Instruments) /\ call[Feed].pc \in Pcs
  BY <1>1, CallFields
<1>3. call[Feed].obj # 0 /\ call[Feed].legs # <<>> /\ call[Feed].obj <= Len(obj)
  BY <1>1 DEF FeedFits, CallFits
<1>4. call[Feed].obj \in 1..Len(obj)
  BY <1>1, <1>2, <1>3
<1> QED
  BY <1>1, <1>2, <1>3, <1>4 DEF CallFits, Inst

LEMMA TailLeft ==
  ASSUME NEW s \in Seq(Instruments), s # <<>>, Len(s) # 1
  PROVE  Tail(s) \in Seq(Instruments) /\ Tail(s) # <<>>
<1>1. Len(s) \in Nat /\ Len(s) # 0
  OBVIOUS
<1>2. Tail(s) \in Seq(Instruments) /\ Len(Tail(s)) = Len(s) - 1
  OBVIOUS
<1>3. Len(Tail(s)) # 0 /\ Len(<<>>) = 0
  BY <1>1, <1>2
<1>4. Tail(s) # <<>>
  BY <1>3, Zenon
<1> QED
  BY <1>2, <1>4

LEMMA SkipPreserves ==
  ASSUME TypeInv, call[Feed].pc \notin {"idle", "save", "lookup"}, Skip, UNCHANGED db,
         UNCHANGED memory, WorldOK'
  PROVE  TypeInv'
<1> USE ConstantsTyped
<1> DEFINE f == call[Feed]
           c == [Idle EXCEPT !.pc = "leg", !.obj = f.obj, !.legs = Tail(f.legs)]
<1>1. CASE Len(f.legs) = 1
  <2>1. call' = [call EXCEPT ![Feed] = Idle]
    BY <1>1 DEF Skip, NextLeg
  <2>2. /\ call' \in [Procs -> CallType] /\ call'[Feed] = Idle
        /\ \A q \in Procs \ {Feed} : call'[q] = call[q]
    BY <2>1, IdleTyped, Moved DEF TypeInv, TypeOK
  <2>3. CallFits(Feed)' /\ FeedFits'
    BY <2>2, IdleTyped DEF CallFits, FeedFits, TypeInv, TypeOK, memory
  <2> QED
    BY <2>2, <2>3, CallStep
<1>2. CASE Len(f.legs) # 1
  <2>1. f.obj \in Nat /\ f.obj # 0 /\ f.obj <= Len(obj) /\ row.status # "absent"
    BY FeedFields DEF TypeInv, TypeOK
  <2>2. Tail(f.legs) \in Seq(Instruments) /\ Tail(f.legs) # <<>>
    <3>1. f.legs \in Seq(Instruments) /\ f.legs # <<>>
      BY FeedFields
    <3> QED
      BY <1>2, <3>1, TailLeft
  <2>3. c \in CallType
    BY <2>1, <2>2, Begun, Names, Zenon
  <2>4. c.pc = "leg" /\ c.obj = f.obj /\ c.legs = Tail(f.legs)
    BY <2>3 DEF Idle
  <2>5. call' = [call EXCEPT ![Feed] = c]
    BY <1>2 DEF Skip, NextLeg
  <2> HIDE DEF c
  <2>6. /\ call' \in [Procs -> CallType] /\ call'[Feed] = c
        /\ \A q \in Procs \ {Feed} : call'[q] = call[q]
    BY <2>3, <2>5, Moved DEF TypeInv, TypeOK
  <2>7. CallFits(Feed)' /\ FeedFits'
    BY <2>1, <2>2, <2>4, <2>6 DEF CallFits, FeedFits, memory, db
  <2> QED
    BY <2>6, <2>7, CallStep
<1> QED
  BY <1>1, <1>2

LEMMA PointPreserves ==
  ASSUME TypeInv, NEW p \in Procs, PointCommits(p)
  PROVE  TypeInv'
<1>1. UNCHANGED db /\ UNCHANGED memory /\ WorldOK'
  BY WorldStays DEF PointCommits, TypeInv
<1>2. CASE p = Feed
  BY <1>1, <1>2, SkipPreserves DEF PointCommits, At
<1>3. CASE p # Feed
  <2>1. MemoryOK' /\ Len(obj) <= Len(obj')
    BY <1>1, TypeGroups, MemoryStays DEF TypeInv, TypeOK, memory
  <2>2. /\ call' \in [Procs -> CallType] /\ FeedFits' /\ CallFits(p)'
        /\ \A q \in Procs \ {p} : call'[q] = call[q]
    BY <1>1, <1>3, <2>1, Returned DEF PointCommits, db
  <2> QED
    BY <1>1, <2>2, CallStep
<1> QED
  BY <1>2, <1>3

-----------------------------------------------------------------------------
(* The feed. *)
LEMMA DispatchPreserves ==
  ASSUME TypeInv, Dispatches
  PROVE  TypeInv'
<1> USE ConstantsTyped
<1>1. PICK k \in 1..MaxLegs : \E legs \in [1..k -> Instruments] :
        call' = [call EXCEPT ![Feed] =
                   [Idle EXCEPT !.pc = "leg", !.obj = active, !.legs = legs]]
  BY DEF Dispatches
<1>2. PICK legs \in [1..k -> Instruments] :
        call' = [call EXCEPT ![Feed] =
                   [Idle EXCEPT !.pc = "leg", !.obj = active, !.legs = legs]]
  BY <1>1
<1> DEFINE c == [Idle EXCEPT !.pc = "leg", !.obj = active, !.legs = legs]
<1>3. legs \in Seq(Instruments) /\ legs # <<>>
  <2>1. k \in Nat /\ k # 0
    OBVIOUS
  <2>2. legs \in Seq(Instruments) /\ Len(legs) = k
    BY <2>1
  <2> QED
    BY <2>1, <2>2
<1>4. active \in Nat /\ active # 0 /\ active <= Len(obj) /\ row.status # "absent"
  BY DEF Dispatches, TypeInv, TypeOK, RowFits
<1>5. c \in CallType
  BY <1>3, <1>4, Begun, Names, Zenon
<1>6. c.pc = "leg" /\ c.obj = active /\ c.legs = legs
  BY <1>5 DEF Idle
<1> HIDE DEF c
<1>7. /\ call' \in [Procs -> CallType] /\ call'[Feed] = c
      /\ \A q \in Procs \ {Feed} : call'[q] = call[q]
  <2>1. call' = [call EXCEPT ![Feed] = c]
    BY <1>2 DEF c
  <2> QED
    BY <1>5, <2>1, Moved DEF TypeInv, TypeOK
<1>8. UNCHANGED db /\ UNCHANGED memory /\ WorldOK' /\ row' = row /\ obj' = obj
  BY WorldStays DEF Dispatches, TypeInv, db, memory
<1>9. CallFits(Feed)' /\ FeedFits'
  BY <1>3, <1>4, <1>6, <1>7, <1>8 DEF CallFits, FeedFits
<1> QED
  BY <1>7, <1>8, <1>9, CallStep

LEMMA SettlePreserves ==
  ASSUME TypeInv, SettleBegins
  PROVE  TypeInv'
<1> USE ConstantsTyped
<1>1. /\ UNCHANGED db /\ UNCHANGED memory /\ row' = row /\ obj' = obj
      /\ UNCHANGED <<up, world, count>> /\ call[Feed].pc = "leg"
  BY DEF SettleBegins, db, memory, At
<1>2. CASE Skip /\ UNCHANGED clock
  <2>1. WorldOK'
    BY <1>1, <1>2, WorldStays DEF TypeInv
  <2> QED
    BY <1>1, <1>2, <2>1, SkipPreserves
<1>3. ASSUME NEW now \in clock..MaxTime, Settles(now)
      PROVE  TypeInv'
  <2> DEFINE c == [call[Feed] EXCEPT !.pc = "sizing", !.kind = "trade", !.at = now,
                                     !.late = quiet]
  <2>1. now \in 0..MaxTime /\ quiet \in BOOLEAN
    BY DEF TypeInv, TypeOK
  <2>2. call' = [call EXCEPT ![Feed] = c] /\ clock' = now /\ Len(trades) < MaxTrades
    BY <1>3 DEF Settles
  <2>3. call[Feed] \in CallType
    BY <1>1, FeedFields
  <2>4. /\ c \in CallType /\ c.pc = "sizing" /\ c.obj = call[Feed].obj
        /\ c.legs = call[Feed].legs
    BY <2>1, <2>3, Zenon DEF CallType
  <2> HIDE DEF c
  <2>5. /\ call' \in [Procs -> CallType] /\ call'[Feed] = c
        /\ \A q \in Procs \ {Feed} : call'[q] = call[q]
    BY <2>2, <2>4, Moved DEF TypeInv, TypeOK
  <2>6. CallFits(Feed)' /\ FeedFits'
    BY <1>1, <2>2, <2>4, <2>5 DEF CallFits, FeedFits, TypeInv, db
  <2>7. WorldOK'
    BY <1>1, <2>1, <2>2 DEF WorldOK, TypeInv, TypeOK, world
  <2> QED
    BY <1>1, <2>5, <2>6, <2>7, CallStep
<1> QED
  BY <1>2, <1>3 DEF SettleBegins

LEMMA SizePreserves ==
  ASSUME TypeInv, Sizes
  PROVE  TypeInv'
<1> USE ConstantsTyped
<1>1. /\ UNCHANGED db /\ UNCHANGED memory /\ row' = row /\ obj' = obj /\ WorldOK'
      /\ call[Feed].pc = "sizing"
  BY WorldStays DEF Sizes, db, memory, At, TypeInv
<1>2. CASE Skip
  BY <1>1, <1>2, SkipPreserves
<1>3. ASSUME NEW closed \in BOOLEAN,
             call' = [call EXCEPT ![Feed].pc = "trade", ![Feed].closed = closed,
                                  ![Feed].paid = Record.cash]
      PROVE  TypeInv'
  <2> DEFINE c == [call[Feed] EXCEPT !.pc = "trade", !.closed = closed, !.paid = Record.cash]
  <2>1. Record.cash \in SUBSET Ids
    BY <1>1, FeedFields DEF Record, ActiveType
  <2>2. call' = [call EXCEPT ![Feed] = c]
    BY <1>3
  <2>3. call[Feed] \in CallType
    BY <1>1, FeedFields
  <2>4. /\ c \in CallType /\ c.pc = "trade" /\ c.obj = call[Feed].obj
        /\ c.legs = call[Feed].legs
    BY <2>1, <2>3, Zenon DEF CallType
  <2> HIDE DEF c
  <2>5. /\ call' \in [Procs -> CallType] /\ call'[Feed] = c
        /\ \A q \in Procs \ {Feed} : call'[q] = call[q]
    BY <2>2, <2>4, Moved DEF TypeInv, TypeOK
  <2>6. CallFits(Feed)' /\ FeedFits'
    BY <1>1, <2>4, <2>5 DEF CallFits, FeedFits, TypeInv, db
  <2> QED
    BY <1>1, <2>5, <2>6, CallStep
<1> QED
  BY <1>2, <1>3 DEF Sizes

(* A step of the feed that writes the database, but no status. *)
LEMMA FeedWrites ==
  ASSUME TypeInv, DbOK', row'.status = row.status, Len(trades') <= MaxTrades, FeedFits',
         call' \in [Procs -> CallType], CallFits(Feed)',
         \A q \in Procs \ {Feed} : call'[q] = call[q],
         UNCHANGED <<memory, up, clock, world, count>>
  PROVE  TypeInv'
<1>1. obj' = obj /\ active' = active /\ MemoryOK' /\ WorldOK'
  BY TypeGroups, MemoryStays, WorldStays DEF TypeInv, memory
<1>2. Len(obj) <= Len(obj')
  BY <1>1 DEF TypeInv, TypeOK
<1>3. \A q \in Procs : CallFits(q)'
  BY <1>1, <1>2, OthersFit, ConstantsTyped
<1> QED
  BY <1>1, <1>3 DEF TypeInv, TypeOK, DbOK, MemoryOK, WorldOK, RowFits

(* What is stored of a trade. *)
Filled == [inst |-> Inst, at |-> call[Feed].at, closed |-> call[Feed].closed,
           late |-> call[Feed].late]

LEMMA TradePreserves ==
  ASSUME TypeInv, TradeCommits
  PROVE  /\ TypeInv'
         /\ trades' = Append(trades, Filled) /\ Filled.inst \in Instruments
         /\ call'[Feed].pc = "position"
<1> USE ConstantsTyped
<1> DEFINE n == Len(trades) + 1
           c == [call[Feed] EXCEPT !.pc = "position", !.id = n]
<1>1. /\ call[Feed] \in CallType /\ call[Feed].pc = "trade" /\ Inst \in Instruments
      /\ call[Feed].at \in 0..MaxTime /\ call[Feed].closed \in BOOLEAN
      /\ call[Feed].late \in BOOLEAN /\ row.status # "absent"
  BY FeedFields, CallFields DEF TradeCommits, At
<1>2. Filled \in TradeType /\ Filled.inst = Inst
  BY <1>1 DEF Filled, TradeType
<1>3. trades' = Append(trades, Filled) /\ UNCHANGED <<row, pos>>
  BY DEF TradeCommits, Filled
<1>4. trades \in Seq(TradeType) /\ Len(trades) < MaxTrades
  BY <1>1 DEF TypeInv, TypeOK, FeedFits
<1>5. n \in 1..MaxTrades /\ n \in 0..MaxTrades
  BY <1>4
<1>6. /\ trades' \in Seq(TradeType) /\ Len(trades') = n /\ n \in DOMAIN trades'
      /\ trades'[n] = Filled
  BY <1>2, <1>3, <1>4
<1>7. call' = [call EXCEPT ![Feed] = c]
  BY DEF TradeCommits
<1> HIDE DEF n
<1>8. /\ c \in CallType /\ c.pc = "position" /\ c.obj = call[Feed].obj
      /\ c.legs = call[Feed].legs /\ c.id = n
  BY <1>1, <1>5, Zenon DEF CallType
<1> HIDE DEF c
<1>9. /\ call' \in [Procs -> CallType] /\ call'[Feed] = c
      /\ \A q \in Procs \ {Feed} : call'[q] = call[q]
  BY <1>7, <1>8, Moved DEF TypeInv, TypeOK
<1>10. DbOK'
  BY <1>3, <1>6 DEF DbOK, TypeInv, TypeOK
<1>11. Len(trades') <= MaxTrades
  BY <1>5, <1>6
<1>12. FeedFits'
  BY <1>1, <1>2, <1>6, <1>8, <1>9 DEF FeedFits, TypeInv, Inst
<1>13. UNCHANGED <<memory, up, clock, world, count>>
  BY DEF TradeCommits
<1>14. CallFits(Feed)'
  BY <1>1, <1>3, <1>8, <1>9, <1>13 DEF CallFits, TypeInv, memory
<1> QED
  BY <1>1, <1>2, <1>3, <1>8, <1>9, <1>10, <1>11, <1>12, <1>13, <1>14, FeedWrites

LEMMA PositionPreserves ==
  ASSUME TypeInv, PositionCommits
  PROVE  /\ TypeInv' /\ trades' = trades /\ torn' = torn
         /\ pos' = [pos EXCEPT ![Inst] = @ \cup {Len(trades)}]
         /\ trades[Len(trades)].inst = Inst /\ Len(trades) \in DOMAIN trades
         /\ call'[Feed].pc = "cash" /\ call[Feed].pc = "position"
<1> USE ConstantsTyped
<1>1. /\ call[Feed] \in CallType /\ call[Feed].pc = "position" /\ Inst \in Instruments
      /\ row.status # "absent"
  BY FeedFields DEF PositionCommits, At
<1>2. /\ call[Feed].id = Len(trades) /\ Len(trades) \in DOMAIN trades
      /\ trades[Len(trades)].inst = Inst
  BY <1>1 DEF TypeInv, FeedFits, Inst
<1>3. Len(trades) \in Ids
  BY <1>2 DEF TypeInv, TypeOK, RowFits, Ids
<1>4. /\ pos' = [pos EXCEPT ![Inst] = @ \cup {Len(trades)}]
      /\ UNCHANGED <<row, trades, memory, up, clock, world, count>>
      /\ Goto(Feed, "cash")
  BY <1>2 DEF PositionCommits
<1>5. /\ call' \in [Procs -> CallType] /\ call'[Feed].pc = "cash"
      /\ call'[Feed].obj = call[Feed].obj /\ call'[Feed].legs = call[Feed].legs
      /\ call'[Feed].id = call[Feed].id
      /\ \A q \in Procs \ {Feed} : call'[q] = call[q]
  BY <1>4, Went DEF TypeInv, TypeOK, Pcs
<1>6. pos' \in [Instruments -> SUBSET Ids] /\ Len(trades) \in pos'[Inst]
  BY <1>1, <1>3, <1>4 DEF TypeInv, TypeOK
<1>7. DbOK' /\ Len(trades') <= MaxTrades /\ row' = row
  BY <1>4, <1>6 DEF DbOK, TypeInv, TypeOK, RowFits
<1>8. CallFits(Feed)' /\ FeedFits'
  BY <1>1, <1>2, <1>4, <1>5, <1>6 DEF CallFits, FeedFits, TypeInv, memory, Inst
<1>9. TypeInv'
  BY <1>4, <1>5, <1>7, <1>8, FeedWrites
<1> QED
  BY <1>1, <1>2, <1>4, <1>5, <1>9 DEF world

LEMMA CashPreserves ==
  ASSUME TypeInv, CashCommits
  PROVE  /\ TypeInv' /\ UNCHANGED <<trades, pos, torn>>
         /\ Len(trades) \in pos[Inst] /\ trades[Len(trades)].inst = Inst
         /\ row'.status = row.status /\ row'.mark = row.mark
<1> USE ConstantsTyped
<1>1. /\ call[Feed] \in CallType /\ call[Feed].pc = "cash" /\ Inst \in Instruments
      /\ row.status # "absent" /\ call[Feed].paid \subseteq Ids
  BY FeedFields, CallFields DEF CashCommits, At
<1>2. /\ call[Feed].id = Len(trades) /\ Len(trades) \in DOMAIN trades
      /\ trades[Len(trades)].inst = Inst /\ Len(trades) \in pos[Inst]
  BY <1>1 DEF TypeInv, FeedFits, Inst
<1>3. Len(trades) \in Ids
  BY <1>2 DEF TypeInv, TypeOK, RowFits, Ids
<1>4. UNCHANGED <<trades, pos, memory, up, clock, world, count>> /\ Goto(Feed, "reread")
  BY DEF CashCommits
<1>5. row' \in RowType /\ row'.status = row.status /\ row'.mark = row.mark
  <2>1. row \in RowType /\ call[Feed].paid \cup {call[Feed].id} \in SUBSET Ids
    BY <1>1, <1>2, <1>3 DEF TypeInv, TypeOK
  <2>2. row' = [row EXCEPT !.cash = call[Feed].paid \cup {call[Feed].id}]
    BY DEF CashCommits
  <2> QED
    BY <2>1, <2>2, Zenon DEF RowType
<1>6. /\ call' \in [Procs -> CallType] /\ call'[Feed].pc = "reread"
      /\ call'[Feed].obj = call[Feed].obj /\ call'[Feed].legs = call[Feed].legs
      /\ \A q \in Procs \ {Feed} : call'[q] = call[q]
  BY <1>4, Went DEF TypeInv, TypeOK, Pcs
<1>7. DbOK' /\ Len(trades') <= MaxTrades
  BY <1>4, <1>5 DEF DbOK, TypeInv, TypeOK, RowFits
<1>8. CallFits(Feed)' /\ FeedFits'
  BY <1>1, <1>4, <1>5, <1>6 DEF CallFits, FeedFits, TypeInv, memory
<1>9. TypeInv'
  BY <1>4, <1>5, <1>6, <1>7, <1>8, FeedWrites
<1> QED
  BY <1>2, <1>4, <1>5, <1>9 DEF world

LEMMA TradeInstallPreserves ==
  ASSUME TypeInv, TradeInstalls
  PROVE  TypeInv'
<1> USE ConstantsTyped
<1> DEFINE n == call[Feed].obj
           o == [status |-> call[Feed].row.status, cash |-> call[Feed].row.cash,
                 last |-> [obj[n].last EXCEPT ![Inst] = call[Feed].at]]
<1>1. /\ call[Feed] \in CallType /\ call[Feed].pc = "install" /\ Inst \in Instruments
      /\ row.status # "absent" /\ n \in 1..Len(obj) /\ obj[n] \in ActiveType
      /\ call[Feed].row \in RowType /\ call[Feed].at \in 0..MaxTime
  BY FeedFields, CallFields DEF TradeInstalls, At
<1>2. call[Feed].row.status # "absent"
  BY <1>1 DEF TypeInv, CallFits
<1>3. /\ call[Feed].row.status \in Statuses /\ call[Feed].row.cash \in SUBSET Ids
      /\ call[Feed].at \in (-Cooldown)..MaxTime
  BY <1>1, <1>2 DEF RowType
<1>4. o \in ActiveType
  BY <1>1, <1>3 DEF ActiveType
<1>5. obj' = [obj EXCEPT ![n] = o] /\ active' = active /\ UNCHANGED db
  BY DEF TradeInstalls
<1> HIDE DEF o, n
<1>6. obj' \in Seq(ActiveType) /\ Len(obj') = Len(obj)
  BY <1>4, <1>5, SeqExcept DEF TypeInv, TypeOK
<1>7. MemoryOK' /\ Len(obj) <= Len(obj')
  BY <1>5, <1>6 DEF MemoryOK, TypeInv, TypeOK
<1>8. /\ call' \in [Procs -> CallType] /\ call'[Feed].pc = "held"
      /\ call'[Feed].obj = call[Feed].obj /\ call'[Feed].legs = call[Feed].legs
      /\ \A q \in Procs \ {Feed} : call'[q] = call[q]
  BY Went DEF TradeInstalls, TypeInv, TypeOK, Pcs
<1>9. CallFits(Feed)' /\ FeedFits'
  BY <1>1, <1>5, <1>6, <1>8 DEF CallFits, FeedFits, TypeInv, db
<1>10. \A q \in Procs : CallFits(q)'
  BY <1>5, <1>7, <1>8, <1>9, OthersFit DEF db
<1>11. WorldOK'
  <2>1. upset' \subseteq Upsets
    BY UpsetTyped DEF TradeInstalls, NoteStale, Upsets, TypeInv
  <2> QED
    BY <2>1 DEF TradeInstalls, WorldOK, TypeInv, TypeOK
<1>12. RowFits'
  BY <1>5 DEF RowFits, TypeInv, db
<1>13. TypeOK'
  BY <1>5, <1>7, <1>8, <1>11 DEF TypeInv, TypeOK, db, WorldOK, MemoryOK
<1> QED
  BY <1>9, <1>10, <1>12, <1>13 DEF TypeInv

-----------------------------------------------------------------------------
(* The environment. *)
LEMMA CutTyped ==
  ASSUME TypeInv
  PROVE  /\ CutShort \subseteq Ids
         /\ Cutting => CutShort = {Len(trades)}
<1>1. CASE Cutting
  <2>1. call[Feed].id = Len(trades) /\ Len(trades) \in DOMAIN trades
    BY <1>1 DEF Cutting, TypeInv, FeedFits
  <2> QED
    BY <1>1, <2>1 DEF Cutting, CutShort, TypeInv, TypeOK, RowFits, Ids
<1>2. CASE ~Cutting
  BY <1>2 DEF Cutting, CutShort
<1> QED
  BY <1>1, <1>2

LEMMA FaultPreserves ==
  ASSUME TypeInv, NEW p \in Procs, DatabaseFails(p)
  PROVE  TypeInv' /\ call'[p] = Idle /\ \A q \in Procs \ {p} : call'[q] = call[q]
<1>1. UNCHANGED db /\ UNCHANGED memory /\ UNCHANGED <<up, clock, quiet, fed>>
  BY DEF DatabaseFails
<1>2. MemoryOK' /\ Len(obj) <= Len(obj')
  BY <1>1, TypeGroups, MemoryStays DEF TypeInv, TypeOK, memory
<1>3. /\ call' \in [Procs -> CallType] /\ FeedFits' /\ CallFits(p)' /\ call'[p] = Idle
      /\ \A q \in Procs \ {p} : call'[q] = call[q]
  BY <1>1, <1>2, Returned DEF DatabaseFails, db
<1>4. WorldOK'
  <2>1. upset' \subseteq Upsets
    BY UpsetTyped DEF DatabaseFails, Upsets, TypeInv
  <2>2. torn' \subseteq Ids
    BY CutTyped DEF DatabaseFails, TypeInv, TypeOK
  <2>3. count' \in [calls : Nat, mishaps : Nat]
    BY MishapTyped DEF DatabaseFails, TypeInv
  <2> QED
    BY <1>1, <2>1, <2>2, <2>3 DEF WorldOK, TypeInv, TypeOK
<1> QED
  BY <1>1, <1>3, <1>4, CallStep

LEMMA CrashPreserves ==
  ASSUME TypeInv, Crash
  PROVE  TypeInv' /\ \A p \in Procs : call'[p] = Idle
<1>1. UNCHANGED <<db, clock, quiet, fed>> /\ obj' = <<>> /\ active' = 0 /\ up' = FALSE
  BY DEF Crash
<1>2. call' = [p \in Procs |-> Idle]
  BY DEF Crash
<1>3. call' \in [Procs -> CallType] /\ \A p \in Procs : call'[p] = Idle
  BY <1>2, IdleTyped
<1>4. MemoryOK' /\ DbOK' /\ RowFits' /\ Len(obj') = 0
  BY <1>1, TypeGroups, DbStays DEF MemoryOK, RowFits, TypeInv, db
<1>5. WorldOK'
  <2>1. upset' \subseteq Upsets
    BY UpsetTyped DEF Crash, Upsets, TypeInv
  <2>2. torn' \subseteq Ids
    BY CutTyped DEF Crash, TypeInv, TypeOK
  <2>3. count' \in [calls : Nat, mishaps : Nat]
    BY MishapTyped DEF Crash, TypeInv
  <2> QED
    BY <1>1, <2>1, <2>2, <2>3 DEF WorldOK, TypeInv, TypeOK
<1>6. FeedFits' /\ \A p \in Procs : CallFits(p)'
  BY <1>3, <1>4, IdleTyped, ConstantsTyped DEF FeedFits, CallFits
<1> QED
  BY <1>3, <1>4, <1>5, <1>6 DEF TypeInv, TypeOK, MemoryOK, DbOK, WorldOK

(* The process was down: nothing waits. *)
LEMMA RestorePreserves ==
  ASSUME TypeInv, Restores, \A p \in Procs : call[p] = Idle, active = 0
  PROVE  TypeInv'
<1>1. UNCHANGED <<db, call, clock, world, count>> /\ up' = TRUE
  BY DEF Restores
<1>2. MemoryOK' /\ RowFits'
  <2>1. CASE row.status \in {"running", "paused"} /\ obj' = <<Bound(row)>> /\ active' = 1
    <3>1. row \in RowType
      BY DEF TypeInv, TypeOK
    <3>2. row.status \in Statuses /\ row.cash \in SUBSET Ids
      BY <2>1, <3>1 DEF RowType, Statuses
    <3>3. Bound(row) \in ActiveType
      BY <3>2, ConstantsTyped DEF Bound, ActiveType
    <3> QED
      BY <1>1, <2>1, <3>3 DEF MemoryOK, RowFits, TypeInv, db
  <2>2. CASE UNCHANGED memory
    BY <1>1, <2>2, TypeGroups, MemoryStays DEF RowFits, TypeInv, memory, db
  <2> QED
    BY <2>1, <2>2 DEF Restores
<1>3. DbOK' /\ WorldOK'
  BY <1>1, TypeGroups, DbStays DEF TypeInv, TypeOK, WorldOK, world
<1>4. FeedFits' /\ \A p \in Procs : CallFits(p)'
  BY <1>1, <1>2, IdleTyped, ConstantsTyped DEF FeedFits, CallFits, MemoryOK
<1> QED
  BY <1>1, <1>2, <1>3, <1>4 DEF TypeInv, TypeOK, MemoryOK, DbOK, WorldOK

-----------------------------------------------------------------------------
(* While the process is down nothing waits and nothing is held. *)
Down == ~up => active = 0 /\ \A p \in Procs : call[p] = Idle

LEMMA InitTyped == Init => TypeInv /\ Down
<1> SUFFICES ASSUME Init PROVE TypeInv /\ Down
  OBVIOUS
<1>1. \A p \in Procs : call[p] = Idle /\ call \in [Procs -> CallType]
  BY IdleTyped DEF Init
<1>2. DbOK
  <2>1. PICK status \in Statuses \cup {"absent"} : row = [NoRow EXCEPT !.status = status]
    BY DEF Init
  <2>2. row \in RowType
    BY <2>1, ConstantsTyped, Zenon DEF RowType
  <2> QED
    BY <2>2 DEF DbOK, Init
<1>3. MemoryOK /\ RowFits
  BY ConstantsTyped DEF Init, MemoryOK, RowFits
<1>4. WorldOK
  <2>1. fed \in [Ids -> Nat] /\ count \in [calls : Nat, mishaps : Nat]
    BY DEF Init
  <2>2. clock \in 0..MaxTime /\ torn = {} /\ upset = {} /\ up = FALSE /\ quiet = FALSE
    BY ConstantsTyped DEF Init
  <2> QED
    BY <2>1, <2>2 DEF WorldOK
<1>5. FeedFits /\ \A p \in Procs : CallFits(p)
  BY <1>1, IdleTyped, ConstantsTyped DEF FeedFits, CallFits, Init
<1>6. call \in [Procs -> CallType]
  BY IdleTyped DEF Init
<1>7. TypeOK
  BY <1>2, <1>3, <1>4, <1>6 DEF TypeOK, DbOK, MemoryOK, WorldOK
<1> QED
  BY <1>1, <1>3, <1>5, <1>7 DEF TypeInv, Down, Init

LEMMA StutterPreserves ==
  ASSUME TypeInv, UNCHANGED vars
  PROVE  TypeInv'
  BY DEF TypeInv, TypeOK, RowFits, FeedFits, CallFits, vars, db, memory, world

LEMMA TypeStep ==
  ASSUME TypeInv, Down, [Next]_vars
  PROVE  TypeInv'
<1> USE ConstantsTyped
<1>1. ASSUME NEW a \in Admins, Admin(a) PROVE TypeInv'
  BY <1>1, CreatePreserves, SavePreserves, ActivatePreserves, TransitionPreserves,
     LookupPreserves, TransitionInstallPreserves, PopPreserves DEF Admin
<1>2. ASSUME NEW p \in Admins \cup {Poll}, Feedback(p) PROVE TypeInv'
  <2>1. p \in Procs \ {Feed}
    OBVIOUS
  <2> QED
    BY <1>2, <2>1, FeedbackPreserves, LearnPreserves, MarkPreserves,
       FeedbackInstallPreserves DEF Feedback
<1>3. CASE Settle
  BY <1>3, DispatchPreserves, SettlePreserves, SizePreserves, TradePreserves,
     PositionPreserves, CashPreserves, TradeInstallPreserves DEF Settle
<1>4. CASE PollVisits
  BY <1>4, VisitPreserves
<1>5. ASSUME NEW p \in Procs, Rereads(p) \/ Equity(p) \/ DatabaseFails(p) PROVE TypeInv'
  BY <1>5, RereadPreserves, ValuePreserves, PointPreserves, FaultPreserves DEF Equity
<1>6. CASE Crash
  BY <1>6, CrashPreserves
<1>7. CASE Restores
  BY <1>7, RestorePreserves DEF Down, Restores
<1>8. CASE UNCHANGED vars
  BY <1>8, StutterPreserves
<1> QED
  BY <1>1, <1>2, <1>3, <1>4, <1>5, <1>6, <1>7, <1>8 DEF Next

LEMMA DownStep ==
  ASSUME TypeInv, Down, [Next]_vars
  PROVE  Down'
<1>1. CASE Crash
  BY <1>1, CrashPreserves DEF Down, Crash
<1>2. CASE Restores
  BY <1>2 DEF Down, Restores
<1>3. CASE UNCHANGED vars
  BY <1>3 DEF Down, vars, memory
<1>4. CASE Next /\ ~Crash /\ ~Restores
  <2>1. up /\ up' = up
    BY <1>4 DEF Next, Admin, Feedback, Settle, Equity, At, Called, CreateRun, SaveCommits,
       Activates, TransitionRun, LookupReads, WriteCommits, TransitionInstalls, StopPops,
       ApplyFeedback, Learns, MarkCommits, FeedbackInstalls, Dispatches, SettleBegins, Sizes,
       TradeCommits, PositionCommits, CashCommits, TradeInstalls, PollVisits, Rereads, Values,
       PointCommits, DatabaseFails
  <2> QED
    BY <2>1 DEF Down
<1> QED
  BY <1>1, <1>2, <1>3, <1>4

LEMMA Typed == Spec => [](TypeInv /\ Down)
<1>1. TypeInv /\ Down /\ [Next]_vars => TypeInv' /\ Down'
  BY TypeStep, DownStep
<1> QED
  BY <1>1, InitTyped, PTL DEF Spec

(* Types, and the bounds they state: nothing waits for an object that was  *)
(* not bound, or for a row that does not exist.                            *)
THEOREM TypeCorrect == Spec => []TypeOK
<1>1. TypeInv => TypeOK
  BY DEF TypeInv
<1> QED
  BY <1>1, Typed, PTL

-----------------------------------------------------------------------------
(* The positions and the trades.  Only the feed and what cuts it short     *)
(* touch what is accounted for.                                            *)
LEMMA AccountsStay ==
  ASSUME PositionsAccount, UNCHANGED <<trades, pos>>, Done' \subseteq Done
  PROVE  PositionsAccount'
  BY DEF PositionsAccount

LEMMA DoneStays ==
  ASSUME UNCHANGED <<trades, torn>>, Cutting => Cutting'
  PROVE  Done' \subseteq Done
  BY DEF Done

(* Only the steps of the feed move it. *)
LEMMA FeedUnmoved ==
  ASSUME TypeInv,
         \/ \E a \in Admins : Admin(a)
         \/ \E p \in Admins \cup {Poll} : Feedback(p)
         \/ PollVisits
         \/ \E p \in Procs \ {Feed} : Rereads(p) \/ Equity(p)
  PROVE  call'[Feed] = call[Feed] /\ UNCHANGED <<trades, pos, torn>>
<1> USE ConstantsTyped
<1>1. ASSUME NEW a \in Admins, Admin(a)
      PROVE  call'[Feed] = call[Feed] /\ UNCHANGED <<trades, pos, torn>>
  <2>1. PICK c : call' = [call EXCEPT ![a] = c]
    BY <1>1 DEF Admin, CreateRun, SaveCommits, Activates, TransitionRun, LookupReads,
                WriteCommits, TransitionInstalls, StopPops, Goto, Return
  <2>2. UNCHANGED <<trades, pos, torn>>
    BY <1>1 DEF Admin, CreateRun, SaveCommits, Activates, TransitionRun, LookupReads,
                WriteCommits, TransitionInstalls, StopPops, db, world
  <2> QED
    BY <2>1, <2>2
<1>2. ASSUME NEW p \in Admins \cup {Poll}, Feedback(p)
      PROVE  call'[Feed] = call[Feed] /\ UNCHANGED <<trades, pos, torn>>
  <2>1. PICK c : call' = [call EXCEPT ![p] = c]
    BY <1>2 DEF Feedback, ApplyFeedback, Learns, MarkCommits, FeedbackInstalls, Goto, Return
  <2>2. UNCHANGED <<trades, pos, torn>>
    BY <1>2 DEF Feedback, ApplyFeedback, Learns, MarkCommits, FeedbackInstalls, db, world
  <2> QED
    BY <2>1, <2>2
<1>3. CASE PollVisits
  BY <1>3 DEF PollVisits, db, world
<1>4. ASSUME NEW p \in Procs \ {Feed}, Rereads(p) \/ Equity(p)
      PROVE  call'[Feed] = call[Feed] /\ UNCHANGED <<trades, pos, torn>>
  <2>1. PICK c : call' = [call EXCEPT ![p] = c]
    BY <1>4 DEF Equity, Rereads, Values, PointCommits, Return
  <2>2. UNCHANGED <<trades, pos, torn>>
    BY <1>4 DEF Equity, Rereads, Values, PointCommits, db, world
  <2> QED
    BY <2>1, <2>2
<1> QED
  BY <1>1, <1>2, <1>3, <1>4

LEMMA AccountStep ==
  ASSUME TypeInv, PositionsAccount, [Next]_vars
  PROVE  PositionsAccount'
<1> USE ConstantsTyped
<1>0. trades \in Seq(TradeType) /\ Len(trades) \in Nat /\ DOMAIN trades = 1..Len(trades)
  BY DEF TypeInv, TypeOK
<1>1. CASE TradeCommits
  <2>1. /\ trades' = Append(trades, Filled) /\ pos' = pos /\ torn' = torn
        /\ call'[Feed].pc = "position"
    BY <1>1, TradePreserves DEF TradeCommits, world
  <2>2. /\ DOMAIN trades' = 1..(Len(trades) + 1) /\ Len(trades') = Len(trades) + 1
        /\ \A t \in DOMAIN trades : trades'[t] = trades[t]
    BY <1>0, <2>1
  <2>3. Done' \subseteq Done /\ DOMAIN trades \subseteq DOMAIN trades'
    <3>1. call[Feed].pc = "trade"
      BY <1>1 DEF TradeCommits, At
    <3> QED
      BY <1>0, <2>1, <2>2, <3>1 DEF Done, Cutting
  <2>4. Done \subseteq DOMAIN trades
    BY DEF Done
  <2> QED
    BY <2>1, <2>2, <2>3, <2>4 DEF PositionsAccount
<1>2. CASE PositionCommits
  <2>1. /\ trades' = trades /\ torn' = torn
        /\ pos' = [pos EXCEPT ![Inst] = @ \cup {Len(trades)}]
        /\ trades[Len(trades)].inst = Inst /\ Len(trades) \in DOMAIN trades
        /\ call'[Feed].pc = "cash" /\ call[Feed].pc = "position"
    BY <1>2, PositionPreserves
  <2>2. Done' = Done
    BY <2>1 DEF Done, Cutting
  <2>3. \A i \in Instruments : pos'[i] = pos[i] \cup IF i = Inst THEN {Len(trades)} ELSE {}
    BY <2>1 DEF TypeInv, TypeOK
  <2> QED
    BY <2>1, <2>2, <2>3 DEF PositionsAccount
<1>3. CASE CashCommits
  <2>1. /\ UNCHANGED <<trades, pos, torn>>
        /\ Len(trades) \in pos[Inst] /\ trades[Len(trades)].inst = Inst
    BY <1>3, CashPreserves
  <2>2. Done' \subseteq Done \cup {Len(trades)}
    BY <2>1 DEF Done
  <2> QED
    BY <2>1, <2>2 DEF PositionsAccount
<1>4. CASE Dispatches \/ SettleBegins \/ Sizes \/ TradeInstalls
  <2>1. UNCHANGED <<trades, pos, torn>> /\ ~Cutting
    BY <1>4 DEF Dispatches, SettleBegins, Sizes, TradeInstalls, At, Cutting, db, world
  <2> QED
    BY <2>1, AccountsStay, DoneStays
<1>5. CASE Rereads(Feed) \/ Equity(Feed)
  <2>1. UNCHANGED <<trades, pos, torn>> /\ ~Cutting
    BY <1>5 DEF Rereads, Equity, Values, PointCommits, At, Cutting, db, world
  <2> QED
    BY <2>1, AccountsStay, DoneStays
<1>6. CASE \/ \E a \in Admins : Admin(a)
           \/ \E p \in Admins \cup {Poll} : Feedback(p)
           \/ PollVisits
           \/ \E p \in Procs \ {Feed} : Rereads(p) \/ Equity(p)
  <2>1. call'[Feed] = call[Feed] /\ UNCHANGED <<trades, pos, torn>>
    BY <1>6, FeedUnmoved
  <2> QED
    BY <2>1, AccountsStay, DoneStays DEF Cutting
<1>7. ASSUME NEW p \in Procs, DatabaseFails(p) PROVE PositionsAccount'
  <2>1. UNCHANGED <<trades, pos>>
    BY <1>7 DEF DatabaseFails, db
  <2>2. Done' \subseteq Done
    <3>1. CASE p = Feed
      BY <1>7, <2>1, <3>1, CutTyped DEF DatabaseFails, Done
    <3>2. CASE p # Feed
      BY <1>7, <2>1, <3>2, FaultPreserves DEF DatabaseFails, Done, Cutting
    <3> QED
      BY <3>1, <3>2
  <2> QED
    BY <2>1, <2>2, AccountsStay
<1>8. CASE Crash
  <2>1. UNCHANGED <<trades, pos>> /\ torn' = torn \cup CutShort
    BY <1>8 DEF Crash, db
  <2>2. Done' \subseteq Done
    BY <2>1, CutTyped DEF Done
  <2> QED
    BY <2>1, <2>2, AccountsStay
<1>9. CASE Restores \/ UNCHANGED vars
  <2>1. UNCHANGED <<trades, pos, torn, call>>
    BY <1>9 DEF Restores, vars, db, world
  <2> QED
    BY <2>1, AccountsStay, DoneStays DEF Cutting
<1> QED
  BY <1>1, <1>2, <1>3, <1>4, <1>5, <1>6, <1>7, <1>8, <1>9 DEF Next, Settle

(* _process_signal: the positions account for every trade, and only for    *)
(* trades of their instrument, whatever else is called meanwhile.          *)
THEOREM TradesAreHeld == Spec => []PositionsAccount
<1>1. Init => PositionsAccount
  BY DEF Init, PositionsAccount, Done
<1>2. TypeInv /\ PositionsAccount /\ [Next]_vars => PositionsAccount'
  BY AccountStep
<1> QED
  BY <1>1, <1>2, Typed, PTL DEF Spec

-----------------------------------------------------------------------------
(* A stopped run.  Unless life cycle calls overlap or an error breaks one  *)
(* off, a run whose row says stopped has no object, or the one stop that   *)
(* wrote the row is about to take it out of _active; and no call is left   *)
(* that would write another status or enter an object.                     *)
Stopping(a) == call[a].kind = "stopped" /\ call[a].pc \in {"reread", "install", "pop"}
Going(a) ==
  /\ Transitioning(a) /\ call[a].kind # "stopped"
  /\ call[a].pc \in {"save", "activate", "write", "reread", "install"}

Alone == \A a, b \in Admins : Transitioning(a) /\ Transitioning(b) => a = b
Still ==
  row.status = "stopped" =>
    /\ active # 0 => \E a \in Admins : Stopping(a)
    /\ \A a \in Admins : ~Going(a)
Undisturbed == Free({"transitions", "fault"})

(* What the place of a call says of its kind. *)
Kinded(p) ==
  /\ call[p].pc \in {"save", "activate"} => call[p].kind = "create"
  /\ call[p].pc = "pop" => call[p].kind = "stopped"
  /\ call[p].pc \in {"learn", "mark"} => call[p].kind = "feedback"

StopInv == (\A p \in Procs : Kinded(p)) /\ (Undisturbed => Alone /\ Still)

(* A step of p that begins no transition and ends no stop. *)
LEMMA StopKept ==
  ASSUME StopInv, NEW p \in Procs, Kinded(p)',
         \A q \in Procs \ {p} : call'[q] = call[q],
         Undisturbed' => Undisturbed,
         row'.status = row.status, active' \in {active, 0},
         Transitioning(p)' => Transitioning(p),
         active' # 0 /\ Stopping(p) => Stopping(p)', Going(p)' => Going(p)
  PROVE  StopInv'
<1> USE ConstantsTyped
<1>1. \A q \in Procs : Kinded(q)'
  BY DEF StopInv, Kinded
<1>2. ASSUME Undisturbed' PROVE Alone'
  <2>1. \A a \in Admins : Transitioning(a)' => Transitioning(a)
    BY DEF Transitioning
  <2> QED
    BY <1>2, <2>1 DEF StopInv, Alone
<1>3. ASSUME Undisturbed' PROVE Still'
  <2>1. \A a \in Admins : /\ active' # 0 /\ Stopping(a) => Stopping(a)'
                          /\ Going(a)' => Going(a)
    BY DEF Stopping, Going, Transitioning
  <2> QED
    BY <1>3, <2>1 DEF StopInv, Still
<1> QED
  BY <1>1, <1>2, <1>3 DEF StopInv

(* The feed and the poll have no part in it. *)
LEMMA StopElsewhere ==
  ASSUME StopInv, \A a \in Admins : call'[a] = call[a], \A p \in Procs : Kinded(p)',
         Undisturbed' => Undisturbed, row'.status = row.status, active' = active
  PROVE  StopInv'
  BY DEF StopInv, Alone, Still, Transitioning, Stopping, Going

LEMMA UpsetKept == ASSUME upset \subseteq upset' PROVE Undisturbed' => Undisturbed
  BY DEF Undisturbed, Free

LEMMA Overlapped ==
  ASSUME NEW a \in Admins, Overlaps(a)
  PROVE  /\ Undisturbed' => Undisturbed
         /\ Undisturbed' => \A b \in Admins \ {a} : ~Transitioning(b)
  BY DEF Overlaps, Upset, Undisturbed, Free

LEMMA StopCreate ==
  ASSUME TypeInv, StopInv, NEW a \in Admins, CreateRun(a)
  PROVE  StopInv'
<1> USE ConstantsTyped
<1> DEFINE c == [Idle EXCEPT !.pc = "save", !.kind = "create", !.obj = 1]
<1>1. c.pc = "save" /\ c.kind = "create"
  BY DEF Idle
<1>2. call' = [call EXCEPT ![a] = c] /\ row' = row /\ row.status = "absent" /\ Overlaps(a)
  BY DEF CreateRun, db, NoRow
<1> HIDE DEF c
<1>3. call'[a] = c /\ \A q \in Procs \ {a} : call'[q] = call[q]
  BY <1>2 DEF TypeInv, TypeOK
<1>4. \A q \in Procs : Kinded(q)'
  BY <1>1, <1>3 DEF StopInv, Kinded
<1>5. Undisturbed' => Alone'
  BY <1>2, <1>3, Overlapped DEF Alone, Transitioning
<1>6. Still'
  BY <1>2 DEF Still
<1> QED
  BY <1>4, <1>5, <1>6 DEF StopInv

LEMMA StopTransition ==
  ASSUME TypeInv, StopInv, NEW a \in Admins, NEW status \in Statuses, TransitionRun(a, status)
  PROVE  StopInv'
<1> USE ConstantsTyped
<1> DEFINE pc == IF active = 0 THEN "lookup" ELSE "write"
           c  == [Idle EXCEPT !.pc = pc, !.kind = status, !.obj = active]
<1>1. c.pc = pc /\ c.kind = status
  BY DEF Idle
<1>2. /\ call' = [call EXCEPT ![a] = c] /\ row' = row /\ active' = active /\ Overlaps(a)
      /\ call[a].pc = "idle"
  BY DEF TransitionRun, db, memory, Called, At
<1> HIDE DEF c
<1>3. call'[a] = c /\ \A q \in Procs \ {a} : call'[q] = call[q]
  BY <1>2 DEF TypeInv, TypeOK
<1>4. \A q \in Procs : Kinded(q)'
  BY <1>1, <1>3 DEF StopInv, Kinded
<1>5. ASSUME Undisturbed' PROVE Alone' /\ Still'
  <2>1. Undisturbed /\ \A b \in Admins \ {a} : ~Transitioning(b)
    BY <1>2, <1>5, Overlapped
  <2>2. Alone'
    BY <1>3, <2>1 DEF Alone, Transitioning
  <2>3. row.status = "stopped" => active = 0
    BY <1>2, <2>1 DEF StopInv, Still, Stopping, Transitioning
  <2>4. \A b \in Admins \ {a} : ~Going(b)'
    BY <1>3, <2>1 DEF Going, Transitioning
  <2>5. row.status = "stopped" => ~Going(a)'
    BY <1>1, <1>3, <2>3 DEF Going
  <2> QED
    BY <1>2, <2>2, <2>3, <2>4, <2>5 DEF Still
<1> QED
  BY <1>4, <1>5 DEF StopInv

LEMMA StopSave ==
  ASSUME TypeInv, StopInv, NEW a \in Admins, SaveCommits(a) \/ WriteCommits(a)
  PROVE  /\ StopInv'
         /\ Undisturbed /\ row.status = "stopped" => row'.status = "stopped"
<1> USE ConstantsTyped
<1>1. PICK pc \in {"activate", "reread"} : Goto(a, pc)
  BY DEF SaveCommits, WriteCommits
<1>2. /\ call'[a].pc = pc /\ call'[a].kind = call[a].kind
      /\ \A q \in Procs \ {a} : call'[q] = call[q]
  BY <1>1, Went DEF TypeInv, TypeOK, Pcs
<1>3. active' = active /\ upset' = upset
  BY DEF SaveCommits, WriteCommits, memory, world
<1>4. CASE SaveCommits(a)
  <2>1. row'.status = "paused" /\ call[a].kind = "create" /\ call[a].pc = "save"
    BY <1>4 DEF SaveCommits, StopInv, Kinded, At, NoRow
  <2>2. call'[a].pc = "activate"
    BY <1>4, Went DEF SaveCommits, TypeInv, TypeOK, Pcs
  <2>3. \A q \in Procs : Kinded(q)'
    BY <1>2, <2>1, <2>2 DEF StopInv, Kinded
  <2>4. Undisturbed' => Alone'
    BY <1>2, <1>3 DEF StopInv, Alone, Transitioning, Undisturbed, Free
  <2>5. ~(Undisturbed /\ row.status = "stopped")
    BY <2>1 DEF StopInv, Still, Going, Transitioning
  <2> QED
    BY <2>1, <2>3, <2>4, <2>5 DEF StopInv, Still
<1>5. CASE WriteCommits(a)
  <2>1. call[a].pc = "write" /\ call[a].kind \in Statuses
    BY <1>5 DEF WriteCommits, TypeInv, CallFits, At
  <2>2. row'.status = call[a].kind
    BY <1>5 DEF WriteCommits, TypeInv, TypeOK, RowType
  <2>3. call'[a].pc = "reread"
    BY <1>5, Went DEF WriteCommits, TypeInv, TypeOK, Pcs
  <2>4. \A q \in Procs : Kinded(q)'
    BY <1>2, <2>1, <2>3 DEF StopInv, Kinded
  <2>5. Undisturbed' => Alone'
    BY <1>2, <1>3 DEF StopInv, Alone, Transitioning, Undisturbed, Free
  <2>6. ASSUME Undisturbed', row'.status = "stopped" PROVE Still'
    <3>1. Stopping(a)'
      BY <1>2, <2>2, <2>3, <2>6 DEF Stopping
    <3>2. \A b \in Admins : ~Going(b)'
      BY <1>2, <2>1, <2>2, <2>5, <2>6 DEF Alone, Going, Transitioning, Statuses
    <3> QED
      BY <3>1, <3>2 DEF Still
  <2>7. Undisturbed /\ row.status = "stopped" => call[a].kind = "stopped"
    BY <2>1 DEF StopInv, Still, Going, Transitioning, Statuses
  <2> QED
    BY <2>2, <2>4, <2>5, <2>6, <2>7 DEF StopInv, Still
<1> QED
  BY <1>4, <1>5

LEMMA StopActivate ==
  ASSUME TypeInv, StopInv, NEW a \in Admins, Activates(a)
  PROVE  StopInv'
<1> USE ConstantsTyped
<1>1. /\ call'[a] = Idle /\ \A q \in Procs \ {a} : call'[q] = call[q]
      /\ row' = row /\ upset' = upset
  BY DEF Activates, Return, TypeInv, TypeOK, db, world
<1>2. call[a].pc = "activate" /\ call[a].kind = "create"
  BY DEF Activates, At, StopInv, Kinded
<1>3. \A q \in Procs : Kinded(q)'
  BY <1>1, IdleTyped DEF StopInv, Kinded
<1>4. Undisturbed' => Alone'
  BY <1>1, IdleTyped DEF StopInv, Alone, Transitioning, Undisturbed, Free
<1>5. Undisturbed => row.status # "stopped"
  BY <1>2 DEF StopInv, Still, Going, Transitioning
<1> QED
  BY <1>1, <1>3, <1>4, <1>5 DEF StopInv, Still, Undisturbed, Free

(* A call that returns, or was not a stop, or whose stop found no object. *)
LEMMA StopReturn ==
  ASSUME TypeInv, StopInv, NEW p \in Procs, call'[p].pc \in {"idle", "held"},
         call'[p].kind = "none", \A q \in Procs \ {p} : call'[q] = call[q],
         upset \subseteq upset', row'.status = row.status, active' \in {active, 0},
         active' # 0 => ~Stopping(p)
  PROVE  StopInv'
<1>1. Kinded(p)' /\ ~Transitioning(p)' /\ ~Going(p)'
  BY DEF Kinded, Transitioning, Going
<1> QED
  BY <1>1, StopKept, UpsetKept

LEMMA StopLookup ==
  ASSUME TypeInv, StopInv, NEW a \in Admins, LookupReads(a)
  PROVE  StopInv'
<1> USE ConstantsTyped
<1>1. row' = row /\ active' = active /\ upset' = upset /\ call[a].pc = "lookup"
  BY DEF LookupReads, db, memory, world, At
<1>2. CASE Return(a)
  <2>1. call'[a] = Idle /\ \A q \in Procs \ {a} : call'[q] = call[q]
    BY <1>2 DEF Return, TypeInv, TypeOK
  <2> QED
    BY <1>1, <2>1, IdleTyped, StopReturn DEF Stopping
<1>3. CASE row.status \in AllowedFrom(call[a].kind) /\ Goto(a, "write")
  <2>1. /\ call'[a].pc = "write" /\ call'[a].kind = call[a].kind
        /\ \A q \in Procs \ {a} : call'[q] = call[q]
    BY <1>3, Went DEF TypeInv, TypeOK, Pcs
  <2>2. row.status # "stopped"
    BY <1>1, <1>3 DEF AllowedFrom, TypeInv, CallFits, Statuses
  <2>3. \A q \in Procs : Kinded(q)'
    BY <2>1 DEF StopInv, Kinded
  <2>4. Undisturbed' => Alone'
    BY <1>1, <2>1 DEF StopInv, Alone, Transitioning, Undisturbed, Free
  <2> QED
    BY <1>1, <2>2, <2>3, <2>4 DEF StopInv, Still
<1> QED
  BY <1>2, <1>3 DEF LookupReads

(* A call that goes on with what it is about. *)
LEMMA StopGoesOn ==
  ASSUME TypeInv, StopInv, NEW p \in Procs,
         Rereads(p) \/ Values(p) \/ Learns(p) \/ MarkCommits(p)
  PROVE  StopInv'
<1>1. /\ \A q \in Procs \ {p} : call'[q] = call[q]
      /\ call'[p].kind = call[p].kind
      /\ \/ call[p].pc = "reread" /\ call'[p].pc = "install"
         \/ call[p].pc = "held" /\ call'[p].pc = "point"
         \/ call[p].pc = "learn" /\ call'[p].pc \in {"mark", "reread"}
         \/ call[p].pc = "mark" /\ call'[p].pc = "reread"
  <2>1. call[p] \in CallType /\ call \in [Procs -> CallType]
    BY DEF TypeInv, TypeOK
  <2>2. CASE Rereads(p)
    BY <2>1, <2>2 DEF Rereads, At, CallType
  <2>3. CASE Values(p)
    BY <2>1, <2>3 DEF Values, At, CallType
  <2>4. CASE Learns(p)
    BY <2>4, Learned DEF Learns, At
  <2>5. CASE MarkCommits(p)
    BY <2>1, <2>5, Went DEF MarkCommits, At, Pcs
  <2> QED
    BY <2>2, <2>3, <2>4, <2>5
<1>2. row'.status = row.status /\ active' = active /\ upset' = upset
  <2>1. CASE MarkCommits(p)
    BY <2>1 DEF MarkCommits, TypeInv, TypeOK, RowType, memory, world
  <2>2. CASE Rereads(p) \/ Values(p) \/ Learns(p)
    BY <2>2 DEF Rereads, Values, Learns, db, memory, world
  <2> QED
    BY <2>1, <2>2
<1>3. Kinded(p) /\ Kinded(p)'
  BY <1>1 DEF StopInv, Kinded
<1>4. /\ Transitioning(p)' => Transitioning(p)
      /\ Stopping(p) => Stopping(p)'
      /\ Going(p)' => Going(p)
  BY <1>1, <1>3 DEF Transitioning, Stopping, Going, Kinded
<1> QED
  BY <1>1, <1>2, <1>3, <1>4, StopKept, UpsetKept

LEMMA StopInstall ==
  ASSUME TypeInv, StopInv, NEW a \in Admins, TransitionInstalls(a)
  PROVE  StopInv'
<1> USE ConstantsTyped
<1>1. /\ row' = row /\ upset \subseteq upset' /\ call[a].pc = "install"
      /\ call[a].kind \in Statuses
  BY DEF TransitionInstalls, db, NoteStale, Upset, At
<1>2. CASE call[a].kind = "stopped"
  <2>1. Goto(a, "pop") /\ active' = active
    BY <1>2 DEF TransitionInstalls, memory
  <2>2. /\ call'[a].pc = "pop" /\ call'[a].kind = "stopped"
        /\ \A q \in Procs \ {a} : call'[q] = call[q]
    BY <1>2, <2>1, Went DEF TypeInv, TypeOK, Pcs
  <2>3. /\ Kinded(a)' /\ Transitioning(a) /\ Stopping(a)' /\ ~Going(a)'
    BY <1>2, <2>2 DEF Kinded, Transitioning, Stopping, Going
  <2> QED
    BY <1>1, <2>1, <2>2, <2>3, StopKept, UpsetKept
<1>3. CASE call[a].kind # "stopped"
  <2>1. call'[a] = Idle /\ \A q \in Procs \ {a} : call'[q] = call[q]
    BY <1>3 DEF TransitionInstalls, Return, TypeInv, TypeOK
  <2>2. Undisturbed => row.status # "stopped"
    BY <1>1, <1>3 DEF StopInv, Still, Going, Transitioning, Statuses
  <2>3. \A q \in Procs : Kinded(q)'
    BY <2>1, IdleTyped DEF StopInv, Kinded
  <2>4. Undisturbed' => Alone'
    BY <1>1, <2>1, IdleTyped, UpsetKept DEF StopInv, Alone, Transitioning
  <2> QED
    BY <1>1, <2>2, <2>3, <2>4, UpsetKept DEF StopInv, Still
<1> QED
  BY <1>2, <1>3

LEMMA StopPop ==
  ASSUME TypeInv, StopInv, NEW a \in Admins, StopPops(a)
  PROVE  StopInv'
<1> USE ConstantsTyped
<1> DEFINE c == [Idle EXCEPT !.pc = "held", !.obj = active]
<1>1. c.pc = "held" /\ c.kind = "none"
  BY DEF Idle
<1>2. PICK d \in {Idle, c} : call' = [call EXCEPT ![a] = d]
  BY DEF StopPops, Return
<1> HIDE DEF c
<1>3. call'[a] = d /\ \A q \in Procs \ {a} : call'[q] = call[q]
  BY <1>2 DEF TypeInv, TypeOK
<1>4. row' = row /\ upset' = upset /\ active' = 0
  BY DEF StopPops, db, world
<1> QED
  BY <1>1, <1>3, <1>4, IdleTyped, StopReturn

LEMMA StopFeedback ==
  ASSUME TypeInv, StopInv, NEW p \in Procs, ApplyFeedback(p) \/ FeedbackInstalls(p)
  PROVE  StopInv'
<1>1. CASE ApplyFeedback(p)
  <2> DEFINE c == [Idle EXCEPT !.pc = "learn", !.kind = "feedback", !.obj = active]
  <2>1. c.pc = "learn" /\ c.kind = "feedback"
    BY DEF Idle
  <2>2. /\ call' = [call EXCEPT ![p] = c] /\ row' = row /\ active' = active
        /\ upset \subseteq upset' /\ call[p].pc = "idle"
    BY <1>1 DEF ApplyFeedback, db, memory, Upset, Called, At
  <2> HIDE DEF c
  <2>3. call'[p] = c /\ \A q \in Procs \ {p} : call'[q] = call[q]
    BY <2>2 DEF TypeInv, TypeOK
  <2>4. /\ Kinded(p)' /\ ~Transitioning(p)' /\ ~Stopping(p) /\ ~Going(p)'
    BY <2>1, <2>2, <2>3 DEF Kinded, Transitioning, Stopping, Going
  <2> QED
    BY <2>2, <2>3, <2>4, StopKept, UpsetKept
<1>2. CASE FeedbackInstalls(p)
  <2>1. call'[p] = Idle /\ \A q \in Procs \ {p} : call'[q] = call[q]
    BY <1>2 DEF FeedbackInstalls, Return, TypeInv, TypeOK
  <2>2. /\ row' = row /\ active' = active /\ upset \subseteq upset' /\ ~Stopping(p)
    BY <1>2 DEF FeedbackInstalls, db, NoteStale, Upset, Stopping
  <2> QED
    BY <2>1, <2>2, IdleTyped, StopReturn
<1> QED
  BY <1>1, <1>2

LEMMA StopPoint ==
  ASSUME TypeInv, StopInv, NEW p \in Procs \ {Feed}, PointCommits(p)
  PROVE  StopInv'
<1>1. call'[p] = Idle /\ \A q \in Procs \ {p} : call'[q] = call[q]
  BY DEF PointCommits, Return, TypeInv, TypeOK
<1>2. /\ row' = row /\ active' = active /\ upset' = upset /\ ~Stopping(p)
  BY DEF PointCommits, At, db, memory, world, Stopping
<1> QED
  BY <1>1, <1>2, IdleTyped, StopReturn

(* The feed's own steps, and a visit of the poll. *)
LEMMA StopFeed ==
  ASSUME TypeInv, StopInv, Settle \/ PollVisits \/ PointCommits(Feed)
  PROVE  StopInv'
<1> USE ConstantsTyped
<1> DEFINE Places == {"idle", "leg", "sizing", "trade", "position", "cash", "reread", "held"}
<1>1. /\ active' = active /\ upset \subseteq upset'
  BY DEF Settle, Dispatches, SettleBegins, Sizes, TradeCommits, PositionCommits, CashCommits,
         TradeInstalls, PollVisits, PointCommits, NoteStale, Upset, memory, world
<1>2. row'.status = row.status
  <2>1. CASE CashCommits
    BY <2>1, CashPreserves
  <2>2. CASE ~CashCommits
    BY <2>2 DEF Settle, Dispatches, SettleBegins, Sizes, TradeCommits, PositionCommits,
         TradeInstalls, PollVisits, PointCommits, db
  <2> QED
    BY <2>1, <2>2
<1>3. PICK p \in {Feed, Poll} :
        call'[p].pc \in Places /\ \A q \in Procs \ {p} : call'[q] = call[q]
  <2>0. call[Feed] \in CallType /\ call \in [Procs -> CallType]
    BY DEF TypeInv, TypeOK
  <2>1. ASSUME NEW pc \in {"cash", "reread", "held"}, Goto(Feed, pc)
        PROVE  call'[Feed].pc \in Places /\ \A q \in Procs \ {Feed} : call'[q] = call[q]
    BY <2>0, <2>1, Went DEF Pcs
  <2>2. ASSUME Skip
        PROVE  call'[Feed].pc \in Places /\ \A q \in Procs \ {Feed} : call'[q] = call[q]
    <3>1. NextLeg.pc \in Places
      BY DEF NextLeg, Idle
    <3>2. call' = [call EXCEPT ![Feed] = NextLeg]
      BY <2>2 DEF Skip
    <3> QED
      BY <2>0, <3>1, <3>2
  <2>3. CASE PollVisits
    BY <2>0, <2>3 DEF PollVisits, Idle
  <2>4. CASE Dispatches
    BY <2>0, <2>4 DEF Dispatches, Idle
  <2>5. CASE SettleBegins
    <3>1. ASSUME NEW now, Settles(now)
          PROVE  call'[Feed].pc = "sizing" /\ \A q \in Procs \ {Feed} : call'[q] = call[q]
      BY <2>0, <3>1 DEF Settles, CallType
    <3> QED
      BY <2>2, <2>5, <3>1 DEF SettleBegins
  <2>6. CASE Sizes
    <3>1. ASSUME NEW closed,
                 call' = [call EXCEPT ![Feed].pc = "trade", ![Feed].closed = closed,
                                      ![Feed].paid = Record.cash]
          PROVE  call'[Feed].pc = "trade" /\ \A q \in Procs \ {Feed} : call'[q] = call[q]
      BY <2>0, <3>1 DEF CallType
    <3> QED
      BY <2>2, <2>6, <3>1 DEF Sizes
  <2>7. CASE TradeCommits
    BY <2>0, <2>7 DEF TradeCommits, CallType
  <2>8. CASE PositionCommits \/ CashCommits \/ TradeInstalls
    BY <2>1, <2>8 DEF PositionCommits, CashCommits, TradeInstalls
  <2>9. CASE PointCommits(Feed)
    BY <2>2, <2>9 DEF PointCommits
  <2> QED
    BY <2>3, <2>4, <2>5, <2>6, <2>7, <2>8, <2>9 DEF Settle
<1>4. \A q \in Procs : Kinded(q)'
  BY <1>3 DEF StopInv, Kinded
<1>5. \A a \in Admins : call'[a] = call[a]
  BY <1>3
<1> QED
  BY <1>1, <1>2, <1>4, <1>5, StopElsewhere, UpsetKept

LEMMA StopEnvironment ==
  ASSUME TypeInv, Down, StopInv, (\E p \in Procs : DatabaseFails(p)) \/ Crash \/ Restores
  PROVE  StopInv'
<1> USE ConstantsTyped
<1>1. ASSUME NEW p \in Procs, DatabaseFails(p) PROVE StopInv'
  <2>1. call'[p] = Idle /\ \A q \in Procs \ {p} : call'[q] = call[q]
    BY <1>1, FaultPreserves
  <2>2. \A q \in Procs : Kinded(q)'
    BY <2>1, IdleTyped DEF StopInv, Kinded
  <2>3. ~Undisturbed'
    BY <1>1 DEF DatabaseFails, Upset, Undisturbed, Free
  <2> QED
    BY <2>2, <2>3 DEF StopInv
<1>2. CASE Crash
  <2>1. (\A p \in Procs : call'[p] = Idle) /\ active' = 0
    BY <1>2, CrashPreserves DEF Crash
  <2> QED
    BY <2>1, IdleTyped DEF StopInv, Kinded, Alone, Still, Transitioning, Going
<1>3. CASE Restores
  <2>1. row' = row /\ call' = call /\ upset' = upset /\ active = 0
    BY <1>3 DEF Restores, db, world, Down
  <2>2. row.status = "stopped" => active' = 0
    BY <1>3, <2>1 DEF Restores, memory
  <2> QED
    BY <2>1, <2>2 DEF StopInv, Kinded, Alone, Still, Transitioning, Stopping, Going,
                     Undisturbed, Free
<1> QED
  BY <1>1, <1>2, <1>3

LEMMA StopStep ==
  ASSUME TypeInv, Down, StopInv, [Next]_vars
  PROVE  StopInv'
<1> USE ConstantsTyped
<1>1. ASSUME NEW a \in Admins, Admin(a) PROVE StopInv'
  BY <1>1, StopCreate, StopSave, StopActivate, StopTransition, StopLookup, StopInstall, StopPop
     DEF Admin
<1>2. ASSUME NEW p \in Admins \cup {Poll}, Feedback(p) PROVE StopInv'
  BY <1>2, StopFeedback, StopGoesOn DEF Feedback
<1>3. CASE Settle \/ PollVisits
  BY <1>3, StopFeed
<1>4. ASSUME NEW p \in Procs, Rereads(p) \/ Equity(p) PROVE StopInv'
  BY <1>4, StopGoesOn, StopPoint, StopFeed DEF Equity
<1>5. CASE (\E p \in Procs : DatabaseFails(p)) \/ Crash \/ Restores
  BY <1>5, StopEnvironment
<1>6. CASE UNCHANGED vars
  BY <1>6 DEF StopInv, Kinded, Alone, Still, Transitioning, Stopping, Going, Undisturbed, Free,
             vars, db, memory, world
<1> QED
  BY <1>1, <1>2, <1>3, <1>4, <1>5, <1>6 DEF Next

LEMMA StatusStep ==
  ASSUME TypeInv, StopInv, [Next]_vars, row.status = "stopped", Free({"transitions", "fault"})
  PROVE  row'.status = "stopped"
<1> USE ConstantsTyped
<1>1. ASSUME NEW a \in Admins, SaveCommits(a) \/ WriteCommits(a) PROVE row'.status = "stopped"
  BY <1>1, StopSave DEF Undisturbed
<1>2. ASSUME NEW p \in Procs, MarkCommits(p) PROVE row'.status = "stopped"
  BY <1>2 DEF MarkCommits, TypeInv, TypeOK, RowType
<1>3. CASE CashCommits
  BY <1>3, CashPreserves
<1>4. CASE row' = row
  BY <1>4
<1>5. \/ \E a \in Admins : SaveCommits(a) \/ WriteCommits(a)
      \/ \E p \in Procs : MarkCommits(p)
      \/ CashCommits
      \/ row' = row
  BY DEF Next, Admin, Feedback, Settle, Equity, CreateRun, Activates, TransitionRun, LookupReads,
         TransitionInstalls, StopPops, ApplyFeedback, Learns, FeedbackInstalls, Dispatches,
         SettleBegins, Sizes, TradeCommits, PositionCommits, TradeInstalls, PollVisits, Rereads,
         Values, PointCommits, DatabaseFails, Crash, Restores, vars, db
<1> QED
  BY <1>1, <1>2, <1>3, <1>4, <1>5

(* stop_run: a stopped run stays stopped, across crashes and restarts,     *)
(* unless life cycle calls overlap or an error breaks one off.             *)
THEOREM StopIsFinal == Spec => StoppedIsFinal
<1>1. Init => StopInv
  <2> SUFFICES ASSUME Init PROVE StopInv
    OBVIOUS
  <2>1. active = 0 /\ \A p \in Procs : call[p] = Idle
    BY DEF Init
  <2> QED
    BY <2>1, IdleTyped, ConstantsTyped DEF StopInv, Kinded, Alone, Still, Transitioning, Going
<1>2. TypeInv /\ Down /\ StopInv /\ [Next]_vars => StopInv'
  BY StopStep
<1>3. TypeInv /\ StopInv /\ [Next]_vars =>
        [row.status = "stopped" /\ Free({"transitions", "fault"}) => row'.status = "stopped"]_vars
  BY StatusStep
<1> QED
  BY <1>1, <1>2, <1>3, Typed, PTL DEF Spec, StoppedIsFinal

-----------------------------------------------------------------------------
(* Learning.  The watermark covers what was fed, or the one feedback call  *)
(* that fed it is about to store a watermark that does; saving a new run   *)
(* resets the watermark, but before that nothing was fed.                  *)
Saving(p)   == call[p].pc = "save"
Marking(p)  == call[p].pc = "mark"
Learning(p) == call[p].kind = "feedback"

SaveInv ==
  /\ \A p \in Procs : Saving(p) =>
       row.status = "absent" /\ obj # <<>> /\ \A q \in Procs : Saving(q) => p = q
  /\ row.status = "absent" => \A t \in Ids : fed[t] = 0

Covered(t) == t <= row.mark \/ \E p \in Procs : Marking(p) /\ t <= call[p].id
Marked ==
  /\ \A p, q \in Procs : Learning(p) /\ Learning(q) => p = q
  /\ \A p \in Procs : Marking(p) => row.mark <= call[p].id
  /\ \A t \in Ids : fed[t] = 0 \/ (fed[t] = 1 /\ Covered(t))
Unforgotten == Free({"feedbacks", "crash", "fault"})

FedInv == SaveInv /\ (Unforgotten => Marked)

LEMMA UpsetForgets == ASSUME upset \subseteq upset' PROVE Unforgotten' => Unforgotten
  BY DEF Unforgotten, Free

(* A step of p that has nothing to do with learning. *)
LEMMA MarkedKept ==
  ASSUME Unforgotten => Marked, NEW p \in Procs, \A q \in Procs \ {p} : call'[q] = call[q],
         ~Marking(p), ~Marking(p)', Learning(p)' => Learning(p),
         fed' = fed, row'.mark = row.mark, upset \subseteq upset'
  PROVE  (Unforgotten => Marked)'
<1> SUFFICES ASSUME Unforgotten' PROVE Marked'
  OBVIOUS
<1>1. Marked
  BY UpsetForgets
<1>2. \A q \in Procs : /\ Learning(q)' => Learning(q)
                       /\ Marking(q)' <=> Marking(q)
                       /\ Marking(q) => call'[q].id = call[q].id
  BY DEF Learning, Marking
<1> QED
  BY <1>1, <1>2 DEF Marked, Covered

LEMMA SaveKept ==
  ASSUME SaveInv, NEW p \in Procs, \A q \in Procs \ {p} : call'[q] = call[q],
         ~Saving(p)', fed' = fed, row'.status = row.status, obj' = <<>> => obj = <<>>
  PROVE  SaveInv'
  BY DEF SaveInv, Saving

(* Where the steps leave their calls. *)
Ordinary(p) ==
  /\ call'[p].pc \notin {"save", "mark"} /\ call[p].pc # "mark"
  /\ call'[p].kind = "feedback" => call[p].kind = "feedback"
  /\ \A q \in Procs \ {p} : call'[q] = call[q]

LEMMA OrdinaryKeeps ==
  ASSUME FedInv, NEW p \in Procs, Ordinary(p), fed' = fed, row'.mark = row.mark,
         row'.status = row.status, upset \subseteq upset', obj' = <<>> => obj = <<>>
  PROVE  FedInv'
<1>1. /\ ~Saving(p)' /\ ~Marking(p) /\ ~Marking(p)' /\ (Learning(p)' => Learning(p))
      /\ \A q \in Procs \ {p} : call'[q] = call[q]
  BY DEF Ordinary, Saving, Marking, Learning
<1> QED
  BY <1>1, MarkedKept, SaveKept DEF FedInv

LEMMA OrdinaryReturn ==
  ASSUME TypeInv, NEW p \in Procs, Return(p), call[p].pc # "mark"
  PROVE  Ordinary(p)
  BY IdleTyped DEF Ordinary, Return, TypeInv, TypeOK

LEMMA OrdinaryGoto ==
  ASSUME TypeInv, NEW p \in Procs, call[p].pc # "mark",
         NEW pc \in Pcs \ {"save", "mark"}, Goto(p, pc)
  PROVE  Ordinary(p)
  BY Went DEF Ordinary, TypeInv, TypeOK

LEMMA OrdinaryAdmin ==
  ASSUME TypeInv, NEW a \in Admins,
         \/ Activates(a) \/ LookupReads(a) \/ WriteCommits(a) \/ TransitionInstalls(a)
         \/ StopPops(a) \/ \E status \in Statuses : TransitionRun(a, status)
  PROVE  Ordinary(a)
<1> USE ConstantsTyped
<1>1. CASE Activates(a)
  BY <1>1, OrdinaryReturn DEF Activates, At
<1>2. CASE LookupReads(a)
  BY <1>2, OrdinaryReturn, OrdinaryGoto DEF LookupReads, At, Pcs
<1>3. CASE WriteCommits(a)
  BY <1>3, OrdinaryGoto DEF WriteCommits, At, Pcs
<1>4. CASE TransitionInstalls(a)
  BY <1>4, OrdinaryReturn, OrdinaryGoto DEF TransitionInstalls, At, Pcs
<1>5. CASE StopPops(a)
  <2> DEFINE c == [Idle EXCEPT !.pc = "held", !.obj = active]
  <2>1. c.pc = "held" /\ c.kind = "none"
    BY DEF Idle
  <2>2. PICK d \in {Idle, c} : call' = [call EXCEPT ![a] = d]
    BY <1>5 DEF StopPops, Return
  <2> HIDE DEF c
  <2>3. call'[a] = d /\ \A q \in Procs \ {a} : call'[q] = call[q]
    BY <2>2 DEF TypeInv, TypeOK
  <2> QED
    BY <1>5, <2>1, <2>3, IdleTyped DEF Ordinary, StopPops, At
<1>6. ASSUME NEW status \in Statuses, TransitionRun(a, status) PROVE Ordinary(a)
  <2> DEFINE pc == IF active = 0 THEN "lookup" ELSE "write"
             c  == [Idle EXCEPT !.pc = pc, !.kind = status, !.obj = active]
  <2>1. c.pc \in {"lookup", "write"} /\ c.kind # "feedback"
    BY DEF Idle, Statuses
  <2>2. call' = [call EXCEPT ![a] = c] /\ call[a].pc = "idle"
    BY <1>6 DEF TransitionRun, Called, At
  <2> HIDE DEF c
  <2>3. call'[a] = c /\ \A q \in Procs \ {a} : call'[q] = call[q]
    BY <2>2 DEF TypeInv, TypeOK
  <2> QED
    BY <2>1, <2>2, <2>3 DEF Ordinary
<1> QED
  BY <1>1, <1>2, <1>3, <1>4, <1>5, <1>6

LEMMA OrdinaryFeed ==
  ASSUME TypeInv, Settle \/ PollVisits
  PROVE  \E p \in Procs : Ordinary(p)
<1> USE ConstantsTyped
<1>0. call[Feed] \in CallType /\ call \in [Procs -> CallType]
  BY DEF TypeInv, TypeOK
<1>1. ASSUME Skip, call[Feed].pc # "mark" PROVE Ordinary(Feed)
  <2>1. NextLeg.pc \in {"idle", "leg"} /\ NextLeg.kind = "none"
    BY DEF NextLeg, Idle
  <2>2. call' = [call EXCEPT ![Feed] = NextLeg]
    BY <1>1 DEF Skip
  <2> QED
    BY <1>0, <1>1, <2>1, <2>2 DEF Ordinary
<1>2. CASE PollVisits
  <2>1. call'[Poll].pc = "held" /\ call'[Poll].kind = "none" /\ call[Poll].pc = "idle"
    BY <1>0, <1>2 DEF PollVisits, Called, At, Idle
  <2> QED
    BY <1>0, <1>2, <2>1 DEF PollVisits, Ordinary
<1>3. CASE Dispatches
  <2>1. call'[Feed].pc = "leg" /\ call'[Feed].kind = "none" /\ call[Feed].pc = "idle"
    BY <1>0, <1>3 DEF Dispatches, At, Idle
  <2> QED
    BY <1>0, <1>3, <2>1 DEF Dispatches, Ordinary
<1>4. CASE SettleBegins
  <2>1. ASSUME NEW now, Settles(now), call[Feed].pc = "leg" PROVE Ordinary(Feed)
    <3>1. call'[Feed].pc = "sizing" /\ call'[Feed].kind = "trade"
      BY <1>0, <2>1 DEF Settles, CallType
    <3> QED
      BY <1>0, <2>1, <3>1 DEF Settles, Ordinary
  <2> QED
    BY <1>1, <1>4, <2>1 DEF SettleBegins, At
<1>5. CASE Sizes
  <2>1. ASSUME NEW closed, call[Feed].pc = "sizing",
               call' = [call EXCEPT ![Feed].pc = "trade", ![Feed].closed = closed,
                                    ![Feed].paid = Record.cash]
        PROVE  Ordinary(Feed)
    <3>1. call'[Feed].pc = "trade" /\ call'[Feed].kind = call[Feed].kind
      BY <1>0, <2>1 DEF CallType
    <3> QED
      BY <1>0, <2>1, <3>1 DEF Ordinary
  <2> QED
    BY <1>1, <1>5, <2>1 DEF Sizes, At
<1>6. CASE TradeCommits
  <2>1. /\ call'[Feed].pc = "position" /\ call'[Feed].kind = call[Feed].kind
        /\ call[Feed].pc = "trade"
    BY <1>0, <1>6 DEF TradeCommits, At, CallType
  <2> QED
    BY <1>0, <1>6, <2>1 DEF TradeCommits, Ordinary
<1>7. CASE PositionCommits \/ CashCommits \/ TradeInstalls
  BY <1>7, OrdinaryGoto DEF PositionCommits, CashCommits, TradeInstalls, At, Pcs
<1> QED
  BY <1>2, <1>3, <1>4, <1>5, <1>6, <1>7 DEF Settle

LEMMA OrdinaryValuation ==
  ASSUME TypeInv, NEW p \in Procs, Rereads(p) \/ Equity(p) \/ FeedbackInstalls(p)
  PROVE  Ordinary(p)
<1>0. call[p] \in CallType /\ call \in [Procs -> CallType]
  BY DEF TypeInv, TypeOK
<1>1. CASE Rereads(p)
  <2>1. /\ call'[p].pc = "install" /\ call'[p].kind = call[p].kind /\ call[p].pc = "reread"
    BY <1>0, <1>1 DEF Rereads, At, CallType
  <2> QED
    BY <1>0, <1>1, <2>1 DEF Rereads, Ordinary
<1>2. CASE Values(p)
  <2>1. /\ call'[p].pc = "point" /\ call'[p].kind = call[p].kind /\ call[p].pc = "held"
    BY <1>0, <1>2 DEF Values, At, CallType
  <2> QED
    BY <1>0, <1>2, <2>1 DEF Values, Ordinary
<1>3. CASE FeedbackInstalls(p) \/ (PointCommits(p) /\ p # Feed)
  BY <1>3, OrdinaryReturn DEF FeedbackInstalls, PointCommits, At
<1>4. CASE PointCommits(p) /\ p = Feed
  <2>1. NextLeg.pc \in {"idle", "leg"} /\ NextLeg.kind = "none"
    BY DEF NextLeg, Idle
  <2>2. call' = [call EXCEPT ![p] = NextLeg] /\ call[p].pc = "point"
    BY <1>4 DEF Skip, PointCommits, At
  <2> QED
    BY <1>0, <2>1, <2>2 DEF Ordinary
<1> QED
  BY <1>1, <1>2, <1>3, <1>4 DEF Equity

(* What those steps leave of the watermark, the status and the objects. *)
LEMMA OrdinaryRest ==
  ASSUME TypeInv,
         \/ \E a \in Admins : \/ Activates(a) \/ LookupReads(a) \/ TransitionInstalls(a)
                              \/ StopPops(a) \/ \E status \in Statuses : TransitionRun(a, status)
         \/ Settle \/ PollVisits
         \/ \E p \in Procs : Rereads(p) \/ Equity(p) \/ FeedbackInstalls(p)
  PROVE  /\ fed' = fed /\ row'.mark = row.mark /\ row'.status = row.status
         /\ upset \subseteq upset' /\ (obj' = <<>> => obj = <<>>)
<1> USE ConstantsTyped
<1>1. fed' = fed /\ upset \subseteq upset'
  BY DEF Activates, LookupReads, TransitionInstalls, StopPops, TransitionRun, Settle, Dispatches,
         SettleBegins, Sizes, TradeCommits, PositionCommits, CashCommits, TradeInstalls,
         PollVisits, Rereads, Equity, Values, PointCommits, FeedbackInstalls, world, Upset,
         NoteStale, Overlaps
<1>2. row'.mark = row.mark /\ row'.status = row.status
  <2>1. CASE CashCommits
    BY <2>1, CashPreserves
  <2>2. CASE row' = row
    BY <2>2
  <2>3. CashCommits \/ row' = row
    BY DEF Activates, LookupReads, TransitionInstalls, StopPops, TransitionRun, Settle, Dispatches,
           SettleBegins, Sizes, TradeCommits, PositionCommits, TradeInstalls, PollVisits, Rereads,
           Equity, Values, PointCommits, FeedbackInstalls, db
  <2> QED
    BY <2>1, <2>2, <2>3
<1>3. obj' = <<>> => obj = <<>>
  <2>0. obj \in Seq(ActiveType)
    BY DEF TypeInv, TypeOK
  <2>1. ASSUME NEW n, NEW o, obj' = [obj EXCEPT ![n] = o] PROVE obj' = <<>> => obj = <<>>
    <3>1. DOMAIN obj' = DOMAIN obj
      BY <2>1
    <3> QED
      BY <2>0, <3>1
  <2>2. ASSUME NEW a \in Procs, SetRecord(a) PROVE obj' = <<>> => obj = <<>>
    BY <2>1, <2>2 DEF SetRecord
  <2>3. CASE TradeInstalls
    BY <2>1, <2>3 DEF TradeInstalls
  <2>4. ASSUME NEW a \in Admins, TransitionInstalls(a) PROVE obj' = <<>> => obj = <<>>
    <3>1. CASE SetRecord(a)
      BY <2>2, <3>1
    <3>2. CASE obj' = Append(obj, Bound(call[a].row))
      <4>1. Len(obj') = Len(obj) + 1 /\ Len(obj) \in Nat /\ Len(<<>>) = 0
        BY <2>0, <3>2
      <4>2. Len(obj') # Len(<<>>)
        BY <4>1
      <4> QED
        BY <4>2, Zenon
    <3>3. CASE UNCHANGED memory
      BY <3>3 DEF memory
    <3> QED
      BY <2>4, <3>1, <3>2, <3>3 DEF TransitionInstalls
  <2>5. ASSUME NEW p \in Procs, FeedbackInstalls(p) PROVE obj' = <<>> => obj = <<>>
    BY <2>2, <2>5 DEF FeedbackInstalls
  <2>6. \/ TradeInstalls \/ \E a \in Admins : TransitionInstalls(a)
        \/ \E p \in Procs : FeedbackInstalls(p)
        \/ obj' = obj
    BY DEF Activates, LookupReads, StopPops, TransitionRun, Settle, Dispatches, SettleBegins,
           Sizes, TradeCommits, PositionCommits, CashCommits, PollVisits, Rereads, Equity, Values,
           PointCommits, memory
  <2> QED
    BY <2>3, <2>4, <2>5, <2>6
<1> QED
  BY <1>1, <1>2, <1>3

LEMMA FedCreate ==
  ASSUME TypeInv, FedInv, NEW a \in Admins, CreateRun(a)
  PROVE  FedInv'
<1> USE ConstantsTyped
<1> DEFINE c == [Idle EXCEPT !.pc = "save", !.kind = "create", !.obj = 1]
<1>1. c.pc = "save" /\ c.kind = "create"
  BY DEF Idle
<1>2. /\ call' = [call EXCEPT ![a] = c] /\ row' = row /\ row.status = "absent"
      /\ obj = <<>> /\ obj' # <<>> /\ fed' = fed /\ upset \subseteq upset'
      /\ call[a].pc = "idle"
  BY DEF CreateRun, db, NoRow, Overlaps, Upset, At
<1> HIDE DEF c
<1>3. call'[a] = c /\ \A q \in Procs \ {a} : call'[q] = call[q]
  BY <1>2 DEF TypeInv, TypeOK
<1>4. SaveInv'
  BY <1>1, <1>2, <1>3 DEF FedInv, SaveInv, Saving
<1>5. /\ ~Marking(a) /\ ~Marking(a)' /\ ~Learning(a)'
  BY <1>1, <1>2, <1>3 DEF Marking, Learning
<1> QED
  BY <1>2, <1>3, <1>4, <1>5, MarkedKept DEF FedInv

(* No feedback call runs before the row is there. *)
LEMMA FedSave ==
  ASSUME TypeInv, FedInv, NEW a \in Admins, SaveCommits(a)
  PROVE  FedInv'
<1> USE ConstantsTyped
<1>1. /\ call'[a].pc = "activate" /\ call'[a].kind = call[a].kind /\ call[a].pc = "save"
      /\ \A q \in Procs \ {a} : call'[q] = call[q]
  BY Went DEF SaveCommits, At, TypeInv, TypeOK, Pcs
<1>2. /\ row'.status = "paused" /\ row'.mark = 0 /\ fed' = fed /\ upset' = upset /\ obj' = obj
  BY DEF SaveCommits, NoRow, world, memory
<1>3. row.status = "absent" /\ \A q \in Procs : Saving(q) => q = a
  BY <1>1 DEF FedInv, SaveInv, Saving
<1>4. SaveInv'
  BY <1>1, <1>2, <1>3 DEF FedInv, SaveInv, Saving
<1>5. \A q \in Procs : ~Marking(q)'
  BY <1>1, <1>3 DEF TypeInv, CallFits, Marking
<1>6. \A t \in Ids : fed'[t] = 0
  BY <1>2, <1>3 DEF FedInv, SaveInv
<1>7. \A q \in Procs : Learning(q)' => Learning(q)
  BY <1>1 DEF Learning
<1>8. ASSUME Unforgotten' PROVE Marked'
  <2>1. \A p, q \in Procs : Learning(p) /\ Learning(q) => p = q
    BY <1>2, <1>8, UpsetForgets DEF FedInv, Marked
  <2> QED
    BY <1>5, <1>6, <1>7, <2>1 DEF Marked
<1> QED
  BY <1>4, <1>8 DEF FedInv

LEMMA FedWrite ==
  ASSUME TypeInv, FedInv, NEW a \in Admins, WriteCommits(a)
  PROVE  FedInv'
<1> USE ConstantsTyped
<1>1. Ordinary(a)
  BY OrdinaryAdmin
<1>2. row.status # "absent" /\ row'.status # "absent"
  BY SavePreserves DEF WriteCommits, At, TypeInv, CallFits, Statuses
<1>3. fed' = fed /\ upset' = upset /\ row'.mark = row.mark
  BY DEF WriteCommits, world, TypeInv, TypeOK, RowType
<1>4. SaveInv'
  BY <1>1, <1>2 DEF FedInv, SaveInv, Saving, Ordinary
<1>5. /\ ~Marking(a) /\ ~Marking(a)' /\ (Learning(a)' => Learning(a))
      /\ \A q \in Procs \ {a} : call'[q] = call[q]
  BY <1>1 DEF Ordinary, Marking, Learning
<1> QED
  BY <1>3, <1>4, <1>5, MarkedKept DEF FedInv

LEMMA FedBegins ==
  ASSUME TypeInv, FedInv, NEW p \in Procs, ApplyFeedback(p)
  PROVE  FedInv'
<1> DEFINE c == [Idle EXCEPT !.pc = "learn", !.kind = "feedback", !.obj = active]
<1>1. c.pc = "learn" /\ c.kind = "feedback"
  BY DEF Idle
<1>2. /\ call' = [call EXCEPT ![p] = c] /\ row' = row /\ obj' = obj /\ fed' = fed
      /\ upset \subseteq upset' /\ call[p].pc = "idle"
  BY DEF ApplyFeedback, db, memory, Upset, Called, At
<1> HIDE DEF c
<1>3. call'[p] = c /\ \A q \in Procs \ {p} : call'[q] = call[q]
  BY <1>2 DEF TypeInv, TypeOK
<1>4. SaveInv'
  BY <1>1, <1>2, <1>3, SaveKept DEF FedInv, Saving
<1>5. ASSUME Unforgotten' PROVE Marked'
  <2>1. Marked
    BY <1>2, <1>5, UpsetForgets DEF FedInv
  <2>2. \A q \in Procs \ {p} : ~Learning(q)
    BY <1>5 DEF ApplyFeedback, Upset, Unforgotten, Free, Learning
  <2>3. \A q \in Procs : (Marking(q)' <=> Marking(q)) /\ (Marking(q) => call'[q].id = call[q].id)
    BY <1>1, <1>2, <1>3 DEF Marking
  <2>4. \A q, r \in Procs : Learning(q)' /\ Learning(r)' => q = r
    BY <1>3, <2>2 DEF Learning
  <2> QED
    BY <1>2, <2>1, <2>3, <2>4 DEF Marked, Covered
<1> QED
  BY <1>4, <1>5 DEF FedInv

LEMMA FedLearns ==
  ASSUME TypeInv, StopInv, FedInv, NEW p \in Procs, Learns(p)
  PROVE  FedInv'
<1>1. /\ call'[p].kind = call[p].kind /\ call[p].pc = "learn" /\ Learning(p)
      /\ call'[p].pc \in {"reread", "mark"}
      /\ \A q \in Procs \ {p} : call'[q] = call[q]
  BY Learned DEF Learns, At, StopInv, Kinded, Learning
<1>2. row' = row /\ obj' = obj /\ upset' = upset /\ row.status # "absent"
  BY <1>1 DEF Learns, db, memory, TypeInv, CallFits
<1>3. SaveInv'
  BY <1>1, <1>2 DEF FedInv, SaveInv, Saving
<1>4. CASE call'[p].pc = "reread" /\ fed' = fed
  <2>1. ~Marking(p) /\ ~Marking(p)' /\ (Learning(p)' => Learning(p))
    BY <1>1, <1>4 DEF Marking, Learning
  <2> QED
    BY <1>1, <1>2, <1>3, <1>4, <2>1, MarkedKept DEF FedInv
<1>5. CASE /\ call'[p].pc = "mark" /\ call'[p].id = LastOutcome
           /\ Cardinality(Outcomes) >= MinClosed
           /\ fed' = [t \in Ids |-> IF t \in Outcomes THEN fed[t] + 1 ELSE fed[t]]
  <2> SUFFICES ASSUME Unforgotten' PROVE Marked'
    BY <1>3 DEF FedInv
  <2>1. Marked
    BY <1>2, UpsetForgets DEF FedInv
  <2>2. \A q \in Procs : ~Marking(q)
    BY <1>1, <2>1 DEF Marked, Marking, Learning, StopInv, Kinded
  <2>3. /\ LastOutcome \in Nat /\ row.mark \in Nat /\ LastOutcome > row.mark
        /\ \A t \in Outcomes : t <= LastOutcome /\ t > row.mark
    <3>1. LastOutcome \in Outcomes /\ LastOutcome \in 1..MaxTrades
          /\ \A t \in Outcomes : t <= LastOutcome
      BY <1>5, LastTyped
    <3>2. row.mark \in 0..MaxTrades
      BY DEF TypeInv, TypeOK, RowType
    <3> QED
      BY <3>1, <3>2, ConstantsTyped DEF Outcomes
  <2>4. \A t \in Ids : t <= row.mark => t \notin Outcomes
    BY ConstantsTyped DEF Outcomes, Ids, TypeInv, TypeOK, RowType
  <2>5. \A q \in Procs : Marking(q)' <=> q = p
    BY <1>1, <1>5, <2>2 DEF Marking
  <2>6. \A t \in Ids : fed'[t] = 0 \/ (fed'[t] = 1 /\ Covered(t)')
    <3> SUFFICES ASSUME NEW t \in Ids PROVE fed'[t] = 0 \/ (fed'[t] = 1 /\ Covered(t)')
      OBVIOUS
    <3>1. fed[t] = 0 \/ (fed[t] = 1 /\ t <= row.mark)
      BY <2>1, <2>2 DEF Marked, Covered
    <3>2. CASE t \in Outcomes
      BY <1>5, <2>3, <2>4, <2>5, <3>1, <3>2 DEF Covered
    <3>3. CASE t \notin Outcomes
      BY <1>2, <1>5, <3>1, <3>3 DEF Covered
    <3> QED
      BY <3>2, <3>3
  <2>7. \A q \in Procs : Marking(q)' => row'.mark <= call'[q].id
    BY <1>2, <1>5, <2>3, <2>5
  <2>8. \A q, r \in Procs : Learning(q)' /\ Learning(r)' => q = r
    BY <1>1, <2>1 DEF Marked, Learning
  <2> QED
    BY <2>6, <2>7, <2>8 DEF Marked
<1> QED
  BY <1>4, <1>5, Learned

LEMMA FedMark ==
  ASSUME TypeInv, StopInv, FedInv, NEW p \in Procs, MarkCommits(p)
  PROVE  FedInv'
<1>1. /\ call'[p].kind = call[p].kind /\ call[p].pc = "mark" /\ call'[p].pc = "reread"
      /\ \A q \in Procs \ {p} : call'[q] = call[q]
  BY Went DEF MarkCommits, At, TypeInv, TypeOK, Pcs
<1>2. row' = [row EXCEPT !.mark = call[p].id] /\ obj' = obj /\ upset' = upset /\ fed' = fed
  BY DEF MarkCommits, memory, world
<1>3. row'.status = row.status /\ row'.mark = call[p].id
  BY <1>2 DEF TypeInv, TypeOK, RowType
<1>4. SaveInv'
  BY <1>1, <1>2, <1>3, SaveKept DEF FedInv, Saving
<1>5. ASSUME Unforgotten' PROVE Marked'
  <2>1. Marked
    BY <1>2, <1>5, UpsetForgets DEF FedInv
  <2>2. \A q \in Procs : Marking(q) <=> q = p
    BY <1>1, <2>1 DEF Marked, Marking, Learning, StopInv, Kinded
  <2>3. \A q \in Procs : ~Marking(q)'
    BY <1>1, <2>2 DEF Marking
  <2>4. row.mark \in Nat /\ call[p].id \in Nat /\ row.mark <= call[p].id
    <3>1. row.mark \in 0..MaxTrades /\ call[p].id \in 0..MaxTrades
      BY CallFields DEF TypeInv, TypeOK, RowType
    <3> QED
      BY <2>1, <2>2, <3>1, ConstantsTyped DEF Marked
  <2>5. \A t \in Ids : Covered(t) => t <= row'.mark
    BY <1>3, <2>2, <2>4, ConstantsTyped DEF Covered, Ids
  <2>6. \A q, r \in Procs : Learning(q)' /\ Learning(r)' => q = r
    BY <1>1, <2>1 DEF Marked, Learning
  <2> QED
    BY <1>2, <2>1, <2>3, <2>5, <2>6 DEF Marked, Covered
<1> QED
  BY <1>4, <1>5 DEF FedInv

LEMMA FedEnvironment ==
  ASSUME TypeInv, Down, FedInv, (\E p \in Procs : DatabaseFails(p)) \/ Crash \/ Restores
  PROVE  FedInv'
<1>1. ASSUME NEW p \in Procs, DatabaseFails(p) PROVE FedInv'
  <2>1. call'[p] = Idle /\ \A q \in Procs \ {p} : call'[q] = call[q]
    BY <1>1, FaultPreserves
  <2>2. row' = row /\ obj' = obj /\ fed' = fed /\ ~Unforgotten'
    BY <1>1 DEF DatabaseFails, db, memory, Upset, Unforgotten, Free
  <2> QED
    BY <2>1, <2>2, IdleTyped, SaveKept DEF FedInv, Saving
<1>2. CASE Crash
  <2>1. \A p \in Procs : ~Saving(p)'
    BY <1>2, CrashPreserves, IdleTyped DEF Saving
  <2>2. row' = row /\ fed' = fed /\ ~Unforgotten'
    BY <1>2 DEF Crash, db, Upset, Unforgotten, Free
  <2> QED
    BY <2>1, <2>2 DEF FedInv, SaveInv
<1>3. CASE Restores
  <2>1. row' = row /\ call' = call /\ upset' = upset /\ fed' = fed /\ \A p \in Procs : ~Saving(p)
    BY <1>3, IdleTyped DEF Restores, db, world, Down, Saving
  <2> QED
    BY <2>1 DEF FedInv, SaveInv, Saving, Marked, Covered, Marking, Learning, Unforgotten, Free
<1> QED
  BY <1>1, <1>2, <1>3

LEMMA FedStep ==
  ASSUME TypeInv, Down, StopInv, FedInv, [Next]_vars
  PROVE  FedInv'
<1> USE ConstantsTyped
<1>1. ASSUME NEW a \in Admins,
             \/ Activates(a) \/ LookupReads(a) \/ TransitionInstalls(a) \/ StopPops(a)
             \/ \E status \in Statuses : TransitionRun(a, status)
      PROVE  FedInv'
  BY <1>1, OrdinaryAdmin, OrdinaryRest, OrdinaryKeeps
<1>2. ASSUME NEW a \in Admins, CreateRun(a) \/ SaveCommits(a) \/ WriteCommits(a) PROVE FedInv'
  BY <1>2, FedCreate, FedSave, FedWrite
<1>3. CASE Settle \/ PollVisits
  BY <1>3, OrdinaryFeed, OrdinaryRest, OrdinaryKeeps
<1>4. ASSUME NEW p \in Procs, Rereads(p) \/ Equity(p) \/ FeedbackInstalls(p) PROVE FedInv'
  BY <1>4, OrdinaryValuation, OrdinaryRest, OrdinaryKeeps
<1>5. ASSUME NEW p \in Procs, ApplyFeedback(p) \/ Learns(p) \/ MarkCommits(p) PROVE FedInv'
  BY <1>5, FedBegins, FedLearns, FedMark
<1>6. CASE (\E p \in Procs : DatabaseFails(p)) \/ Crash \/ Restores
  BY <1>6, FedEnvironment
<1>7. CASE UNCHANGED vars
  BY <1>7 DEF FedInv, SaveInv, Saving, Marked, Covered, Marking, Learning, Unforgotten, Free,
              vars, db, memory, world
<1> QED
  BY <1>1, <1>2, <1>3, <1>4, <1>5, <1>6, <1>7 DEF Next, Admin, Feedback

LEMMA FedInit == Init => FedInv /\ StopInv
<1> SUFFICES ASSUME Init PROVE FedInv /\ StopInv
  OBVIOUS
<1>1. active = 0 /\ (\A p \in Procs : call[p] = Idle) /\ \A t \in Ids : fed[t] = 0
  BY DEF Init
<1>2. StopInv
  BY <1>1, IdleTyped, ConstantsTyped DEF StopInv, Kinded, Alone, Still, Transitioning, Going
<1>3. \A p \in Procs : ~Saving(p) /\ ~Marking(p) /\ ~Learning(p)
  BY <1>1, IdleTyped DEF Saving, Marking, Learning
<1>4. FedInv
  BY <1>1, <1>3 DEF FedInv, SaveInv, Marked
<1> QED
  BY <1>2, <1>4

(* What holds of every call, whatever overlaps or breaks. *)
Base == TypeInv /\ Down /\ StopInv /\ FedInv

LEMMA BaseHolds == Spec => []Base
<1>1. TypeInv /\ Down /\ StopInv /\ FedInv /\ [Next]_vars => FedInv' /\ StopInv'
  BY FedStep, StopStep
<1> QED
  BY <1>1, FedInit, Typed, PTL DEF Spec, Base

(* apply_feedback: the outcome of a trade moves the weights once, unless   *)
(* two feedback calls overlap or the watermark could not be stored.        *)
THEOREM OutcomesFedOnce == Spec => []FedOnce
<1>1. Base => FedOnce
  BY DEF Base, FedInv, Marked, Unforgotten, FedOnce
<1> QED
  BY <1>1, BaseHolds, PTL

-----------------------------------------------------------------------------
(* How a step moves its call: to a place, as a kind, with an object; the   *)
(* other calls wait where they were.                                       *)
Others(p) == \A q \in Procs \ {p} : call'[q] = call[q]
Moves(p, pc, kind, n) ==
  call'[p].pc = pc /\ call'[p].kind = kind /\ call'[p].obj = n /\ Others(p)

(* What a call has besides its place. *)
Carries(p) ==
  /\ call'[p].kind = call[p].kind /\ call'[p].obj = call[p].obj
  /\ call'[p].legs = call[p].legs /\ call'[p].at = call[p].at
  /\ call'[p].late = call[p].late /\ Others(p)

LEMMA GoesTo ==
  ASSUME TypeInv, NEW p \in Procs, NEW pc \in Pcs, Goto(p, pc)
  PROVE  /\ call'[p].pc = pc /\ Carries(p)
         /\ call'[p].id = call[p].id /\ call'[p].paid = call[p].paid
         /\ call'[p].held = call[p].held /\ call'[p].row = call[p].row
<1> DEFINE c == [call[p] EXCEPT !.pc = pc]
<1>1. call[p] \in CallType /\ call \in [Procs -> CallType]
  BY DEF TypeInv, TypeOK
<1>2. /\ c.pc = pc /\ c.kind = call[p].kind /\ c.obj = call[p].obj /\ c.row = call[p].row
      /\ c.legs = call[p].legs /\ c.at = call[p].at /\ c.late = call[p].late
      /\ c.id = call[p].id /\ c.paid = call[p].paid /\ c.held = call[p].held
  BY <1>1, Zenon DEF CallType
<1>3. call' = [call EXCEPT ![p] = c]
  BY DEF Goto
<1> HIDE DEF c
<1>4. call'[p] = c /\ Others(p)
  BY <1>1, <1>3 DEF Others
<1> QED
  BY <1>2, <1>4 DEF Carries

LEMMA Returns ==
  ASSUME TypeInv, NEW p \in Procs, Return(p)
  PROVE  call'[p] = Idle /\ Moves(p, "idle", "none", 0) /\ call'[p].late = FALSE
<1>1. call'[p] = Idle /\ Others(p)
  BY DEF Return, TypeInv, TypeOK, Others
<1> QED
  BY <1>1 DEF Idle, Moves

(* The life cycle calls. *)
LEMMA CreateMoves ==
  ASSUME TypeInv, NEW a \in Admins, CreateRun(a)
  PROVE  Moves(a, "save", "create", 1)
<1> USE ConstantsTyped
<1> DEFINE c == [Idle EXCEPT !.pc = "save", !.kind = "create", !.obj = 1]
<1>1. c.pc = "save" /\ c.kind = "create" /\ c.obj = 1
  BY DEF Idle
<1>2. call' = [call EXCEPT ![a] = c]
  BY DEF CreateRun
<1> HIDE DEF c
<1> QED
  BY <1>1, <1>2 DEF TypeInv, TypeOK, Moves, Others

LEMMA TransitionMoves ==
  ASSUME TypeInv, NEW a \in Admins, NEW status \in Statuses, TransitionRun(a, status)
  PROVE  Moves(a, IF active = 0 THEN "lookup" ELSE "write", status, active)
<1> USE ConstantsTyped
<1> DEFINE pc == IF active = 0 THEN "lookup" ELSE "write"
           c  == [Idle EXCEPT !.pc = pc, !.kind = status, !.obj = active]
<1>1. c.pc = pc /\ c.kind = status /\ c.obj = active
  BY DEF Idle
<1>2. call' = [call EXCEPT ![a] = c]
  BY DEF TransitionRun
<1> HIDE DEF c
<1> QED
  BY <1>1, <1>2 DEF TypeInv, TypeOK, Moves, Others

LEMMA PopMoves ==
  ASSUME TypeInv, NEW a \in Admins, StopPops(a)
  PROVE  \E pc \in {"idle", "held"}, n \in Nat : Moves(a, pc, "none", n)
<1> USE ConstantsTyped
<1> DEFINE c == [Idle EXCEPT !.pc = "held", !.obj = active]
<1>1. c.pc = "held" /\ c.kind = "none" /\ c.obj = active /\ active \in Nat
  BY DEF Idle, TypeInv, TypeOK
<1>2. CASE active = 0
  <2>1. Moves(a, "idle", "none", 0)
    BY <1>2, Returns DEF StopPops
  <2> QED
    BY <2>1
<1>3. CASE active # 0
  <2>1. call' = [call EXCEPT ![a] = c]
    BY <1>3 DEF StopPops
  <2> HIDE DEF c
  <2>2. Moves(a, "held", "none", active)
    BY <1>1, <2>1 DEF TypeInv, TypeOK, Moves, Others
  <2> QED
    BY <1>1, <2>2
<1> QED
  BY <1>2, <1>3

(* Feedback and valuation. *)
LEMMA FeedbackMoves ==
  ASSUME TypeInv, NEW p \in Procs, ApplyFeedback(p)
  PROVE  Moves(p, "learn", "feedback", active)
<1> DEFINE c == [Idle EXCEPT !.pc = "learn", !.kind = "feedback", !.obj = active]
<1>1. c.pc = "learn" /\ c.kind = "feedback" /\ c.obj = active
  BY DEF Idle
<1>2. call' = [call EXCEPT ![p] = c]
  BY DEF ApplyFeedback
<1> HIDE DEF c
<1> QED
  BY <1>1, <1>2 DEF TypeInv, TypeOK, Moves, Others

LEMMA VisitMoves ==
  ASSUME TypeInv, PollVisits
  PROVE  Moves(Poll, "held", "none", active)
<1> USE ConstantsTyped
<1> DEFINE c == [Idle EXCEPT !.pc = "held", !.obj = active]
<1>1. c.pc = "held" /\ c.kind = "none" /\ c.obj = active
  BY DEF Idle
<1>2. call' = [call EXCEPT ![Poll] = c]
  BY DEF PollVisits
<1> HIDE DEF c
<1> QED
  BY <1>1, <1>2 DEF TypeInv, TypeOK, Moves, Others

LEMMA RereadMoves ==
  ASSUME TypeInv, NEW p \in Procs, Rereads(p)
  PROVE  /\ call'[p].pc = "install" /\ Carries(p) /\ call[p].pc = "reread"
         /\ call'[p].id = call[p].id /\ call'[p].row = [row EXCEPT !.mark = 0]
<1> DEFINE r == [row EXCEPT !.mark = 0]
           c == [call[p] EXCEPT !.pc = "install", !.row = r]
<1>1. call[p] \in CallType /\ call \in [Procs -> CallType]
  BY DEF TypeInv, TypeOK
<1> HIDE DEF r
<1>2. /\ c.pc = "install" /\ c.kind = call[p].kind /\ c.obj = call[p].obj /\ c.row = r
      /\ c.legs = call[p].legs /\ c.at = call[p].at /\ c.late = call[p].late
      /\ c.id = call[p].id
  BY <1>1, Zenon DEF CallType
<1>3. call' = [call EXCEPT ![p] = c] /\ call[p].pc = "reread"
  BY DEF Rereads, r, At
<1> HIDE DEF c
<1>4. call'[p] = c /\ Others(p)
  BY <1>1, <1>3 DEF Others
<1> QED
  BY <1>2, <1>3, <1>4 DEF Carries, r

LEMMA ValueMoves ==
  ASSUME TypeInv, NEW p \in Procs, Values(p)
  PROVE  /\ call'[p].pc = "point" /\ Carries(p) /\ call[p].pc = "held"
         /\ call'[p].held = Held /\ call'[p].paid = obj[call[p].obj].cash
<1> DEFINE cash == obj[call[p].obj].cash
           c == [call[p] EXCEPT !.pc = "point", !.held = Held, !.paid = cash]
<1>1. call[p] \in CallType /\ call \in [Procs -> CallType]
  BY DEF TypeInv, TypeOK
<1> HIDE DEF cash
<1>2. /\ c.pc = "point" /\ c.kind = call[p].kind /\ c.obj = call[p].obj
      /\ c.legs = call[p].legs /\ c.at = call[p].at /\ c.late = call[p].late
      /\ c.held = Held /\ c.paid = cash
  BY <1>1, Zenon DEF CallType
<1>3. call' = [call EXCEPT ![p] = c] /\ call[p].pc = "held"
  BY DEF Values, cash, At
<1> HIDE DEF c
<1>4. call'[p] = c /\ Others(p)
  BY <1>1, <1>3 DEF Others
<1> QED
  BY <1>2, <1>3, <1>4 DEF Carries, cash

LEMMA LearnMoves ==
  ASSUME TypeInv, NEW p \in Procs, Learns(p)
  PROVE  \E pc \in {"reread", "mark"} : Moves(p, pc, call[p].kind, call[p].obj)
  BY Learned DEF Moves, Others

LEMMA MarkMoves ==
  ASSUME TypeInv, NEW p \in Procs, MarkCommits(p)
  PROVE  Moves(p, "reread", call[p].kind, call[p].obj) /\ row' = [row EXCEPT !.mark = call[p].id]
<1>1. Goto(p, "reread")
  BY DEF MarkCommits
<1> QED
  BY <1>1, GoesTo DEF MarkCommits, Moves, Carries, Pcs

(* The feed. *)
LEMMA SkipMoves ==
  ASSUME TypeInv, Skip
  PROVE  /\ call'[Feed].pc \in {"idle", "leg"} /\ call'[Feed].kind = "none"
         /\ call'[Feed].late = FALSE /\ Others(Feed)
<1> USE ConstantsTyped
<1>1. NextLeg.pc \in {"idle", "leg"} /\ NextLeg.kind = "none" /\ NextLeg.late = FALSE
  BY DEF NextLeg, Idle
<1>2. call' = [call EXCEPT ![Feed] = NextLeg]
  BY DEF Skip
<1> QED
  BY <1>1, <1>2 DEF TypeInv, TypeOK, Others

LEMMA DispatchMoves ==
  ASSUME TypeInv, Dispatches
  PROVE  /\ call'[Feed].pc = "leg" /\ call'[Feed].kind = "none" /\ call'[Feed].late = FALSE
         /\ call[Feed].pc = "idle" /\ Others(Feed)
<1> USE ConstantsTyped
<1>1. PICK legs : call' = [call EXCEPT ![Feed] =
                             [Idle EXCEPT !.pc = "leg", !.obj = active, !.legs = legs]]
  BY DEF Dispatches
<1> DEFINE c == [Idle EXCEPT !.pc = "leg", !.obj = active, !.legs = legs]
<1>2. c.pc = "leg" /\ c.kind = "none" /\ c.late = FALSE
  BY DEF Idle
<1>3. call' = [call EXCEPT ![Feed] = c] /\ call[Feed].pc = "idle"
  BY <1>1 DEF Dispatches, At
<1> HIDE DEF c
<1> QED
  BY <1>2, <1>3 DEF TypeInv, TypeOK, Others

LEMMA SettleMoves ==
  ASSUME TypeInv, SettleBegins
  PROVE  \/ Skip
         \/ /\ call'[Feed].pc = "sizing" /\ call'[Feed].kind = "trade" /\ call'[Feed].late = quiet
            /\ call'[Feed].legs = call[Feed].legs /\ call'[Feed].obj = call[Feed].obj
            /\ call'[Feed].at - Record.last[Inst] >= Cooldown
            /\ Record.status = "running" /\ Others(Feed)
<1> USE ConstantsTyped
<1>1. ASSUME NEW now, Settles(now), Record.status = "running",
             now - Record.last[Inst] >= Cooldown
      PROVE  /\ call'[Feed].pc = "sizing" /\ call'[Feed].kind = "trade"
             /\ call'[Feed].late = quiet
             /\ call'[Feed].legs = call[Feed].legs /\ call'[Feed].obj = call[Feed].obj
             /\ call'[Feed].at - Record.last[Inst] >= Cooldown
             /\ Record.status = "running" /\ Others(Feed)
  <2> DEFINE c == [call[Feed] EXCEPT !.pc = "sizing", !.kind = "trade", !.at = now,
                                     !.late = quiet]
  <2>1. call[Feed] \in CallType /\ call \in [Procs -> CallType]
    BY DEF TypeInv, TypeOK
  <2>2. /\ c.pc = "sizing" /\ c.kind = "trade" /\ c.late = quiet /\ c.at = now
        /\ c.legs = call[Feed].legs /\ c.obj = call[Feed].obj
    BY <2>1, Zenon DEF CallType
  <2>3. call' = [call EXCEPT ![Feed] = c]
    BY <1>1 DEF Settles
  <2> HIDE DEF c
  <2>4. call'[Feed] = c /\ Others(Feed)
    BY <2>1, <2>3 DEF Others
  <2> QED
    BY <1>1, <2>2, <2>4
<1> QED
  BY <1>1 DEF SettleBegins

LEMMA SizeMoves ==
  ASSUME TypeInv, Sizes
  PROVE  \/ Skip
         \/ call'[Feed].pc = "trade" /\ Carries(Feed) /\ call'[Feed].paid = Record.cash
<1> USE ConstantsTyped
<1>1. ASSUME NEW closed,
             call' = [call EXCEPT ![Feed].pc = "trade", ![Feed].closed = closed,
                                  ![Feed].paid = Record.cash]
      PROVE  call'[Feed].pc = "trade" /\ Carries(Feed) /\ call'[Feed].paid = Record.cash
  <2> DEFINE cash == Record.cash
             c == [call[Feed] EXCEPT !.pc = "trade", !.closed = closed, !.paid = cash]
  <2>1. call[Feed] \in CallType /\ call \in [Procs -> CallType]
    BY DEF TypeInv, TypeOK
  <2> HIDE DEF cash
  <2>2. /\ c.pc = "trade" /\ c.kind = call[Feed].kind /\ c.obj = call[Feed].obj
        /\ c.legs = call[Feed].legs /\ c.at = call[Feed].at /\ c.late = call[Feed].late
        /\ c.paid = cash
    BY <2>1, Zenon DEF CallType
  <2>3. call' = [call EXCEPT ![Feed] = c]
    BY <1>1 DEF cash
  <2> HIDE DEF c
  <2>4. call'[Feed] = c /\ Others(Feed)
    BY <2>1, <2>3 DEF Others
  <2> QED
    BY <2>2, <2>4 DEF Carries, cash
<1> QED
  BY <1>1 DEF Sizes

LEMMA TradeMoves ==
  ASSUME TypeInv, TradeCommits
  PROVE  /\ call'[Feed].pc = "position" /\ Carries(Feed) /\ call[Feed].pc = "trade"
         /\ call'[Feed].paid = call[Feed].paid /\ call'[Feed].id = Len(trades')
         /\ Len(trades') = Len(trades) + 1
         /\ DOMAIN trades' = DOMAIN trades \cup {Len(trades')} /\ Len(trades') \notin DOMAIN trades
         /\ trades'[Len(trades')] = Filled
         /\ \A t \in DOMAIN trades : trades'[t] = trades[t]
<1> USE ConstantsTyped
<1> DEFINE n == Len(trades) + 1
           c == [call[Feed] EXCEPT !.pc = "position", !.id = n]
<1>1. call[Feed] \in CallType /\ call \in [Procs -> CallType]
  BY DEF TypeInv, TypeOK
<1>2. call' = [call EXCEPT ![Feed] = c] /\ call[Feed].pc = "trade"
  BY DEF TradeCommits, At
<1>3. /\ Len(trades') = Len(trades) + 1
      /\ DOMAIN trades' = DOMAIN trades \cup {Len(trades')} /\ Len(trades') \notin DOMAIN trades
      /\ trades'[Len(trades')] = Filled
      /\ \A t \in DOMAIN trades : trades'[t] = trades[t]
  <2>1. trades' = Append(trades, Filled) /\ trades \in Seq(TradeType)
    BY DEF TradeCommits, Filled, TypeInv, TypeOK
  <2> QED
    BY <2>1
<1> HIDE DEF n
<1>4. /\ c.pc = "position" /\ c.kind = call[Feed].kind /\ c.obj = call[Feed].obj
      /\ c.legs = call[Feed].legs /\ c.at = call[Feed].at /\ c.late = call[Feed].late
      /\ c.paid = call[Feed].paid /\ c.id = n
  BY <1>1, Zenon DEF CallType
<1> HIDE DEF c
<1>5. call'[Feed] = c /\ Others(Feed)
  BY <1>1, <1>2 DEF Others
<1> QED
  BY <1>2, <1>3, <1>4, <1>5 DEF Carries, n

-----------------------------------------------------------------------------
(* A step moves the feed, or leaves it and its trades alone. *)
FeedSteps ==
  \/ Dispatches \/ SettleBegins \/ Sizes \/ TradeCommits \/ PositionCommits \/ CashCommits
  \/ TradeInstalls \/ Rereads(Feed) \/ Values(Feed) \/ PointCommits(Feed)
  \/ DatabaseFails(Feed) \/ Crash

LEMMA FeedOr ==
  ASSUME TypeInv, [Next]_vars
  PROVE  FeedSteps \/ (call'[Feed] = call[Feed] /\ UNCHANGED <<trades, pos, torn>>)
<1> USE ConstantsTyped
<1>1. ASSUME NEW p \in Procs \ {Feed}, DatabaseFails(p)
      PROVE  call'[Feed] = call[Feed] /\ UNCHANGED <<trades, pos, torn>>
  BY <1>1, FaultPreserves DEF DatabaseFails, db
<1>2. CASE Restores \/ UNCHANGED vars
  BY <1>2 DEF Restores, vars, db, world
<1>3. CASE \/ \E a \in Admins : Admin(a)
           \/ \E p \in Admins \cup {Poll} : Feedback(p)
           \/ PollVisits
           \/ \E p \in Procs \ {Feed} : Rereads(p) \/ Equity(p)
  BY <1>3, FeedUnmoved
<1>4. CASE Settle \/ Rereads(Feed) \/ Equity(Feed) \/ DatabaseFails(Feed) \/ Crash
  BY <1>4 DEF Settle, Equity, FeedSteps
<1> QED
  BY <1>1, <1>2, <1>3, <1>4 DEF Next

LEMMA TradesStay ==
  ASSUME TypeInv, [Next]_vars, ~TradeCommits
  PROVE  trades' = trades
<1>1. CASE FeedSteps
  BY <1>1 DEF FeedSteps, Dispatches, SettleBegins, Sizes, PositionCommits, CashCommits,
       TradeInstalls, Rereads, Values, PointCommits, DatabaseFails, Crash, db
<1> QED
  BY <1>1, FeedOr

(* The steps that write the row. *)
LEMMA RowSteps ==
  ASSUME [Next]_vars
  PROVE  \/ \E a \in Admins : SaveCommits(a) \/ WriteCommits(a)
         \/ \E p \in Admins \cup {Poll} : MarkCommits(p)
         \/ CashCommits
         \/ row' = row
  BY DEF Next, Admin, Feedback, Settle, Equity, CreateRun, Activates, TransitionRun, LookupReads,
         TransitionInstalls, StopPops, ApplyFeedback, Learns, FeedbackInstalls, Dispatches,
         SettleBegins, Sizes, TradeCommits, PositionCommits, TradeInstalls, PollVisits, Rereads,
         Values, PointCommits, DatabaseFails, Crash, Restores, vars, db

LEMMA PollNotFeed == \A p \in Admins \cup {Poll} : p \in Procs /\ p # Feed
  BY ConstantsTyped

(* What they leave of it. *)
LEMMA RowKept ==
  ASSUME TypeInv, [Next]_vars
  PROVE  /\ row'.cash = row.cash \/ CashCommits \/ \E a \in Admins : SaveCommits(a)
         /\ \/ row'.status = row.status
            \/ \E a \in Admins : SaveCommits(a) \/ WriteCommits(a)
         /\ row.status # "absent" => row'.status # "absent"
<1> USE ConstantsTyped
<1>1. ASSUME NEW a \in Admins, WriteCommits(a)
      PROVE  row'.cash = row.cash /\ row'.status # "absent"
  <2>1. row' = [row EXCEPT !.status = call[a].kind] /\ row \in RowType
    BY <1>1 DEF WriteCommits, TypeInv, TypeOK
  <2>2. row'.status \in Statuses
    BY <1>1, SavePreserves
  <2> QED
    BY <2>1, <2>2 DEF RowType, Statuses
<1>2. ASSUME NEW p \in Admins \cup {Poll}, MarkCommits(p)
      PROVE  row'.cash = row.cash /\ row'.status = row.status
  BY <1>2 DEF MarkCommits, TypeInv, TypeOK, RowType
<1>3. CASE CashCommits
  BY <1>3, CashPreserves
<1>4. ASSUME NEW a \in Admins, SaveCommits(a) PROVE row'.status # "absent"
  BY <1>4 DEF SaveCommits, NoRow
<1> QED
  BY <1>1, <1>2, <1>3, <1>4, RowSteps

(* A run whose row is not there has not traded. *)
AbsentInv == row.status = "absent" => row = NoRow /\ trades = <<>>

LEMMA AbsentStep ==
  ASSUME TypeInv, AbsentInv, [Next]_vars
  PROVE  AbsentInv'
<1> SUFFICES ASSUME row'.status = "absent" PROVE row' = NoRow /\ trades' = <<>>
  BY DEF AbsentInv
<1>1. row.status = "absent"
  BY RowKept
<1>2. ~TradeCommits /\ ~CashCommits
  BY <1>1, FeedFields DEF TradeCommits, CashCommits, At
<1>3. ASSUME NEW p \in Procs PROVE ~MarkCommits(p) /\ ~WriteCommits(p)
  BY <1>1 DEF MarkCommits, WriteCommits, At, TypeInv, CallFits
<1>4. ASSUME NEW a \in Admins PROVE ~SaveCommits(a)
  BY DEF SaveCommits, NoRow
<1>5. row' = row
  BY <1>2, <1>3, <1>4, RowSteps, PollNotFeed, ConstantsTyped
<1> QED
  BY <1>1, <1>2, <1>5, TradesStay DEF AbsentInv

(* The trade that is being settled is the last one. *)
Kept == {"position", "cash", "reread", "install"}
Settling == call[Feed].pc \in Kept
TradeInv ==
  Settling =>
    /\ call[Feed].id = Len(trades) /\ call[Feed].id \in DOMAIN trades
    /\ trades[call[Feed].id].inst = Inst /\ trades[call[Feed].id].at = call[Feed].at

LEMMA TradeStep ==
  ASSUME TypeInv, TradeInv, [Next]_vars
  PROVE  TradeInv'
<1> USE ConstantsTyped
<1>1. ASSUME Skip \/ Dispatches \/ Values(Feed) \/ TradeInstalls \/ DatabaseFails(Feed) \/ Crash
      PROVE  ~Settling'
  <2>1. CASE Skip \/ Dispatches
    BY <2>1, SkipMoves, DispatchMoves DEF Settling, Kept
  <2>2. CASE Values(Feed)
    BY <2>2, ValueMoves DEF Settling, Kept
  <2>3. CASE TradeInstalls
    BY <2>3, GoesTo DEF TradeInstalls, Settling, Kept, Pcs
  <2>4. CASE DatabaseFails(Feed) \/ Crash
    BY <2>4, FaultPreserves, CrashPreserves, IdleTyped DEF Settling, Kept
  <2> QED
    BY <1>1, <2>1, <2>2, <2>3, <2>4
<1>2. CASE SettleBegins
  BY <1>1, <1>2, SettleMoves DEF TradeInv, Settling, Kept
<1>3. CASE Sizes
  BY <1>1, <1>3, SizeMoves DEF TradeInv, Settling, Kept
<1>4. CASE TradeCommits
  <2>1. Filled.inst = Inst /\ Filled.at = call[Feed].at /\ Inst' = Inst
    BY <1>4, TradeMoves DEF Filled, Inst, Carries
  <2> QED
    BY <1>4, <2>1, TradeMoves DEF TradeInv, Carries
<1>5. CASE PositionCommits \/ CashCommits \/ Rereads(Feed)
  <2>1. Settling
    BY <1>5 DEF PositionCommits, CashCommits, Rereads, At, Settling, Kept
  <2>2. trades' = trades
    BY <1>5 DEF PositionCommits, CashCommits, Rereads, db
  <2>3. Carries(Feed) /\ call'[Feed].id = call[Feed].id
    BY <1>5, GoesTo, RereadMoves DEF PositionCommits, CashCommits, Pcs
  <2> QED
    BY <2>1, <2>2, <2>3 DEF TradeInv, Carries, Inst
<1>6. CASE PointCommits(Feed)
  BY <1>1, <1>6 DEF PointCommits, TradeInv
<1>7. CASE call'[Feed] = call[Feed] /\ trades' = trades
  BY <1>7 DEF TradeInv, Settling, Inst
<1> QED
  BY <1>1, <1>2, <1>3, <1>4, <1>5, <1>6, <1>7, FeedOr DEF TradeInv, FeedSteps

(* Nothing was cut short where nothing broke. *)
TornInv == Free({"crash", "fault"}) => torn = {}

LEMMA UpsetGrows ==
  ASSUME [Next]_vars
  PROVE  upset \subseteq upset' /\ \A what : Free(what)' => Free(what)
<1>1. upset \subseteq upset'
  BY DEF Next, Admin, Feedback, Settle, Equity, CreateRun, SaveCommits, Activates, TransitionRun,
         LookupReads, WriteCommits, TransitionInstalls, StopPops, ApplyFeedback, Learns,
         MarkCommits, FeedbackInstalls, Dispatches, SettleBegins, Sizes, TradeCommits,
         PositionCommits, CashCommits, TradeInstalls, PollVisits, Rereads, Values, PointCommits,
         DatabaseFails, Crash, Restores, vars, world, Upset, NoteStale, Overlaps
<1> QED
  BY <1>1 DEF Free

LEMMA TornStep ==
  ASSUME TypeInv, TornInv, [Next]_vars
  PROVE  TornInv'
<1>1. CASE Crash \/ \E p \in Procs : DatabaseFails(p)
  BY <1>1 DEF Crash, DatabaseFails, Upset, TornInv, Free
<1>2. CASE ~Crash /\ ~\E p \in Procs : DatabaseFails(p)
  <2>1. torn' = torn
    BY <1>2, ConstantsTyped, FeedOr DEF FeedSteps, Dispatches, SettleBegins, Sizes, TradeCommits,
       PositionCommits, CashCommits, TradeInstalls, Rereads, Values, PointCommits, world
  <2> QED
    BY <2>1, UpsetGrows DEF TornInv
<1> QED
  BY <1>1, <1>2

-----------------------------------------------------------------------------
(* Life cycle calls that do not overlap.  There is one object at most; a   *)
(* call keeps to the object that _active holds; one that found none binds  *)
(* the first; and what the call wrote is still what the row says.          *)
Steady(a) ==
  /\ call[a].kind = "create" => call[a].obj # 0 /\ call[a].pc \in {"save", "activate"}
  /\ call[a].kind \in Statuses => call[a].obj = active
  /\ call[a].kind \in Statuses /\ call[a].pc \in {"write", "reread", "install"} =>
       active # 0 \/ obj = <<>>
  /\ call[a].kind \in Statuses /\ call[a].pc \in {"reread", "install", "pop"} =>
       row.status = call[a].kind

(* An object that is not in _active was stopped, or is being created. *)
Retired ==
  obj # <<>> /\ active = 0 =>
    row.status \in {"stopped", "absent"} \/ \E a \in Admins : call[a].kind = "create"

Unshared == Free({"transitions"})
Solo     == Alone /\ Len(obj) <= 1 /\ Retired /\ \A a \in Admins : Steady(a)
SoloInv  == Unshared => Solo

LEMMA StatusNames ==
  /\ Statuses = {"paused", "running", "stopped"}
  /\ \A a : Transitioning(a) <=> call[a].kind \in Statuses \cup {"create"}
  BY DEF Statuses, Transitioning

LEMMA NotTransitioning ==
  ASSUME NEW a, ~Transitioning(a)
  PROVE  Steady(a)
  BY DEF Steady, Transitioning, Statuses

LEMMA Unsharing ==
  ASSUME NEW a \in Admins, Overlaps(a)
  PROVE  Unshared' => \A b \in Admins \ {a} : ~Transitioning(b)
  BY DEF Overlaps, Upset, Unshared, Free

(* A step of p, the one transition there is. *)
LEMMA SoloAlone ==
  ASSUME NEW a \in Admins, \A b \in Admins \ {a} : ~Transitioning(b), Others(a),
         Len(obj') <= 1, Retired', Steady(a)'
  PROVE  Solo'
<1>1. \A b \in Admins \ {a} : call'[b] = call[b] /\ ~Transitioning(b)'
  BY ConstantsTyped DEF Others, Transitioning
<1>2. Alone'
  BY <1>1 DEF Alone
<1>3. \A b \in Admins : Steady(b)'
  BY <1>1 DEF Steady, Transitioning, Statuses
<1> QED
  BY <1>2, <1>3 DEF Solo

LEMMA Lonely ==
  ASSUME Solo, NEW a \in Admins, Transitioning(a)
  PROVE  \A b \in Admins \ {a} : ~Transitioning(b)
  BY DEF Solo, Alone

(* A step that leaves the status and _active, of a call that goes on with  *)
(* its transition or has none.                                             *)
LEMMA SoloKept ==
  ASSUME Solo, NEW p \in Procs, Others(p), row'.status = row.status, active' = active,
         obj = <<>> <=> obj' = <<>>, Len(obj') <= 1,
         call[p].kind = "create" => row.status = "absent",
         ~Transitioning(p)' \/ (Transitioning(p) /\ (p \in Admins => Steady(p)'))
  PROVE  Solo'
<1> USE ConstantsTyped
<1>1. \A b \in Admins : b # p => call'[b] = call[b]
  BY DEF Others
<1>2. \A b \in Admins : Transitioning(b)' => Transitioning(b)
  BY <1>1 DEF Transitioning
<1>3. Alone'
  BY <1>2 DEF Solo, Alone
<1>4. ASSUME NEW b \in Admins PROVE Steady(b)'
  <2>1. CASE b # p
    BY <1>1, <2>1 DEF Solo, Steady
  <2>2. CASE b = p /\ ~Transitioning(p)'
    BY <2>2 DEF Steady, Transitioning, Statuses
  <2> QED
    BY <2>1, <2>2
<1>5. Retired'
  <2>1. CASE row.status \in {"stopped", "absent"}
    BY <2>1 DEF Retired
  <2>2. CASE row.status \notin {"stopped", "absent"}
    <3>1. \A a \in Admins : call[a].kind = "create" => call'[a].kind = "create"
      BY <1>1, <2>2
    <3> QED
      BY <2>2, <3>1 DEF Solo, Retired
  <2> QED
    BY <2>1, <2>2
<1> QED
  BY <1>3, <1>4, <1>5 DEF Solo

LEMMA SoloCreate ==
  ASSUME TypeInv, NEW a \in Admins, CreateRun(a), Unshared'
  PROVE  Solo'
<1>1. \A b \in Admins \ {a} : ~Transitioning(b)
  BY Unsharing DEF CreateRun
<1>2. Moves(a, "save", "create", 1)
  BY CreateMoves
<1>3. Len(obj') <= 1
  BY DEF CreateRun
<1>4. Steady(a)' /\ Retired'
  BY <1>2 DEF Moves, Steady, Retired, Statuses
<1> QED
  BY <1>1, <1>2, <1>3, <1>4, SoloAlone DEF Moves

LEMMA SoloSave ==
  ASSUME TypeInv, StopInv, Solo, NEW a \in Admins, SaveCommits(a)
  PROVE  Solo'
<1> USE ConstantsTyped
<1>1. call[a].kind = "create" /\ call[a].pc = "save"
  BY DEF SaveCommits, At, StopInv, Kinded
<1>2. call'[a].pc = "activate" /\ Carries(a)
  BY GoesTo DEF SaveCommits, Pcs
<1>3. obj' = obj /\ active' = active
  BY DEF SaveCommits, memory
<1>4. \A b \in Admins \ {a} : ~Transitioning(b)
  BY <1>1, Lonely DEF Transitioning
<1>5. Steady(a)' /\ Retired' /\ Len(obj') <= 1
  BY <1>1, <1>2, <1>3 DEF Carries, Steady, Retired, Statuses, Solo
<1> QED
  BY <1>2, <1>4, <1>5, SoloAlone DEF Carries

LEMMA SoloActivate ==
  ASSUME TypeInv, StopInv, Solo, NEW a \in Admins, Activates(a)
  PROVE  Solo'
<1> USE ConstantsTyped
<1>1. call[a].kind = "create" /\ call[a].obj # 0
  BY DEF Activates, At, StopInv, Kinded, Solo, Steady
<1>2. Moves(a, "idle", "none", 0)
  BY Returns DEF Activates
<1>3. obj' = obj /\ active' # 0
  BY <1>1 DEF Activates
<1>4. \A b \in Admins \ {a} : ~Transitioning(b)
  BY <1>1, Lonely DEF Transitioning
<1>5. Steady(a)' /\ Retired' /\ Len(obj') <= 1
  BY <1>2, <1>3 DEF Moves, Steady, Retired, Statuses, Solo
<1> QED
  BY <1>2, <1>4, <1>5, SoloAlone DEF Moves

LEMMA SoloTransition ==
  ASSUME TypeInv, Solo, NEW a \in Admins, NEW status \in Statuses, TransitionRun(a, status),
         Unshared'
  PROVE  Solo'
<1> USE ConstantsTyped
<1>1. \A b \in Admins \ {a} : ~Transitioning(b)
  BY Unsharing DEF TransitionRun
<1>2. Moves(a, IF active = 0 THEN "lookup" ELSE "write", status, active)
  BY TransitionMoves
<1>3. obj' = obj /\ active' = active /\ row' = row /\ call[a].pc = "idle"
  BY DEF TransitionRun, memory, db, Called, At
<1>4. Len(obj') <= 1
  BY <1>3 DEF Solo
<1>5. Steady(a)'
  <2>1. status # "create"
    BY DEF Statuses
  <2>2. call'[a].pc = "write" => active # 0
    BY <1>2 DEF Moves
  <2>3. call'[a].pc \in {"lookup", "write"}
    BY <1>2 DEF Moves
  <2> QED
    BY <1>2, <1>3, <2>1, <2>2, <2>3 DEF Moves, Steady
<1>6. Retired'
  <2>1. call[a].kind # "create"
    BY <1>3 DEF Solo, Steady
  <2>2. \A b \in Admins : call[b].kind # "create"
    BY <1>1, <2>1 DEF Transitioning
  <2> QED
    BY <1>3, <2>2 DEF Solo, Retired
<1> QED
  BY <1>1, <1>2, <1>4, <1>5, <1>6, SoloAlone DEF Moves

LEMMA SoloLookup ==
  ASSUME TypeInv, Solo, NEW a \in Admins, LookupReads(a)
  PROVE  Solo'
<1> USE ConstantsTyped
<1>1. obj' = obj /\ active' = active /\ row' = row /\ call[a].pc = "lookup"
  BY DEF LookupReads, memory, db, At
<1>2. call[a].kind \in Statuses /\ Transitioning(a)
  BY <1>1 DEF TypeInv, CallFits, Transitioning, Statuses
<1>3. call[a].kind # "create" /\ Len(obj') <= 1
  BY <1>1, <1>2 DEF Statuses, Solo
<1>4. CASE Return(a)
  <2>1. Others(a) /\ ~Transitioning(a)'
    BY <1>4, Returns DEF Moves, Transitioning
  <2> QED
    BY <1>1, <1>3, <2>1, SoloKept
<1>5. CASE row.status \in AllowedFrom(call[a].kind) /\ Goto(a, "write")
  <2>1. call'[a].pc = "write" /\ Carries(a)
    BY <1>5, GoesTo DEF Pcs
  <2>2. row.status \notin {"stopped", "absent"}
    BY <1>2, <1>5 DEF AllowedFrom, Statuses
  <2>3. \A b \in Admins : call[b].kind # "create"
    BY <1>2, <1>3, Lonely DEF Transitioning
  <2>4. active # 0 \/ obj = <<>>
    BY <2>2, <2>3 DEF Solo, Retired
  <2>5. Steady(a)'
    BY <1>1, <1>3, <2>1, <2>4 DEF Carries, Steady, Solo
  <2> QED
    BY <1>1, <1>2, <1>3, <2>1, <2>5, SoloKept DEF Carries
<1> QED
  BY <1>4, <1>5 DEF LookupReads

LEMMA SoloWrite ==
  ASSUME TypeInv, Solo, NEW a \in Admins, WriteCommits(a)
  PROVE  Solo'
<1> USE ConstantsTyped
<1>1. obj' = obj /\ active' = active /\ call[a].pc = "write"
  BY DEF WriteCommits, memory, At
<1>2. call[a].kind \in Statuses /\ Transitioning(a)
  BY <1>1 DEF TypeInv, CallFits, Transitioning, Statuses
<1>3. call'[a].pc = "reread" /\ Carries(a)
  BY GoesTo DEF WriteCommits, Pcs
<1>4. row'.status = call[a].kind
  BY DEF WriteCommits, TypeInv, TypeOK, RowType
<1>5. \A b \in Admins \ {a} : ~Transitioning(b)
  BY <1>2, Lonely
<1>6. Steady(a)' /\ Retired' /\ Len(obj') <= 1
  BY <1>1, <1>2, <1>3, <1>4 DEF Carries, Steady, Retired, Statuses, Solo
<1> QED
  BY <1>3, <1>5, <1>6, SoloAlone DEF Carries

LEMMA OneOf ==
  ASSUME NEW n \in Nat, NEW m \in 0..n, m # 0, n <= 1
  PROVE  m = 1 /\ n = 1
  OBVIOUS

(* What an install leaves: one object, in _active unless it was a stop. *)
LEMMA SoloInstall ==
  ASSUME TypeInv, Solo, NEW a \in Admins, TransitionInstalls(a)
  PROVE  /\ Solo'
         /\ row.status = call[a].kind
         /\ \/ call[a].obj # 0 /\ SetRecord(a) /\ Len(obj) = 1 /\ call[a].obj = 1
            \/ obj = <<>> /\ obj' = <<Bound(call[a].row)>>
            \/ obj = <<>> /\ obj' = <<>>
<1> USE ConstantsTyped
<1>1. call[a].pc = "install" /\ call[a].kind \in Statuses /\ Transitioning(a) /\ row' = row
  BY DEF TransitionInstalls, At, db, Transitioning, Statuses
<1>2. /\ row.status = call[a].kind /\ call[a].obj = active /\ (active # 0 \/ obj = <<>>)
      /\ Len(obj) <= 1
  BY <1>1 DEF Solo, Steady
<1>3. \A b \in Admins \ {a} : ~Transitioning(b)
  BY <1>1, Lonely
<1>4. obj \in Seq(ActiveType) /\ active \in 0..Len(obj) /\ Len(obj) \in Nat
  BY DEF TypeInv, TypeOK
<1>5. \/ Moves(a, "idle", "none", 0) /\ call[a].kind # "stopped"
      \/ Moves(a, "pop", "stopped", active) /\ call[a].kind = "stopped"
  BY <1>2, Returns, GoesTo DEF TransitionInstalls, Moves, Carries, Pcs
<1>6. CASE call[a].obj # 0 /\ SetRecord(a) /\ UNCHANGED active
  <2>1. Len(obj') = Len(obj) /\ obj' \in Seq(ActiveType)
    BY <1>1, <1>6, RecordSet DEF TransitionInstalls
  <2>2. Len(obj) = 1 /\ call[a].obj = 1
    <3>1. active # 0 /\ call[a].obj = active
      BY <1>2, <1>6
    <3>2. active = 1 /\ Len(obj) = 1
      BY <1>2, <1>4, <3>1, OneOf, Zenon
    <3> QED
      BY <3>1, <3>2
  <2>3. Retired' /\ Len(obj') <= 1 /\ active' = active /\ active # 0
    BY <1>2, <1>6, <2>1, <2>2 DEF Retired
  <2>4. Steady(a)'
    BY <1>1, <1>2, <1>5, <2>3 DEF Moves, Steady, Statuses
  <2> QED
    BY <1>2, <1>3, <1>5, <1>6, <2>2, <2>3, <2>4, SoloAlone DEF Moves
<1>7. CASE /\ call[a].obj = 0 /\ call[a].kind # "stopped"
           /\ obj' = Append(obj, Bound(call[a].row)) /\ active' = Len(obj) + 1
  <2>1. obj = <<>> /\ obj' = <<Bound(call[a].row)>> /\ active' = 1
    BY <1>2, <1>7
  <2>2. Retired' /\ Len(obj') <= 1
    BY <2>1 DEF Retired
  <2>3. Steady(a)' /\ Others(a)
    BY <1>5, <1>7 DEF Moves, Steady, Statuses
  <2> QED
    BY <1>2, <1>3, <2>1, <2>2, <2>3, SoloAlone
<1>8. CASE call[a].obj = 0 /\ call[a].kind = "stopped" /\ UNCHANGED memory
  <2>1. obj = <<>> /\ obj' = <<>> /\ active' = active
    BY <1>2, <1>8 DEF memory
  <2>2. Retired' /\ Len(obj') <= 1
    BY <2>1 DEF Retired
  <2>3. Steady(a)' /\ Others(a)
    BY <1>1, <1>2, <1>5, <1>8, <2>1 DEF Moves, Steady, Statuses
  <2> QED
    BY <1>2, <1>3, <2>1, <2>2, <2>3, SoloAlone
<1> QED
  BY <1>6, <1>7, <1>8 DEF TransitionInstalls

LEMMA SoloPop ==
  ASSUME TypeInv, StopInv, Solo, NEW a \in Admins, StopPops(a)
  PROVE  Solo'
<1> USE ConstantsTyped
<1>1. call[a].pc = "pop" /\ call[a].kind = "stopped" /\ Transitioning(a)
  BY DEF StopPops, At, StopInv, Kinded, Transitioning
<1>2. row.status = "stopped" /\ row' = row /\ obj' = obj
  BY <1>1 DEF Solo, Steady, StopPops, db, Statuses
<1>3. Others(a) /\ call'[a].kind = "none"
  BY PopMoves DEF Moves
<1>4. \A b \in Admins \ {a} : ~Transitioning(b)
  BY <1>1, Lonely
<1>5. Steady(a)' /\ Retired' /\ Len(obj') <= 1
  BY <1>2, <1>3 DEF Steady, Retired, Statuses, Solo
<1> QED
  BY <1>3, <1>4, <1>5, SoloAlone

-----------------------------------------------------------------------------
(* The steps that do not change a life cycle leave _active, the status and *)
(* the number of objects.                                                  *)
Beside ==
  \/ \E p \in Procs : Feedback(p) \/ Rereads(p) \/ Equity(p) \/ DatabaseFails(p)
  \/ Settle \/ PollVisits

LEMMA BesideKeeps ==
  ASSUME TypeInv, Beside
  PROVE  /\ active' = active /\ row'.status = row.status
         /\ Len(obj') = Len(obj) /\ (obj = <<>> <=> obj' = <<>>)
<1> USE ConstantsTyped
<1>1. active' = active
  BY DEF Beside, Feedback, ApplyFeedback, Learns, MarkCommits, FeedbackInstalls, Rereads, Equity,
         Values, PointCommits, DatabaseFails, Settle, Dispatches, SettleBegins, Sizes,
         TradeCommits, PositionCommits, CashCommits, TradeInstalls, PollVisits, memory
<1>2. row'.status = row.status
  <2>1. ASSUME NEW p \in Procs, MarkCommits(p) PROVE row'.status = row.status
    BY <2>1 DEF MarkCommits, TypeInv, TypeOK, RowType
  <2>2. CASE CashCommits
    BY <2>2, CashPreserves
  <2>3. CASE ~CashCommits /\ ~\E p \in Procs : MarkCommits(p)
    BY <2>3 DEF Beside, Feedback, ApplyFeedback, Learns, FeedbackInstalls, Rereads, Equity,
         Values, PointCommits, DatabaseFails, Settle, Dispatches, SettleBegins, Sizes,
         TradeCommits, PositionCommits, TradeInstalls, PollVisits, db
  <2> QED
    BY <2>1, <2>2, <2>3
<1>3. Len(obj') = Len(obj) /\ obj \in Seq(ActiveType) /\ obj' \in Seq(ActiveType)
  <2>1. ASSUME NEW p \in Procs, FeedbackInstalls(p)
        PROVE  Len(obj') = Len(obj) /\ obj' \in Seq(ActiveType)
    BY <2>1, RecordSet DEF FeedbackInstalls
  <2>2. CASE TradeInstalls
    <3>1. obj' \in Seq(ActiveType)
      BY <2>2, TradeInstallPreserves DEF TypeInv, TypeOK
    <3>2. PICK n, o : obj' = [obj EXCEPT ![n] = o]
      BY <2>2 DEF TradeInstalls
    <3>3. DOMAIN obj' = DOMAIN obj
      BY <3>2
    <3> QED
      BY <3>1, <3>3 DEF TypeInv, TypeOK
  <2>3. CASE ~TradeInstalls /\ ~\E p \in Procs : FeedbackInstalls(p)
    <3>1. obj' = obj
      BY <2>3 DEF Beside, Feedback, ApplyFeedback, Learns, MarkCommits, Rereads, Equity,
         Values, PointCommits, DatabaseFails, Settle, Dispatches, SettleBegins, Sizes,
         TradeCommits, PositionCommits, CashCommits, PollVisits, memory
    <3> QED
      BY <3>1 DEF TypeInv, TypeOK
  <2>4. obj \in Seq(ActiveType)
    BY DEF TypeInv, TypeOK
  <2> QED
    BY <2>1, <2>2, <2>3, <2>4
<1>4. obj = <<>> <=> obj' = <<>>
  BY <1>3
<1> QED
  BY <1>1, <1>2, <1>3, <1>4

LEMMA FeedAlone ==
  ASSUME TypeInv, Settle \/ PollVisits \/ PointCommits(Feed)
  PROVE  \A a \in Admins : call'[a] = call[a]
<1> USE ConstantsTyped
<1>1. ASSUME NEW p \in {Feed, Poll}, Others(p) PROVE \A a \in Admins : call'[a] = call[a]
  BY <1>1 DEF Others
<1>2. CASE PollVisits
  BY <1>1, <1>2, VisitMoves DEF Moves
<1>3. CASE Skip
  BY <1>1, <1>3, SkipMoves
<1>4. CASE Settle
  BY <1>1, <1>3, <1>4, DispatchMoves, SettleMoves, SizeMoves, TradeMoves, GoesTo
     DEF Settle, PositionCommits, CashCommits, TradeInstalls, Carries, Pcs
<1>5. CASE PointCommits(Feed)
  BY <1>3, <1>5 DEF PointCommits
<1> QED
  BY <1>2, <1>4, <1>5

LEMMA SoloBeside ==
  ASSUME TypeInv, StopInv, SaveInv, Solo, Beside
  PROVE  Solo'
<1> USE ConstantsTyped
<1>0. /\ active' = active /\ row'.status = row.status
      /\ Len(obj') <= 1 /\ (obj = <<>> <=> obj' = <<>>)
  BY BesideKeeps DEF Solo
<1>1. ASSUME \A a \in Admins : call'[a] = call[a] PROVE Solo'
  BY <1>0, <1>1 DEF Solo, Alone, Transitioning, Retired, Steady
<1>2. ASSUME NEW p \in Procs \ Admins, Others(p) PROVE Solo'
  BY <1>1, <1>2 DEF Others
<1>3. ASSUME NEW p \in Admins, Others(p), ~Transitioning(p)',
             call[p].kind = "create" => row.status = "absent"
      PROVE  Solo'
  BY <1>0, <1>3, SoloKept
<1>4. ASSUME NEW p \in Procs, ApplyFeedback(p) PROVE Solo'
  <2>1. Moves(p, "learn", "feedback", active) /\ call[p].pc = "idle"
    BY <1>4, FeedbackMoves DEF ApplyFeedback, Called, At
  <2>2. p \in Admins => call[p].kind # "create" /\ ~Transitioning(p)'
    BY <2>1 DEF Solo, Steady, Moves, Transitioning
  <2> QED
    BY <1>2, <1>3, <2>1, <2>2 DEF Moves
<1>5. ASSUME NEW p \in Procs, FeedbackInstalls(p) \/ (p # Feed /\ PointCommits(p)) PROVE Solo'
  <2>1. Moves(p, "idle", "none", 0) /\ call[p].pc \in {"install", "point"}
    BY <1>5, Returns DEF FeedbackInstalls, PointCommits, At
  <2>2. p \in Admins => call[p].kind # "create" /\ ~Transitioning(p)'
    BY <2>1 DEF Solo, Steady, Moves, Transitioning
  <2> QED
    BY <1>2, <1>3, <2>1, <2>2 DEF Moves
<1>6. ASSUME NEW p \in Procs, DatabaseFails(p) PROVE Solo'
  <2>1. /\ Moves(p, "idle", "none", 0)
        /\ call[p].pc \notin {"activate", "idle"}
    BY <1>6, Returns DEF DatabaseFails
  <2>2. p \in Admins => ~Transitioning(p)' /\ (call[p].kind = "create" => row.status = "absent")
    BY <2>1 DEF Solo, Steady, Moves, Transitioning, SaveInv, Saving
  <2> QED
    BY <1>2, <1>3, <2>1, <2>2 DEF Moves
<1>7. ASSUME NEW p \in Procs, Learns(p) \/ MarkCommits(p) PROVE Solo'
  <2>1. call[p].kind = "feedback"
    BY <1>7 DEF Learns, MarkCommits, At, StopInv, Kinded
  <2>2. call'[p].kind = "feedback" /\ Others(p)
    BY <1>7, <2>1, LearnMoves, MarkMoves DEF Moves
  <2> QED
    BY <1>2, <1>3, <2>1, <2>2 DEF Transitioning
<1>8. ASSUME NEW p \in Procs, Rereads(p) \/ Values(p) PROVE Solo'
  <2>1. /\ Carries(p)
        /\ \/ call[p].pc = "reread" /\ call'[p].pc = "install"
           \/ call[p].pc = "held" /\ call'[p].pc = "point"
    BY <1>8, RereadMoves, ValueMoves
  <2>2. p \in Admins => call[p].kind # "create" /\ Steady(p)'
    BY <1>0, <2>1 DEF Solo, Steady, Carries
  <2>3. Transitioning(p)' <=> Transitioning(p)
    BY <2>1 DEF Carries, Transitioning
  <2>4. CASE p \in Admins
    BY <1>0, <2>1, <2>2, <2>3, <2>4, SoloKept DEF Carries
  <2> QED
    BY <1>2, <2>1, <2>4 DEF Carries
<1>9. CASE Settle \/ PollVisits \/ PointCommits(Feed)
  BY <1>1, <1>9, FeedAlone
<1> QED
  BY <1>4, <1>5, <1>6, <1>7, <1>8, <1>9 DEF Beside, Feedback, Equity

LEMMA SoloEnvironment ==
  ASSUME TypeInv, Down, Solo, Crash \/ Restores \/ UNCHANGED vars
  PROVE  Solo'
<1> USE ConstantsTyped
<1>1. CASE Crash
  <2>1. /\ \A a \in Admins : call'[a] = Idle
        /\ obj' = <<>>
    BY <1>1, CrashPreserves DEF Crash
  <2>2. \A a \in Admins : ~Transitioning(a)'
    BY <2>1, IdleTyped DEF Transitioning
  <2>3. \A a \in Admins : Steady(a)'
    BY <2>2 DEF Steady, Transitioning, Statuses
  <2> QED
    BY <2>1, <2>2, <2>3 DEF Solo, Alone, Retired
<1>2. CASE Restores
  <2>1. \A a \in Admins : call'[a] = Idle
    BY <1>2 DEF Restores, Down
  <2>2. \A a \in Admins : ~Transitioning(a)' /\ ~Transitioning(a)
    BY <1>2, <2>1, IdleTyped DEF Transitioning, Restores
  <2>3. \A a \in Admins : Steady(a)'
    BY <2>2 DEF Steady, Transitioning, Statuses
  <2>4. row' = row
    BY <1>2 DEF Restores, db
  <2>5. Len(obj') <= 1 /\ Retired'
    <3>1. CASE obj' = <<Bound(row)>> /\ active' = 1
      BY <3>1 DEF Retired
    <3>2. CASE obj' = obj /\ active' = active
      BY <2>2, <2>4, <3>2 DEF Solo, Retired, Transitioning
    <3> QED
      BY <1>2, <3>1, <3>2 DEF Restores, memory
  <2> QED
    BY <2>2, <2>3, <2>5 DEF Solo, Alone
<1>3. CASE UNCHANGED vars
  BY <1>3 DEF Solo, Alone, Transitioning, Retired, Steady, vars, db, memory
<1> QED
  BY <1>1, <1>2, <1>3

LEMMA SoloStep ==
  ASSUME TypeInv, Down, StopInv, SaveInv, SoloInv, [Next]_vars
  PROVE  SoloInv'
<1> USE ConstantsTyped
<1> SUFFICES ASSUME Unshared' PROVE Solo'
  BY DEF SoloInv
<1>0. Solo
  BY UpsetGrows DEF SoloInv, Unshared
<1>1. ASSUME NEW a \in Admins, Admin(a) PROVE Solo'
  BY <1>0, <1>1, SoloCreate, SoloSave, SoloActivate, SoloTransition, SoloLookup, SoloWrite,
     SoloInstall, SoloPop DEF Admin
<1>2. CASE Beside
  BY <1>0, <1>2, SoloBeside
<1>3. CASE Crash \/ Restores \/ UNCHANGED vars
  BY <1>0, <1>3, SoloEnvironment
<1> QED
  BY <1>1, <1>2, <1>3 DEF Next, Beside

LEMMA SoloInit == Init => SoloInv /\ AbsentInv /\ TradeInv /\ TornInv
<1> SUFFICES ASSUME Init PROVE SoloInv /\ AbsentInv /\ TradeInv /\ TornInv
  OBVIOUS
<1> USE ConstantsTyped
<1>1. obj = <<>> /\ trades = <<>> /\ torn = {} /\ \A p \in Procs : call[p] = Idle
  BY DEF Init
<1>2. \A a \in Admins : ~Transitioning(a)
  BY <1>1, IdleTyped DEF Transitioning
<1>3. SoloInv
  BY <1>1, <1>2, NotTransitioning DEF SoloInv, Solo, Alone, Retired
<1>4. row.status = "absent" => row = NoRow
  BY DEF Init, NoRow, Statuses
<1>5. ~Settling
  BY <1>1, IdleTyped DEF Settling, Kept
<1> QED
  BY <1>1, <1>3, <1>4, <1>5 DEF AbsentInv, TradeInv, TornInv

-----------------------------------------------------------------------------
(* The records, and the row they follow. *)
LEMMA RecordSets ==
  ASSUME TypeInv, NEW p \in Procs, SetRecord(p)
  PROVE  /\ DOMAIN obj' = DOMAIN obj
         /\ \A n \in DOMAIN obj :
              /\ obj'[n].last = obj[n].last
              /\ n # call[p].obj => obj'[n] = obj[n]
              /\ n = call[p].obj => /\ obj'[n].status = call[p].row.status
                                    /\ obj'[n].cash = call[p].row.cash
<1> DEFINE m == call[p].obj
           o == [obj[m] EXCEPT !.status = call[p].row.status, !.cash = call[p].row.cash]
<1>1. obj' = [obj EXCEPT ![m] = o] /\ obj \in Seq(ActiveType)
  BY DEF SetRecord, TypeInv, TypeOK
<1>2. m \in DOMAIN obj =>
        o.status = call[p].row.status /\ o.cash = call[p].row.cash /\ o.last = obj[m].last
  <2> HAVE m \in DOMAIN obj
  <2>1. obj[m] \in ActiveType
    BY <1>1
  <2> QED
    BY <2>1, Zenon DEF ActiveType
<1> HIDE DEF o
<1> QED
  BY <1>1, <1>2

LEMMA TradeSets ==
  ASSUME TypeInv, TradeInstalls
  PROVE  /\ DOMAIN obj' = DOMAIN obj /\ call[Feed].obj \in DOMAIN obj
         /\ \A n \in DOMAIN obj :
              n # call[Feed].obj => obj'[n] = obj[n]
         /\ LET o == obj'[call[Feed].obj] IN
              /\ o.status = call[Feed].row.status
              /\ o.cash = call[Feed].row.cash
              /\ o.last = [Record.last EXCEPT ![Inst] = call[Feed].at]
<1> DEFINE m == call[Feed].obj
           o == [status |-> call[Feed].row.status, cash |-> call[Feed].row.cash,
                 last |-> [obj[m].last EXCEPT ![Inst] = call[Feed].at]]
<1>1. obj' = [obj EXCEPT ![m] = o] /\ obj \in Seq(ActiveType)
  BY DEF TradeInstalls, TypeInv, TypeOK
<1>2. m \in DOMAIN obj
  BY <1>1, FeedFields DEF TradeInstalls, At
<1>3. /\ o.status = call[Feed].row.status /\ o.cash = call[Feed].row.cash
      /\ o.last = [Record.last EXCEPT ![Inst] = call[Feed].at]
  BY DEF Record
<1> HIDE DEF o
<1>4. obj'[m] = o
  BY <1>1, <1>2
<1> QED
  BY <1>1, <1>2, <1>3, <1>4

(* A row that is not stale when it replaces the record. *)
LEMMA NotStale ==
  ASSUME TypeInv, NEW p \in Procs, NoteStale(p), Free({"stale"})'
  PROVE  call[p].row.status = row.status /\ call[p].row.cash = row.cash
<1>1. ~Stale(p)
  BY DEF NoteStale, Upset, Free
<1>2. call[p].row = [row EXCEPT !.mark = 0] /\ row \in RowType
  BY <1>1 DEF Stale, TypeInv, TypeOK
<1> QED
  BY <1>2 DEF RowType

LEMMA ObjSteps ==
  ASSUME [Next]_vars
  PROVE  \/ \E a \in Admins : CreateRun(a) \/ TransitionInstalls(a)
         \/ \E p \in Admins \cup {Poll} : FeedbackInstalls(p)
         \/ TradeInstalls \/ Crash \/ Restores
         \/ obj' = obj
  BY DEF Next, Admin, Feedback, Settle, Equity, SaveCommits, Activates, TransitionRun, LookupReads,
         WriteCommits, StopPops, ApplyFeedback, Learns, MarkCommits, Dispatches, SettleBegins,
         Sizes, TradeCommits, PositionCommits, CashCommits, PollVisits, Rereads, Values,
         PointCommits, DatabaseFails, vars, memory

(* A record keeps its balance and status, or takes those of the row. *)
Follows(n) ==
  \/ n \in DOMAIN obj /\ obj'[n].status = obj[n].status /\ obj'[n].cash = obj[n].cash
  \/ obj'[n].status \in {row.status, "paused"} /\ obj'[n].cash = row.cash

LEMMA BoundFields ==
  ASSUME NEW r
  PROVE  Bound(r).status = r.status /\ Bound(r).cash = r.cash
  BY DEF Bound

LEMMA RecordsFollow ==
  ASSUME TypeInv, [Next]_vars, Free({"stale"})'
  PROVE  \A n \in DOMAIN obj' : Follows(n)
<1> USE ConstantsTyped
<1>0. obj \in Seq(ActiveType)
  BY DEF TypeInv, TypeOK
<1>1. ASSUME NEW a \in Admins, CreateRun(a) PROVE \A n \in DOMAIN obj' : Follows(n)
  <2> DEFINE r == [NoRow EXCEPT !.status = "paused"]
  <2>1. obj' = <<Bound(r)>> /\ r.status = "paused" /\ r.cash = row.cash
    BY <1>1 DEF CreateRun, NoRow
  <2> HIDE DEF r
  <2> QED
    BY <2>1, BoundFields DEF Follows
<1>2. ASSUME NEW p \in Procs, SetRecord(p), NoteStale(p)
      PROVE  \A n \in DOMAIN obj' : Follows(n)
  BY <1>2, RecordSets, NotStale DEF Follows
<1>3. ASSUME NEW a \in Admins, TransitionInstalls(a) PROVE \A n \in DOMAIN obj' : Follows(n)
  <2>1. CASE obj' = Append(obj, Bound(call[a].row))
    <3>1. call[a].row.status = row.status /\ call[a].row.cash = row.cash
      BY <1>3, NotStale DEF TransitionInstalls
    <3>2. \A n \in DOMAIN obj' : (n \in DOMAIN obj /\ obj'[n] = obj[n])
                                  \/ obj'[n] = Bound(call[a].row)
      BY <1>0, <2>1
    <3> QED
      BY <3>1, <3>2, BoundFields DEF Follows
  <2>2. CASE obj' = obj
    BY <2>2 DEF Follows
  <2> QED
    BY <1>2, <1>3, <2>1, <2>2 DEF TransitionInstalls, memory
<1>4. ASSUME NEW p \in Procs, FeedbackInstalls(p) PROVE \A n \in DOMAIN obj' : Follows(n)
  BY <1>2, <1>4 DEF FeedbackInstalls
<1>5. CASE TradeInstalls
  <2>1. call[Feed].row.status = row.status /\ call[Feed].row.cash = row.cash
    BY <1>5, NotStale DEF TradeInstalls
  <2> QED
    BY <1>5, <2>1, TradeSets DEF Follows
<1>6. CASE Crash
  BY <1>6 DEF Crash
<1>7. CASE Restores
  <2>1. CASE obj' = <<Bound(row)>>
    BY <2>1, BoundFields DEF Follows
  <2>2. CASE obj' = obj
    BY <2>2 DEF Follows
  <2> QED
    BY <1>7, <2>1, <2>2 DEF Restores, memory
<1>8. CASE obj' = obj
  BY <1>8 DEF Follows
<1> QED
  BY <1>1, <1>3, <1>4, <1>5, <1>6, <1>7, <1>8, ObjSteps, PollNotFeed
-----------------------------------------------------------------------------
(* Pausing and stopping.  After a pause or a stop took effect nothing says *)
(* that the run is running, and no start is under way, until one is called *)
(* for; so the feed begins no trade.                                       *)
Calm ==
  /\ row.status # "running" /\ \A n \in DOMAIN obj : obj[n].status # "running"
  /\ \A a \in Admins : call[a].kind # "running"
Timely == ~call[Feed].late /\ \A t \in DOMAIN trades : ~trades[t].late
Orderly == Free({"transitions", "stale"})
QuietInv == Orderly => (quiet => Calm) /\ Timely

(* No call becomes a start, unless a start is called for. *)
LEMMA NoStart ==
  ASSUME TypeInv, [Next]_vars, \A a \in Admins : ~TransitionRun(a, "running")
  PROVE  \A a \in Admins : call'[a].kind = "running" => call[a].kind = "running"
<1> USE ConstantsTyped
<1> DEFINE Goal == \A a \in Admins : call'[a].kind = "running" => call[a].kind = "running"
<1>1. ASSUME NEW p \in Procs, Others(p),
             call'[p].kind \in {call[p].kind, "none", "create", "paused", "stopped", "feedback"}
      PROVE  Goal
  BY <1>1 DEF Others
<1>2. ASSUME NEW a \in Admins, Admin(a) PROVE Goal
  <2>1. CASE CreateRun(a)
    BY <1>1, <2>1, CreateMoves DEF Moves
  <2>2. CASE SaveCommits(a) \/ WriteCommits(a)
    BY <1>1, <2>2, GoesTo DEF SaveCommits, WriteCommits, Carries, Pcs
  <2>3. CASE Activates(a)
    BY <1>1, <2>3, Returns DEF Activates, Moves
  <2>4. ASSUME NEW status \in Statuses, TransitionRun(a, status) PROVE Goal
    <3>1. status \in {"paused", "stopped"}
      BY <2>4 DEF Statuses
    <3> QED
      BY <1>1, <2>4, <3>1, TransitionMoves DEF Moves
  <2>5. CASE LookupReads(a)
    BY <1>1, <2>5, Returns, GoesTo DEF LookupReads, Moves, Carries, Pcs
  <2>6. CASE TransitionInstalls(a)
    BY <1>1, <2>6, Returns, GoesTo DEF TransitionInstalls, Moves, Carries, Pcs
  <2>7. CASE StopPops(a)
    BY <1>1, <2>7, PopMoves DEF Moves
  <2> QED
    BY <1>2, <2>1, <2>2, <2>3, <2>4, <2>5, <2>6, <2>7 DEF Admin
<1>3. ASSUME NEW p \in Procs, Feedback(p) PROVE Goal
  BY <1>1, <1>3, FeedbackMoves, LearnMoves, MarkMoves, Returns DEF Feedback, FeedbackInstalls, Moves
<1>4. CASE Settle \/ PollVisits \/ PointCommits(Feed)
  BY <1>4, FeedAlone
<1>5. ASSUME NEW p \in Procs, Rereads(p) \/ Values(p) PROVE Goal
  BY <1>1, <1>5, RereadMoves, ValueMoves DEF Carries
<1>6. ASSUME NEW p \in Procs, DatabaseFails(p) \/ (p # Feed /\ PointCommits(p)) PROVE Goal
  BY <1>1, <1>6, Returns DEF DatabaseFails, PointCommits, Moves
<1>7. CASE Crash
  BY <1>7, CrashPreserves, IdleTyped
<1>8. CASE Restores \/ UNCHANGED vars
  BY <1>8 DEF Restores, vars
<1> QED
  BY <1>2, <1>3, <1>4, <1>5, <1>6, <1>7, <1>8 DEF Next, Equity

LEMMA QuietSteps ==
  ASSUME [Next]_vars
  PROVE  \/ \E a \in Admins, status \in Statuses : TransitionRun(a, status)
         \/ \E a \in Admins : TransitionInstalls(a)
         \/ quiet' = quiet
  BY DEF Next, Admin, Feedback, Settle, Equity, CreateRun, SaveCommits, Activates, LookupReads,
         WriteCommits, StopPops, ApplyFeedback, Learns, MarkCommits, FeedbackInstalls, Dispatches,
         SettleBegins, Sizes, TradeCommits, PositionCommits, CashCommits, TradeInstalls,
         PollVisits, Rereads, Values, PointCommits, DatabaseFails, Crash, Restores, vars, world

(* What was calm stays calm without a start. *)
LEMMA CalmKept ==
  ASSUME TypeInv, StopInv, [Next]_vars, Free({"stale"})', Calm,
         \A a \in Admins : ~TransitionRun(a, "running")
  PROVE  Calm'
<1>1. \A a \in Admins : call'[a].kind # "running"
  BY NoStart DEF Calm
<1>2. \A n \in DOMAIN obj' : obj'[n].status # "running"
  BY RecordsFollow DEF Calm, Follows
<1>3. row'.status # "running"
  <2>1. ASSUME NEW a \in Admins, WriteCommits(a) PROVE row'.status # "running"
    BY <2>1 DEF WriteCommits, Calm, TypeInv, TypeOK, RowType
  <2>2. ASSUME NEW a \in Admins, SaveCommits(a) PROVE row'.status # "running"
    BY <2>2 DEF SaveCommits, NoRow
  <2> QED
    BY <2>1, <2>2, RowKept DEF Calm
<1> QED
  BY <1>1, <1>2, <1>3 DEF Calm

LEMMA QuietStep ==
  ASSUME TypeInv, StopInv, SoloInv, QuietInv, [Next]_vars
  PROVE  QuietInv'
<1> USE ConstantsTyped
<1> SUFFICES ASSUME Orderly' PROVE (quiet' => Calm') /\ Timely'
  BY DEF QuietInv
<1>0. Solo /\ (quiet => Calm) /\ Timely /\ Free({"stale"})'
  <2>1. Orderly
    BY UpsetGrows DEF Orderly
  <2>2. Unshared /\ Free({"stale"})'
    BY <2>1 DEF Orderly, Unshared, Free
  <2> QED
    BY <2>1, <2>2 DEF QuietInv, SoloInv
<1>1. ASSUME quiet' PROVE Calm'
  <2>1. CASE quiet
    <3>1. ASSUME NEW a \in Admins PROVE ~TransitionRun(a, "running")
      BY <1>1 DEF TransitionRun
    <3> QED
      BY <1>0, <2>1, <3>1, CalmKept
  <2>2. CASE ~quiet
    <3>1. PICK a \in Admins : TransitionInstalls(a)
      BY <1>1, <2>2, QuietSteps DEF TransitionRun
    <3>2. /\ call[a].kind # "running" /\ \A b \in Admins \ {a} : call[b].kind # "running"
          /\ row' = row /\ NoteStale(a)
      BY <1>1, <3>1 DEF TransitionInstalls, db
    <3>3. row.status = call[a].kind /\ row.status # "running"
      BY <1>0, <3>1, <3>2, SoloInstall
    <3>4. call[a].row.status = row.status
      BY <1>0, <3>2, NotStale
    <3>5. ASSUME NEW n \in DOMAIN obj' PROVE obj'[n].status # "running"
      <4>1. CASE call[a].obj # 0 /\ SetRecord(a) /\ Len(obj) = 1 /\ call[a].obj = 1
        <5>1. DOMAIN obj = {1}
          BY <4>1 DEF TypeInv, TypeOK
        <5>2. n = call[a].obj /\ n \in DOMAIN obj
          BY <4>1, <5>1, RecordSets
        <5> QED
          BY <3>3, <3>4, <4>1, <5>2, RecordSets
      <4>2. CASE obj' = <<Bound(call[a].row)>>
        BY <3>3, <3>4, <4>2, BoundFields
      <4>3. CASE obj' = <<>>
        BY <4>3
      <4> QED
        BY <1>0, <3>1, <4>1, <4>2, <4>3, SoloInstall
    <3>6. \A b \in Admins : call[b].kind # "running" /\ ~TransitionRun(b, "running")
      BY <1>1, <3>2 DEF TransitionRun
    <3>7. \A b \in Admins : call'[b].kind # "running"
      BY <3>6, NoStart
    <3> QED
      BY <3>2, <3>3, <3>5, <3>7 DEF Calm
  <2> QED
    BY <2>1, <2>2
<1>2. Timely'
  <2>1. ~call'[Feed].late
    <3>0. Idle.late = FALSE
      BY DEF Idle
    <3>1. CASE Skip \/ Dispatches \/ DatabaseFails(Feed) \/ Crash
      <4>1. CASE Skip \/ Dispatches
        BY <4>1, SkipMoves, DispatchMoves
      <4>2. CASE DatabaseFails(Feed) \/ Crash
        BY <3>0, <4>2, FaultPreserves, CrashPreserves
      <4> QED
        BY <3>1, <4>1, <4>2
    <3>2. ASSUME Carries(Feed) PROVE ~call'[Feed].late
      BY <1>0, <3>2 DEF Carries, Timely
    <3>3. CASE SettleBegins
      <4>1. ASSUME Record.status = "running" PROVE ~quiet
        <5>1. call[Feed].obj \in DOMAIN obj
          BY <3>3, FeedFields DEF SettleBegins, At, TypeInv, TypeOK
        <5> QED
          BY <1>0, <4>1, <5>1 DEF Calm, Record
      <4> QED
        BY <3>1, <3>3, <4>1, SettleMoves
    <3>4. CASE Sizes
      BY <3>1, <3>2, <3>4, SizeMoves
    <3>5. CASE \/ TradeCommits \/ PositionCommits \/ CashCommits \/ TradeInstalls
               \/ Rereads(Feed) \/ Values(Feed)
      BY <3>2, <3>5, TradeMoves, RereadMoves, ValueMoves, GoesTo
         DEF PositionCommits, CashCommits, TradeInstalls, Pcs
    <3>6. CASE PointCommits(Feed)
      BY <3>1, <3>6 DEF PointCommits
    <3>7. CASE call'[Feed] = call[Feed]
      BY <1>0, <3>7 DEF Timely
    <3> QED
      BY <3>1, <3>3, <3>4, <3>5, <3>6, <3>7, FeedOr DEF FeedSteps
  <2>2. \A t \in DOMAIN trades' : ~trades'[t].late
    <3>1. CASE TradeCommits
      <4>1. ~Filled.late
        BY <1>0 DEF Filled, Timely
      <4> QED
        BY <1>0, <3>1, <4>1, TradeMoves DEF Timely
    <3>2. CASE ~TradeCommits
      BY <1>0, <3>2, TradesStay DEF Timely
    <3> QED
      BY <3>1, <3>2
  <2> QED
    BY <2>1, <2>2 DEF Timely
<1> QED
  BY <1>1, <1>2

LEMMA QuietInit == Init => QuietInv
<1> SUFFICES ASSUME Init PROVE QuietInv
  OBVIOUS
<1>1. ~call[Feed].late
  BY ConstantsTyped DEF Init, Idle
<1> QED
  BY <1>1 DEF Init, QuietInv, Timely

-----------------------------------------------------------------------------
(* The balances.  Each record has the balance of the row, or is about to   *)
(* follow it with the trade just stored; and the balance that a trade      *)
(* starts from is still the one of the row.                                *)
Storing == call[Feed].pc \in {"reread", "install"}
Behind(n) == Storing /\ row.cash = obj[n].cash \cup {call[Feed].id}
Balanced ==
  /\ Done \subseteq row.cash /\ row.cash \subseteq DOMAIN trades
  /\ \A n \in DOMAIN obj : obj[n].cash = row.cash \/ Behind(n)
  /\ call[Feed].pc \in {"trade", "position", "cash"} => call[Feed].paid = row.cash
Faultless == Free({"transitions", "stale", "fault"})
CashInv   == Faultless => Balanced

(* A step that leaves the feed and the trades, and the balance of the row. *)
LEMMA BalanceKept ==
  ASSUME TypeInv, [Next]_vars, Free({"stale"})', Balanced, row'.cash = row.cash,
         call'[Feed] = call[Feed], UNCHANGED <<trades, torn>>
  PROVE  Balanced'
<1>1. Done' = Done
  BY DEF Done, Cutting
<1>2. \A n \in DOMAIN obj' : obj'[n].cash = row'.cash \/ Behind(n)'
  BY RecordsFollow DEF Follows, Balanced, Behind, Storing
<1> QED
  BY <1>1, <1>2 DEF Balanced

(* A step of the feed that leaves the balances. *)
LEMMA BalanceFeed ==
  ASSUME TypeInv, Balanced, row' = row, obj' = obj, torn' = torn, trades' = trades,
         ~Cutting, ~Cutting', Storing => Storing' /\ call'[Feed].id = call[Feed].id,
         call'[Feed].pc # "trade"
  PROVE  Balanced'
<1>1. Done' = Done
  BY DEF Done
<1>2. \A n \in DOMAIN obj : Behind(n) => Behind(n)'
  BY DEF Behind
<1>3. call'[Feed].pc \notin {"trade", "position", "cash"}
  BY DEF Cutting
<1> QED
  BY <1>1, <1>2, <1>3 DEF Balanced

LEMMA BalanceTrade ==
  ASSUME TypeInv, Balanced, TradeCommits
  PROVE  Balanced'
<1>1. /\ call'[Feed].pc = "position" /\ call[Feed].pc = "trade"
      /\ call'[Feed].paid = call[Feed].paid
      /\ DOMAIN trades' = DOMAIN trades \cup {Len(trades')}
  BY TradeMoves
<1>2. row' = row /\ obj' = obj /\ torn' = torn
  BY DEF TradeCommits, memory, world
<1>3. Done' \subseteq Done
  BY <1>1, <1>2 DEF Done, Cutting
<1>4. ~Storing
  BY <1>1 DEF Storing
<1> QED
  BY <1>1, <1>2, <1>3, <1>4 DEF Balanced, Behind

LEMMA BalancePosition ==
  ASSUME TypeInv, Balanced, PositionCommits
  PROVE  Balanced'
<1>1. /\ call'[Feed].pc = "cash" /\ call[Feed].pc = "position"
      /\ call'[Feed].paid = call[Feed].paid
  BY GoesTo, ConstantsTyped DEF PositionCommits, At, Pcs
<1>2. row' = row /\ obj' = obj /\ torn' = torn /\ trades' = trades
  BY DEF PositionCommits, memory, world
<1>3. Done' = Done /\ ~Storing
  BY <1>1, <1>2 DEF Done, Cutting, Storing
<1> QED
  BY <1>1, <1>2, <1>3 DEF Balanced, Behind

LEMMA BalanceCash ==
  ASSUME TypeInv, Balanced, CashCommits
  PROVE  Balanced'
<1>1. /\ call'[Feed].pc = "reread" /\ call[Feed].pc = "cash"
      /\ call'[Feed].id = call[Feed].id /\ call[Feed].paid = row.cash
  BY GoesTo, ConstantsTyped DEF CashCommits, At, Pcs, Balanced
<1>2. obj' = obj /\ torn' = torn /\ trades' = trades
  BY DEF CashCommits, memory, world
<1>3. call[Feed].id = Len(trades) /\ Len(trades) \in DOMAIN trades
  BY <1>1 DEF TypeInv, FeedFits
<1>4. row'.cash = row.cash \cup {call[Feed].id}
  <2>1. row' = [row EXCEPT !.cash = call[Feed].paid \cup {call[Feed].id}] /\ row \in RowType
    BY DEF CashCommits, TypeInv, TypeOK
  <2> QED
    BY <1>1, <2>1 DEF RowType
<1>5. Done' \subseteq Done \cup {Len(trades)}
  BY <1>2 DEF Done
<1>6. ~Storing /\ Storing' /\ \A n \in DOMAIN obj : obj[n].cash = row.cash
  BY <1>1 DEF Storing, Balanced, Behind
<1> QED
  BY <1>1, <1>2, <1>3, <1>4, <1>5, <1>6 DEF Balanced, Behind

LEMMA BalanceInstall ==
  ASSUME TypeInv, Solo, Balanced, TradeInstalls, Free({"stale"})'
  PROVE  Balanced'
<1>1. call'[Feed].pc = "held" /\ call[Feed].pc = "install"
  BY GoesTo, ConstantsTyped DEF TradeInstalls, At, Pcs
<1>2. row' = row /\ torn' = torn /\ trades' = trades /\ call[Feed].row.cash = row.cash
  BY NotStale, ConstantsTyped DEF TradeInstalls, db
<1>3. \A n \in DOMAIN obj' : n = call[Feed].obj
  <2>1. obj \in Seq(ActiveType) /\ Len(obj) <= 1 /\ call[Feed].obj \in DOMAIN obj
        /\ DOMAIN obj' = DOMAIN obj
    BY TradeSets DEF TypeInv, TypeOK, Solo
  <2>2. \A n, m \in DOMAIN obj : n = m
    BY <2>1
  <2> QED
    BY <2>1, <2>2
<1>4. \A n \in DOMAIN obj' : obj'[n].cash = row.cash
  BY <1>2, <1>3, TradeSets
<1>5. Done' = Done
  BY <1>1, <1>2 DEF Done, Cutting
<1> QED
  BY <1>1, <1>2, <1>4, <1>5 DEF Balanced

LEMMA BalanceSize ==
  ASSUME TypeInv, Balanced, Sizes
  PROVE  Balanced'
<1>1. call[Feed].pc = "sizing" /\ UNCHANGED <<row, obj, torn, trades>>
  BY DEF Sizes, At, db, memory, world
<1>2. CASE Skip
  <2>1. call'[Feed].pc \in {"idle", "leg"}
    BY <1>2, SkipMoves
  <2> QED
    BY <1>1, <2>1, BalanceFeed DEF Cutting, Storing
<1>3. CASE call'[Feed].pc = "trade" /\ call'[Feed].paid = Record.cash
  <2>1. call[Feed].obj \in DOMAIN obj
    BY <1>1, FeedFields DEF TypeInv, TypeOK
  <2>2. ~Storing /\ Record.cash = row.cash
    BY <1>1, <2>1 DEF Storing, Balanced, Behind, Record
  <2>3. Done' = Done
    BY <1>1, <1>3 DEF Done, Cutting
  <2> QED
    BY <1>1, <1>3, <2>2, <2>3 DEF Balanced, Behind
<1> QED
  BY <1>2, <1>3, SizeMoves

LEMMA BalanceCrash ==
  ASSUME TypeInv, Balanced, Crash
  PROVE  Balanced'
<1>1. call'[Feed].pc = "idle" /\ obj' = <<>> /\ torn' = torn \cup CutShort
      /\ row' = row /\ trades' = trades
  BY CrashPreserves, ConstantsTyped, IdleTyped DEF Crash, db
<1>2. Done' \subseteq Done
  BY <1>1, CutTyped DEF Done
<1> QED
  BY <1>1, <1>2 DEF Balanced

LEMMA BalanceStep ==
  ASSUME TypeInv, SaveInv, AbsentInv, SoloInv, CashInv, [Next]_vars
  PROVE  CashInv'
<1> USE ConstantsTyped
<1> SUFFICES ASSUME Faultless' PROVE Balanced'
  BY DEF CashInv
<1>0. Solo /\ Balanced /\ Free({"stale"})' /\ ~\E p \in Procs : DatabaseFails(p)
  <2>1. Faultless
    BY UpsetGrows DEF Faultless
  <2>2. Unshared /\ Free({"stale"})'
    BY <2>1 DEF Faultless, Unshared, Free
  <2>3. ~\E p \in Procs : DatabaseFails(p)
    BY DEF DatabaseFails, Upset, Faultless, Free
  <2> QED
    BY <2>1, <2>2, <2>3 DEF CashInv, SoloInv
<1>1. CASE Dispatches \/ SettleBegins \/ Rereads(Feed) \/ Values(Feed) \/ PointCommits(Feed)
  <2>1. UNCHANGED <<row, obj, torn, trades>> /\ ~Cutting
    BY <1>1 DEF Dispatches, SettleBegins, Rereads, Values, PointCommits, db, memory, world, At,
         Cutting
  <2>2. CASE Skip /\ ~Storing
    <3>1. call'[Feed].pc \in {"idle", "leg"}
      BY <2>2, SkipMoves
    <3> QED
      BY <1>0, <2>1, <2>2, <3>1, BalanceFeed DEF Cutting
  <2>3. CASE Dispatches \/ (SettleBegins /\ call'[Feed].pc = "sizing") \/ Values(Feed)
    <3>1. call'[Feed].pc \in {"leg", "sizing", "point"} /\ ~Storing
      BY <2>3, DispatchMoves, ValueMoves DEF Dispatches, SettleBegins, At, Storing
    <3> QED
      BY <1>0, <2>1, <3>1, BalanceFeed DEF Cutting
  <2>4. CASE Rereads(Feed)
    <3>1. call'[Feed].pc = "install" /\ call'[Feed].id = call[Feed].id
      BY <2>4, RereadMoves
    <3> QED
      BY <1>0, <2>1, <3>1, BalanceFeed DEF Cutting, Storing
  <2> QED
    BY <1>1, <2>2, <2>3, <2>4, SettleMoves DEF SettleBegins, PointCommits, At, Storing
<1>2. CASE TradeCommits \/ PositionCommits \/ CashCommits \/ TradeInstalls \/ Sizes \/ Crash
  BY <1>0, <1>2, BalanceTrade, BalancePosition, BalanceCash, BalanceInstall, BalanceSize,
     BalanceCrash
<1>3. CASE call'[Feed] = call[Feed] /\ UNCHANGED <<trades, torn>>
  <2>1. row'.cash = row.cash
    <3>1. ASSUME NEW a \in Admins, SaveCommits(a) PROVE row'.cash = row.cash
      BY <3>1 DEF SaveCommits, At, SaveInv, Saving, AbsentInv, NoRow
    <3>2. ASSUME CashCommits PROVE FALSE
      BY <1>3, <3>2, GoesTo DEF CashCommits, At, Pcs
    <3> QED
      BY <3>1, <3>2, RowKept
  <2> QED
    BY <1>0, <1>3, <2>1, BalanceKept
<1> QED
  BY <1>0, <1>1, <1>2, <1>3, FeedOr DEF FeedSteps

LEMMA CashInit == Init => CashInv
<1> SUFFICES ASSUME Init PROVE CashInv
  OBVIOUS
<1>1. trades = <<>> /\ obj = <<>> /\ row.cash = {} /\ call[Feed].pc = "idle"
  BY ConstantsTyped, IdleTyped DEF Init, NoRow
<1> QED
  BY <1>1 DEF CashInv, Balanced, Done

-----------------------------------------------------------------------------
(* The equity points.  What a valuation has of positions that its balance  *)
(* has not paid for is one trade at most.                                  *)
OneApart(p) == \E t : call[p].held \ call[p].paid \subseteq {t}
Sound       == Free({"stale", "crash", "fault", "transitions"})
PointInv    == Sound => \A p \in Procs : call[p].pc = "point" => OneApart(p)

(* Only a valuation comes to the point. *)
LEMMA PointSteps ==
  ASSUME TypeInv, [Next]_vars, NEW p \in Procs, call'[p].pc = "point"
  PROVE  Values(p) \/ call'[p] = call[p]
<1> USE ConstantsTyped
<1>1. ASSUME NEW q \in Procs, Others(q), call'[q].pc # "point" PROVE call'[p] = call[p]
  BY <1>1 DEF Others
<1>2. ASSUME NEW a \in Admins, Admin(a) PROVE call'[p] = call[p]
  <2>1. CASE CreateRun(a)
    BY <1>1, <2>1, CreateMoves DEF Moves
  <2>2. CASE SaveCommits(a) \/ WriteCommits(a)
    BY <1>1, <2>2, GoesTo DEF SaveCommits, WriteCommits, Carries, Pcs
  <2>3. CASE Activates(a)
    BY <1>1, <2>3, Returns DEF Activates, Moves
  <2>4. ASSUME NEW status \in Statuses, TransitionRun(a, status) PROVE call'[p] = call[p]
    BY <1>1, <2>4, TransitionMoves DEF Moves
  <2>5. CASE LookupReads(a)
    BY <1>1, <2>5, Returns, GoesTo DEF LookupReads, Moves, Carries, Pcs
  <2>6. CASE TransitionInstalls(a)
    BY <1>1, <2>6, Returns, GoesTo DEF TransitionInstalls, Moves, Carries, Pcs
  <2>7. CASE StopPops(a)
    BY <1>1, <2>7, PopMoves DEF Moves
  <2> QED
    BY <1>2, <2>1, <2>2, <2>3, <2>4, <2>5, <2>6, <2>7 DEF Admin
<1>3. ASSUME NEW q \in Procs, Feedback(q) PROVE call'[p] = call[p]
  BY <1>1, <1>3, FeedbackMoves, LearnMoves, MarkMoves, Returns DEF Feedback, FeedbackInstalls, Moves
<1>4. ASSUME NEW q \in Procs, Rereads(q) \/ DatabaseFails(q) PROVE call'[p] = call[p]
  BY <1>1, <1>4, RereadMoves, Returns DEF DatabaseFails, Carries, Moves
<1>5. ASSUME Skip PROVE call'[p] = call[p]
  BY <1>1, <1>5, SkipMoves
<1>6. CASE Settle
  BY <1>1, <1>5, <1>6, DispatchMoves, SettleMoves, SizeMoves, TradeMoves, GoesTo
     DEF Settle, PositionCommits, CashCommits, TradeInstalls, Carries, Pcs
<1>7. CASE PollVisits
  BY <1>1, <1>7, VisitMoves DEF Moves
<1>8. ASSUME NEW q \in Procs, PointCommits(q) PROVE call'[p] = call[p]
  <2>1. CASE Return(q)
    BY <1>1, <2>1, Returns DEF Moves
  <2> QED
    BY <1>5, <1>8, <2>1 DEF PointCommits
<1>9. ASSUME NEW q \in Procs, Values(q) PROVE Values(p) \/ call'[p] = call[p]
  BY <1>9, ValueMoves DEF Carries, Others
<1>10. CASE Crash
  BY <1>10, CrashPreserves, IdleTyped
<1>11. CASE Restores \/ UNCHANGED vars
  BY <1>11 DEF Restores, vars
<1> QED
  BY <1>2, <1>3, <1>4, <1>6, <1>7, <1>8, <1>9, <1>10, <1>11 DEF Next, Equity

LEMMA HeldTrades ==
  ASSUME TypeInv, PositionsAccount
  PROVE  Held \subseteq DOMAIN trades
  BY DEF Held, PositionsAccount

LEMMA ValueApart ==
  ASSUME TypeInv, PositionsAccount, torn = {}, Balanced, NEW p \in Procs, Values(p)
  PROVE  OneApart(p)'
<1> DEFINE n == call[p].obj
<1>1. call'[p].held = Held /\ call'[p].paid = obj[n].cash /\ call[p].pc = "held"
  BY ValueMoves
<1>2. n \in DOMAIN obj
  <2>1. n \in Nat /\ n # 0 /\ n <= Len(obj) /\ obj \in Seq(ActiveType)
    BY <1>1, CallFields DEF TypeInv, TypeOK, CallFits
  <2> QED
    BY <2>1
<1>3. PICK t : DOMAIN trades \ {t} \subseteq obj[n].cash
  <2>1. CASE obj[n].cash = row.cash
    <3>1. DOMAIN trades \ {Len(trades)} \subseteq row.cash
      BY DEF Balanced, Done
    <3> QED
      BY <2>1, <3>1
  <2>2. CASE Behind(n)
    <3>1. DOMAIN trades \subseteq row.cash /\ row.cash = obj[n].cash \cup {call[Feed].id}
      BY <2>2 DEF Balanced, Done, Cutting, Behind, Storing
    <3> QED
      BY <3>1
  <2> QED
    BY <1>2, <2>1, <2>2 DEF Balanced
<1>4. call'[p].held \ call'[p].paid \subseteq {t}
  BY <1>1, <1>3, HeldTrades
<1> QED
  BY <1>4 DEF OneApart

LEMMA PointStep ==
  ASSUME TypeInv, PositionsAccount, TornInv, CashInv, PointInv, [Next]_vars
  PROVE  PointInv'
<1> SUFFICES ASSUME Sound', NEW p \in Procs, call'[p].pc = "point" PROVE OneApart(p)'
  BY DEF PointInv
<1>1. Sound /\ Faultless /\ Free({"crash", "fault"})
  <2>1. Sound
    BY UpsetGrows DEF Sound
  <2> QED
    BY <2>1 DEF Sound, Faultless, Free
<1>2. CASE Values(p)
  BY <1>1, <1>2, ValueApart DEF CashInv, TornInv
<1>3. CASE call'[p] = call[p]
  BY <1>1, <1>3 DEF PointInv, OneApart
<1> QED
  BY <1>2, <1>3, PointSteps

LEMMA PointInit == Init => PointInv
<1> SUFFICES ASSUME Init PROVE PointInv
  OBVIOUS
<1>1. \A p \in Procs : call[p].pc = "idle"
  BY IdleTyped DEF Init
<1> QED
  BY <1>1 DEF PointInv

LEMMA PointSays == PointInv => EquityWithinOneTrade
<1> SUFFICES ASSUME PointInv, Sound, NEW p \in Procs, call[p].pc = "point"
             PROVE  Cardinality(call[p].held \ call[p].paid) <= 1
  BY DEF EquityWithinOneTrade, Sound
<1>1. PICK t : call[p].held \ call[p].paid \subseteq {t}
  BY DEF PointInv, OneApart
<1>2. IsFiniteSet({t}) /\ Cardinality({t}) = 1
  BY FS_Singleton
<1>3. Cardinality(call[p].held \ call[p].paid) <= Cardinality({t})
  BY <1>1, <1>2, FS_Subset
<1> QED
  BY <1>2, <1>3

-----------------------------------------------------------------------------
(* The cooldown.  A record remembers the last trade of every instrument,   *)
(* except the one being settled, which is the last of all; and what the    *)
(* feed found out of the cooldown still is.                                *)
Remembered(n, t) ==
  \/ trades[t].at <= obj[n].last[trades[t].inst]
  \/ t = Len(trades) /\ Settling
Spaced ==
  \A t, u \in DOMAIN trades :
    t < u /\ trades[t].inst = trades[u].inst => trades[u].at - trades[t].at >= Cooldown
Rested ==
  /\ trades # <<>> => obj # <<>> /\ up
  /\ \A n \in DOMAIN obj, t \in DOMAIN trades : Remembered(n, t)
  /\ call[Feed].pc \in {"sizing", "trade"} => call[Feed].at - Record.last[Inst] >= Cooldown
  /\ Spaced
Lasting == Free({"transitions", "crash", "fault"})
CoolInv == Lasting => Rested

(* Times are numbers. *)
LEMMA Times ==
  ASSUME TypeInv
  PROVE  /\ \A t \in DOMAIN trades :
              t \in Nat /\ trades[t].at \in Int /\ trades[t].inst \in Instruments
         /\ \A n \in DOMAIN obj, i \in Instruments : obj[n].last[i] \in Int
         /\ call[Feed].at \in Int /\ Len(trades) \in Nat
<1> USE ConstantsTyped
<1>1. trades \in Seq(TradeType) /\ obj \in Seq(ActiveType) /\ call[Feed] \in CallType
  BY DEF TypeInv, TypeOK
<1>2. \A t \in DOMAIN trades :
        t \in Nat /\ trades[t].at \in Int /\ trades[t].inst \in Instruments
  <2>1. \A t \in DOMAIN trades : t \in Nat /\ trades[t] \in TradeType
    BY <1>1
  <2> QED
    BY <2>1 DEF TradeType
<1>3. \A n \in DOMAIN obj, i \in Instruments : obj[n].last[i] \in Int
  <2>1. \A n \in DOMAIN obj : obj[n] \in ActiveType
    BY <1>1
  <2> QED
    BY <2>1 DEF ActiveType
<1>4. call[Feed].at \in Int
  BY <1>1, CallFields
<1> QED
  BY <1>1, <1>2, <1>3, <1>4

(* Only a settled trade changes what the records remember; where a record  *)
(* is bound nothing was traded.                                            *)
LEMMA LastKept ==
  ASSUME TypeInv, Down, AbsentInv, Solo, Rested, [Next]_vars, ~TradeInstalls, ~Crash
  PROVE  \/ trades = <<>> /\ call[Feed].pc = "idle" /\ call'[Feed] = call[Feed]
         \/ /\ DOMAIN obj' = DOMAIN obj
            /\ \A n \in DOMAIN obj : obj'[n].last = obj[n].last
<1> USE ConstantsTyped
<1>1. ASSUME obj = <<>> PROVE call[Feed].pc = "idle"
  BY <1>1, FeedFields DEF TypeInv, TypeOK
<1>2. ASSUME NEW a \in Admins, CreateRun(a)
      PROVE  trades = <<>> /\ call[Feed].pc = "idle" /\ call'[Feed] = call[Feed]
  <2>1. trades = <<>> /\ obj = <<>>
    BY <1>2 DEF CreateRun, NoRow, AbsentInv
  <2> QED
    BY <1>1, <1>2, <2>1, CreateMoves DEF Moves, Others
<1>3. ASSUME NEW a \in Admins, TransitionInstalls(a)
      PROVE  \/ trades = <<>> /\ call[Feed].pc = "idle" /\ call'[Feed] = call[Feed]
             \/ /\ DOMAIN obj' = DOMAIN obj
                /\ \A n \in DOMAIN obj : obj'[n].last = obj[n].last
  <2>1. CASE SetRecord(a)
    BY <2>1, RecordSets
  <2>2. CASE obj = <<>>
    <3>1. call'[Feed] = call[Feed]
      <4>1. Return(a) \/ Goto(a, "pop")
        BY <1>3 DEF TransitionInstalls
      <4>2. Others(a)
        BY <4>1, Returns, GoesTo DEF Moves, Carries, Pcs
      <4> QED
        BY <4>2 DEF Others
    <3> QED
      BY <1>1, <2>2, <3>1 DEF Rested
  <2> QED
    BY <1>3, <2>1, <2>2, SoloInstall
<1>4. ASSUME NEW p \in Procs, FeedbackInstalls(p)
      PROVE  DOMAIN obj' = DOMAIN obj /\ \A n \in DOMAIN obj : obj'[n].last = obj[n].last
  BY <1>4, RecordSets DEF FeedbackInstalls
<1>5. CASE Restores
  BY <1>5, IdleTyped DEF Restores, Rested, Down
<1> QED
  BY <1>2, <1>3, <1>4, <1>5, ObjSteps, PollNotFeed

(* A step that leaves the feed, or moves it on without trading. *)
LEMMA CoolKept ==
  ASSUME TypeInv, Down, AbsentInv, Solo, Rested, [Next]_vars, ~TradeInstalls, ~TradeCommits,
         Lasting', Settling => Settling',
         call'[Feed].pc \in {"sizing", "trade"} =>
           \/ /\ call[Feed].pc \in {"sizing", "trade"} /\ call'[Feed].legs = call[Feed].legs
              /\ call'[Feed].obj = call[Feed].obj /\ call'[Feed].at = call[Feed].at
           \/ /\ call[Feed].pc # "idle" /\ call'[Feed].legs = call[Feed].legs
              /\ call'[Feed].obj = call[Feed].obj
              /\ call'[Feed].at - Record.last[Inst] >= Cooldown
  PROVE  Rested'
<1> USE ConstantsTyped
<1>0. ~Crash /\ trades' = trades /\ (~up => trades = <<>>)
  BY TradesStay DEF Crash, Upset, Lasting, Free, Rested
<1>1. up => up'
  BY <1>0 DEF Next, Admin, Feedback, Settle, Equity, CreateRun, SaveCommits, Activates,
     TransitionRun, LookupReads, WriteCommits, TransitionInstalls, StopPops, ApplyFeedback, Learns,
     MarkCommits, FeedbackInstalls, Dispatches, SettleBegins, Sizes, TradeCommits,
     PositionCommits, CashCommits, TradeInstalls, PollVisits, Rereads, Values, PointCommits,
     DatabaseFails, Restores, vars
<1>2. CASE trades = <<>> /\ call[Feed].pc = "idle" /\ call'[Feed] = call[Feed]
  BY <1>0, <1>2 DEF Rested, Spaced
<1>3. CASE DOMAIN obj' = DOMAIN obj /\ \A n \in DOMAIN obj : obj'[n].last = obj[n].last
  <2>1. trades' # <<>> => obj' # <<>> /\ up'
    BY <1>0, <1>1, <1>3 DEF Rested, TypeInv, TypeOK
  <2>2. \A n \in DOMAIN obj', t \in DOMAIN trades' : Remembered(n, t)'
    BY <1>0, <1>3 DEF Rested, Remembered
  <2>3. ASSUME call'[Feed].pc \in {"sizing", "trade"}
        PROVE  call'[Feed].at - Record'.last[Inst'] >= Cooldown
    <3>1. call[Feed].pc # "idle" /\ call'[Feed].legs = call[Feed].legs
          /\ call'[Feed].obj = call[Feed].obj
      BY <2>3
    <3>2. Inst' = Inst /\ call[Feed].obj \in DOMAIN obj
      BY <3>1, FeedFields DEF Inst, TypeInv, TypeOK
    <3>3. Record'.last = Record.last
      BY <1>3, <3>1, <3>2 DEF Record
    <3>4. call'[Feed].at - Record.last[Inst] >= Cooldown
      BY <2>3 DEF Rested
    <3> QED
      BY <3>2, <3>3, <3>4
  <2>4. Spaced'
    BY <1>0 DEF Rested, Spaced
  <2> QED
    BY <2>1, <2>2, <2>3, <2>4 DEF Rested
<1> QED
  BY <1>0, <1>2, <1>3, LastKept

LEMMA CoolTrade ==
  ASSUME TypeInv, Rested, TradeCommits
  PROVE  Rested'
<1> USE ConstantsTyped
<1> DEFINE u == Len(trades')
<1>1. /\ call'[Feed].pc = "position" /\ call[Feed].pc = "trade"
      /\ u = Len(trades) + 1
      /\ DOMAIN trades' = DOMAIN trades \cup {u} /\ u \notin DOMAIN trades
      /\ trades'[u] = Filled
      /\ \A t \in DOMAIN trades : trades'[t] = trades[t]
  BY TradeMoves
<1>2. obj' = obj /\ up /\ up' = up
  BY DEF TradeCommits, memory, At
<1>3. call[Feed].obj \in DOMAIN obj /\ Inst \in Instruments
  BY <1>1, FeedFields DEF TypeInv, TypeOK
<1>4. Filled.inst = Inst /\ Filled.at = call[Feed].at
  BY DEF Filled
<1>5. /\ \A t \in DOMAIN trades :
           t \in Nat /\ trades[t].at \in Int /\ trades[t].inst \in Instruments
      /\ Record.last[Inst] \in Int /\ call[Feed].at \in Int /\ Len(trades) \in Nat
  BY <1>3, Times DEF Record
<1>6. \A n \in DOMAIN obj, t \in DOMAIN trades : trades[t].at <= obj[n].last[trades[t].inst]
  BY <1>1 DEF Rested, Remembered, Settling, Kept
<1> HIDE DEF u
<1>7. \A n \in DOMAIN obj', t \in DOMAIN trades' : Remembered(n, t)'
  <2>1. Settling' /\ u = Len(trades')
    BY <1>1 DEF Settling, Kept, u
  <2> QED
    BY <1>1, <1>2, <1>6, <2>1 DEF Remembered
<1>8. Spaced'
  <2> SUFFICES ASSUME NEW t \in DOMAIN trades', NEW v \in DOMAIN trades', t < v,
                      trades'[t].inst = trades'[v].inst
               PROVE  trades'[v].at - trades'[t].at >= Cooldown
    BY DEF Spaced
  <2>0. u \in Nat /\ \A w \in DOMAIN trades : w < u
    <3>1. DOMAIN trades = 1..Len(trades)
      BY DEF TypeInv, TypeOK
    <3> QED
      BY <1>1, <1>5, <3>1
  <2>1. CASE v \in DOMAIN trades
    <3>1. t \in DOMAIN trades
      BY <1>1, <1>5, <2>0, <2>1
    <3> QED
      BY <1>1, <2>1, <3>1 DEF Rested, Spaced
  <2>2. CASE v = u
    <3>1. t \in DOMAIN trades
      BY <1>1, <2>0, <2>2
    <3>2. trades[t].inst = Inst /\ trades'[t].at = trades[t].at /\ trades'[v].at = call[Feed].at
      BY <1>1, <1>4, <2>2, <3>1
    <3>3. trades[t].at <= Record.last[Inst]
      BY <1>3, <1>6, <3>1, <3>2 DEF Record
    <3>4. call[Feed].at - Record.last[Inst] >= Cooldown
      BY <1>1 DEF Rested
    <3> QED
      BY <1>5, <3>1, <3>2, <3>3, <3>4
  <2> QED
    BY <1>1, <2>1, <2>2
<1>9. obj' # <<>>
  BY <1>2, <1>3
<1> QED
  BY <1>1, <1>2, <1>7, <1>8, <1>9 DEF Rested

LEMMA CoolInstall ==
  ASSUME TypeInv, TypeInv', TradeInv, Solo, Rested, TradeInstalls
  PROVE  Rested'
<1> USE ConstantsTyped
<1> DEFINE m == call[Feed].obj
           k == Len(trades)
<1>1. call'[Feed].pc = "held" /\ call[Feed].pc = "install" /\ trades' = trades /\ up /\ up' = up
  BY GoesTo DEF TradeInstalls, At, Pcs, db
<1>2. /\ k \in DOMAIN trades /\ trades[k].inst = Inst /\ trades[k].at = call[Feed].at
  BY <1>1 DEF TradeInv, Settling, Kept
<1>3. /\ DOMAIN obj' = DOMAIN obj /\ m \in DOMAIN obj
      /\ obj'[m].last = [Record.last EXCEPT ![Inst] = call[Feed].at]
  BY TradeSets
<1>4. \A n \in DOMAIN obj' : n = m
  <2>1. obj \in Seq(ActiveType) /\ Len(obj) <= 1
    BY DEF TypeInv, TypeOK, Solo
  <2>2. \A n, l \in DOMAIN obj : n = l
    BY <2>1
  <2> QED
    BY <1>3, <2>2
<1>5. /\ \A t \in DOMAIN trades :
           t \in Nat /\ trades[t].at \in Int /\ trades[t].inst \in Instruments
      /\ k \in Nat /\ DOMAIN trades = 1..k
  BY Times DEF TypeInv, TypeOK
<1>6. Record.last \in [Instruments -> Int] /\ Inst \in Instruments
  <2>1. obj[m] \in ActiveType /\ Inst \in Instruments
    BY <1>1, FeedFields
  <2> QED
    BY <2>1 DEF ActiveType, Record
<1>7. ASSUME NEW t \in DOMAIN trades PROVE trades[t].at <= obj'[m].last[trades[t].inst]
  <2>1. CASE t = k
    BY <1>2, <1>3, <1>5, <1>6, <2>1
  <2>2. CASE t # k
    <3>1. t < k
      BY <1>5, <2>2
    <3>2. CASE trades[t].inst = Inst
      <4>1. trades[k].at - trades[t].at >= Cooldown
        BY <1>2, <3>1, <3>2 DEF Rested, Spaced
      <4>2. obj'[m].last[Inst] = trades[k].at
        BY <1>2, <1>3, <1>6
      <4> QED
        BY <1>2, <1>5, <3>2, <4>1, <4>2
    <3>3. CASE trades[t].inst # Inst
      <4>1. trades[t].at <= Record.last[trades[t].inst]
        BY <1>3, <2>2 DEF Rested, Remembered, Record
      <4>2. obj'[m].last[trades[t].inst] = Record.last[trades[t].inst]
        BY <1>3, <1>5, <1>6, <3>3
      <4> QED
        BY <4>1, <4>2
    <3> QED
      BY <3>2, <3>3
  <2> QED
    BY <2>1, <2>2
<1>8. \A n \in DOMAIN obj', t \in DOMAIN trades' : Remembered(n, t)'
  BY <1>1, <1>4, <1>7 DEF Remembered
<1>9. Spaced'
  BY <1>1 DEF Rested, Spaced
<1>10. obj' # <<>>
  BY <1>3 DEF TypeInv, TypeOK
<1> QED
  BY <1>1, <1>8, <1>9, <1>10 DEF Rested

LEMMA CoolStep ==
  ASSUME TypeInv, TypeInv', Down, AbsentInv, TradeInv, SoloInv, CoolInv, [Next]_vars
  PROVE  CoolInv'
<1> USE ConstantsTyped
<1> SUFFICES ASSUME Lasting' PROVE Rested'
  BY DEF CoolInv
<1>0. Solo /\ Rested /\ ~Crash /\ ~DatabaseFails(Feed)
  <2>1. Lasting
    BY UpsetGrows DEF Lasting
  <2>2. Unshared
    BY <2>1 DEF Lasting, Unshared, Free
  <2>3. ~Crash /\ ~DatabaseFails(Feed)
    BY DEF Crash, DatabaseFails, Upset, Lasting, Free
  <2> QED
    BY <2>1, <2>2, <2>3 DEF CoolInv, SoloInv
<1>1. CASE TradeCommits \/ TradeInstalls
  BY <1>0, <1>1, CoolTrade, CoolInstall
<1> SUFFICES ASSUME ~TradeCommits, ~TradeInstalls PROVE Rested'
  BY <1>1
<1>2. CASE Skip /\ ~Settling
  BY <1>0, <1>2, SkipMoves, CoolKept
<1>3. CASE Dispatches
  BY <1>0, <1>3, DispatchMoves, CoolKept DEF Settling, Kept
<1>4. CASE SettleBegins
  BY <1>0, <1>2, <1>4, SettleMoves, CoolKept DEF SettleBegins, At, Settling, Kept
<1>5. CASE Sizes
  <2>1. call[Feed].pc = "sizing" /\ ~Settling
    BY <1>5 DEF Sizes, At, Settling, Kept
  <2>2. CASE call'[Feed].pc = "trade" /\ Carries(Feed)
    BY <1>0, <2>1, <2>2, CoolKept DEF Carries
  <2> QED
    BY <1>2, <1>5, <2>1, <2>2, SizeMoves
<1>6. CASE PositionCommits \/ CashCommits \/ Rereads(Feed)
  <2>1. call'[Feed].pc \in {"cash", "reread", "install"}
    BY <1>6, GoesTo, RereadMoves DEF PositionCommits, CashCommits, Pcs
  <2> QED
    BY <1>0, <2>1, CoolKept DEF Settling, Kept
<1>7. CASE Values(Feed)
  BY <1>0, <1>7, ValueMoves, CoolKept DEF Settling, Kept
<1>8. CASE PointCommits(Feed)
  BY <1>2, <1>8 DEF PointCommits, At, Settling, Kept
<1>9. CASE call'[Feed] = call[Feed]
  BY <1>0, <1>9, CoolKept DEF Settling
<1> QED
  BY <1>0, <1>3, <1>4, <1>5, <1>6, <1>7, <1>8, <1>9, FeedOr DEF FeedSteps

LEMMA CoolInit == Init => CoolInv
<1> SUFFICES ASSUME Init PROVE CoolInv
  OBVIOUS
<1>1. trades = <<>> /\ call[Feed].pc = "idle"
  BY ConstantsTyped, IdleTyped DEF Init
<1> QED
  BY <1>1 DEF CoolInv, Rested, Spaced

-----------------------------------------------------------------------------
(* The invariants together. *)
Runs == SoloInv /\ AbsentInv /\ TradeInv /\ TornInv

LEMMA RunsHold == Spec => [](Base /\ Runs)
<1>1. Init => Runs
  BY SoloInit DEF Runs
<1>2. Base /\ Runs /\ [Next]_vars => Runs'
  BY SoloStep, AbsentStep, TradeStep, TornStep DEF Base, Runs, FedInv
<1> QED
  BY <1>1, <1>2, BaseHolds, PTL DEF Spec

LEMMA CashHolds == Spec => []CashInv
<1>1. Base /\ Runs /\ CashInv /\ [Next]_vars => CashInv'
  BY BalanceStep DEF Base, Runs, FedInv
<1> QED
  BY <1>1, CashInit, RunsHold, PTL DEF Spec

(* pause_run, stop_run: no trade is begun after they took effect, unless   *)
(* two life cycle calls overlap or a record is replaced by an older row.   *)
THEOREM NothingLate == Spec => []NoLateTrades
<1>1. Base /\ Runs /\ QuietInv /\ [Next]_vars => QuietInv'
  BY QuietStep DEF Base, Runs
<1>2. QuietInv => NoLateTrades
  BY DEF QuietInv, Orderly, Timely, NoLateTrades
<1> QED
  BY <1>1, <1>2, QuietInit, RunsHold, PTL DEF Spec

(* _process_signal, set_cash: the balance of the row has paid for every    *)
(* trade that was not cut short, however the feed, the poll, the feedback  *)
(* and the life cycle calls interleave.                                    *)
THEOREM CashIsPaid == Spec => []CashAccounts
<1>1. CashInv => CashAccounts
  BY DEF CashInv, Faultless, Balanced, CashAccounts
<1> QED
  BY <1>1, CashHolds, PTL

(* _record_equity: the positions and the balance of a valuation are at     *)
(* most one trade apart.                                                   *)
THEOREM PointsAreClose == Spec => []EquityWithinOneTrade
<1>1. TypeInv /\ PositionsAccount /\ TornInv /\ CashInv /\ PointInv /\ [Next]_vars => PointInv'
  BY PointStep
<1>2. Base /\ Runs => TypeInv /\ TornInv
  BY DEF Base, Runs
<1> QED
  BY <1>1, <1>2, PointInit, PointSays, TradesAreHeld, RunsHold, CashHolds, PTL DEF Spec

(* _process_signal: the trades of an instrument keep the cooldown, while   *)
(* the object that remembers them lives and every trade reaches it.        *)
THEOREM TradesAreSpaced == Spec => []CooldownKept
<1>1. Base /\ Base' /\ Runs /\ CoolInv /\ [Next]_vars => CoolInv'
  BY CoolStep DEF Base, Runs
<1>2. CoolInv => CooldownKept
  BY DEF CoolInv, Lasting, Rested, Spaced, CooldownKept
<1> QED
  BY <1>1, <1>2, CoolInit, RunsHold, PTL DEF Spec
=============================================================================
