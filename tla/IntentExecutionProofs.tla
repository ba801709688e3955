------------------------ MODULE IntentExecutionProofs ------------------------
(***************************************************************************)
(* Theorems about IntentExecution, for every set of intents, signatures,   *)
(* keys and concurrent calls and every value of the bounds.                *)
(***************************************************************************)
EXTENDS IntentExecution, FiniteSetTheorems, TLAPS

(***************************************************************************)
(* The part of the inductive invariant that is about the calls in flight:  *)
(* past its first await a call has an intent, and a call that carries a    *)
(* submission to the memory or the table carries one of its baskets.       *)
(***************************************************************************)
CallHasIntent ==
  \A c \in Calls :
    call[c].pc \in {"save", "execute", "return", "persist"} => call[c].intent \in Intents

Carries(c) ==
  \/ call[c].pc = "return"
  \/ call[c].pc \in {"persist", "found"} /\ call[c].status = "submitted"

CallHasBasket ==
  \A c \in Calls : Carries(c) =>
    call[c].intent \in Intents /\ call[c].basket \in 1..placed[call[c].intent]

IInv == TypeOK /\ CallHasIntent /\ CallHasBasket /\ SubmissionHasBasket

LEMMA InitIInv == Init => IInv
  BY BoundsAssumption
  DEF Init, IInv, TypeOK, CallHasIntent, CallHasBasket, Carries, SubmissionHasBasket,
      CallType, RowType, FaultType, Idle, NoRow, Times, Never, StatusText, AnyKey

LEMMA IdleTyped == Idle \in CallType
  BY BoundsAssumption DEF Idle, CallType, Times, StatusText, AnyKey

(* What a call holds, as the leaves below use it. *)
LEMMA CallFields ==
  ASSUME TypeOK, NEW c \in Calls
  PROVE  /\ call[c].intent \in Intents \cup {None}
         /\ call[c].key \in AnyKey
         /\ call[c].sig \in Sigs \cup {None}
         /\ call[c].status \in StatusText \cup {"absent"}
         /\ call[c].basket \in Nat
         /\ call[c].now \in Times
<1>1. call[c] \in CallType
  BY DEF TypeOK
<1> QED
  BY <1>1 DEF CallType

LEMMA CallTyped ==
  ASSUME TypeOK, NEW c \in Calls PROVE call[c] \in CallType
  BY DEF TypeOK

LEMMA FaultsTyped ==
  ASSUME TypeOK
  PROVE  /\ [faults EXCEPT !.crashes = @ + 1] \in FaultType
         /\ [faults EXCEPT !.reads = @ + 1] \in FaultType
         /\ [faults EXCEPT !.writes = @ + 1] \in FaultType
         /\ [faults EXCEPT !.raised = @ + 1] \in FaultType
<1>1. faults \in FaultType
  BY DEF TypeOK
<1> QED
  BY <1>1 DEF FaultType

(* The records the calls in flight are moved to. *)
LEMMA FoundTyped ==
  ASSUME TypeOK, NEW c \in Calls, NEW i \in Intents \cup {None},
         NEW text \in StatusText \cup {"absent"}, NEW b \in Nat
  PROVE  Found(c, i, text, b) \in CallType
  BY CallTyped DEF Found, CallType

LEMMA ReturnTyped ==
  ASSUME TypeOK, NEW c \in Calls, NEW b \in Nat
  PROVE  [call[c] EXCEPT !.pc = "return", !.basket = b] \in CallType
  BY CallTyped DEF CallType

LEMMA PersistTyped ==
  ASSUME TypeOK, NEW c \in Calls, NEW k \in AnyKey
  PROVE  [call[c] EXCEPT !.pc = "persist", !.status = "submitted", !.key = k] \in CallType
  BY CallTyped DEF CallType, StatusText

LEMMA RowFields ==
  ASSUME TypeOK, NEW i \in Intents
  PROVE  /\ db[i].status \in StatusText \cup {"absent"}
         /\ db[i].basket \in Nat
         /\ db[i].key \in AnyKey
         /\ db[i].at \in Times \cup {Never}
<1>1. db[i] \in RowType
  BY DEF TypeOK
<1> QED
  BY <1>1 DEF RowType

LEMMA BirthTyped ==
  ASSUME TypeOK, NEW c \in Calls, NEW i \in Intents, NEW s \in Sigs \cup {None},
         NEW k \in AnyKey, Birth(c, i, s, k)
  PROVE  TypeOK'
<1> USE DEF Birth, TypeOK
<1>1. [Idle EXCEPT !.pc = "save", !.intent = i, !.key = k] \in CallType
  BY IdleTyped DEF CallType
<1>2. call' \in [Calls -> CallType]
  BY <1>1
<1>3. status' \in [Intents -> StatusText \cup {"absent"}]
  BY DEF StatusText
<1>4. key' \in [Intents -> AnyKey] /\ sig' \in [Intents -> Sigs \cup {None}]
  OBVIOUS
<1> QED
  BY <1>2, <1>3, <1>4

LEMMA RefuseTyped ==
  ASSUME TypeOK, NEW c \in Calls, NEW i \in Intents, NEW v \in StatusText, Refuse(c, i, v)
  PROVE  TypeOK'
<1> USE DEF Refuse, TypeOK, history
<1>1. [Idle EXCEPT !.pc = "persist", !.intent = i, !.status = v] \in CallType
  BY IdleTyped DEF CallType
<1>2. call' \in [Calls -> CallType]
  BY <1>1
<1>3. status' \in [Intents -> StatusText \cup {"absent"}]
  OBVIOUS
<1> QED
  BY <1>2, <1>3

(* The memory and the table keep their types in every step of a call... *)
LEMMA CallStepTyped ==
  ASSUME IInv, NEW c \in Calls, CallStep(c)
  PROVE  TypeOK'
<1> USE DEF IInv
<1>1. ASSUME NEW i \in Intents, NEW s \in Sigs, CreateWithoutKey(c, i, s) PROVE TypeOK'
  BY <1>1, BirthTyped DEF CreateWithoutKey, AnyKey
<1>2. ASSUME NEW s \in Sigs, NEW k \in Keys, CreateWithKey(c, s, k) PROVE TypeOK'
  <2>1. [Idle EXCEPT !.pc = "lookup", !.key = k, !.sig = s] \in CallType
    BY IdleTyped DEF CallType, AnyKey
  <2>2. call' \in [Calls -> CallType]
    BY <1>2, <2>1 DEF CreateWithKey, TypeOK
  <2> QED
    BY <1>2, <2>2 DEF CreateWithKey, TypeOK, memory, history
<1>3. ASSUME LookupReads(c) PROVE TypeOK'
  <2>1. Found(c, None, "absent", 0) \in CallType
    BY FoundTyped
  <2>2. ASSUME NEW i \in Intents
        PROVE  Found(c, i, db[i].status, db[i].basket) \in CallType
    BY FoundTyped, RowFields
  <2>3. call' \in [Calls -> CallType]
    <3>1. PICK r \in CallType : call' = [call EXCEPT ![c] = r]
      BY <1>3, <2>1, <2>2 DEF LookupReads
    <3> QED
      BY <3>1 DEF TypeOK
  <2>4. faults' \in FaultType
    BY <1>3, FaultsTyped DEF LookupReads, TypeOK
  <2> QED
    BY <1>3, <2>3, <2>4 DEF LookupReads, TypeOK, memory, history
<1>4. ASSUME CreateReplays(c) PROVE TypeOK'
  <2> USE <1>4 DEF CreateReplays, TypeOK
  <2>1. call' \in [Calls -> CallType]
    BY IdleTyped
  <2>2. status' \in [Intents -> StatusText \cup {"absent"}] /\ basketOf' \in [Intents -> Nat]
    BY CallFields
  <2>3. key' \in [Intents -> AnyKey]
    BY CallFields
  <2> QED
    BY <2>1, <2>2, <2>3 DEF history
<1>5. ASSUME NEW i \in Intents, CreateAfterLookup(c, i) PROVE TypeOK'
  BY <1>5, BirthTyped, CallFields DEF CreateAfterLookup
<1>6. ASSUME SaveCommits(c) PROVE TypeOK'
  <2>1. call' \in [Calls -> CallType]
    BY <1>6, IdleTyped DEF SaveCommits, TypeOK
  <2>2. [status |-> "created", basket |-> 0, key |-> call[c].key, at |-> clock]
          \in RowType
    BY CallFields DEF TypeOK, StatusText, RowType
  <2>3. db' \in [Intents -> RowType]
    BY <1>6, <2>2 DEF SaveCommits, TypeOK
  <2> QED
    BY <1>6, <2>1, <2>3 DEF SaveCommits, TypeOK, memory, history
<1>7. ASSUME NEW i \in Intents, SubmitDuplicate(c, i) \/ SubmitRejected(c, i) PROVE TypeOK'
  BY <1>7, RefuseTyped DEF SubmitDuplicate, SubmitRejected, StatusText
<1>8. ASSUME NEW i \in Intents, SubmitAllowed(c, i) PROVE TypeOK'
  <2>1. [Idle EXCEPT !.pc = "execute", !.intent = i, !.now = clock] \in CallType
    BY IdleTyped DEF CallType, TypeOK
  <2>2. call' \in [Calls -> CallType]
    BY <1>8, <2>1 DEF SubmitAllowed, TypeOK
  <2> QED
    BY <1>8, <2>2 DEF SubmitAllowed, TypeOK, memory, history
<1>9. ASSUME BasketPlaced(c) PROVE TypeOK'
  <2>1. call[c].intent \in Intents /\ placed[call[c].intent] \in Nat
    BY <1>9 DEF BasketPlaced, CallHasIntent, TypeOK
  <2>2. [call[c] EXCEPT !.pc = "return", !.basket = placed[call[c].intent] + 1] \in CallType
    <3>1. placed[call[c].intent] + 1 \in Nat
      BY <2>1
    <3> QED
      BY <3>1, ReturnTyped
  <2>3. call' \in [Calls -> CallType]
    BY <1>9, <2>2 DEF BasketPlaced, TypeOK
  <2>4. placed' \in [Intents -> Nat]
    BY <1>9, <2>1 DEF BasketPlaced, TypeOK
  <2> QED
    BY <1>9, <2>3, <2>4 DEF BasketPlaced, TypeOK, memory
<1>10. ASSUME BasketRaises(c) PROVE TypeOK'
  <2>1. call[c].intent \in Intents /\ placed[call[c].intent] \in Nat
    <3>1. call[c].intent \in Intents
      BY <1>10 DEF BasketRaises, CallHasIntent
    <3> QED
      BY <3>1 DEF TypeOK
  <2>2. call' \in [Calls -> CallType]
    BY <1>10, IdleTyped DEF BasketRaises, TypeOK
  <2>3. placed' \in [Intents -> Nat]
    BY <1>10, <2>1 DEF BasketRaises, TypeOK
  <2>4. faults' \in FaultType
    BY <1>10, FaultsTyped DEF BasketRaises, TypeOK
  <2> QED
    BY <1>10, <2>2, <2>3, <2>4 DEF BasketRaises, TypeOK, memory
<1>11. ASSUME SubmitReturns(c) PROVE TypeOK'
  <2>1. call[c].intent \in Intents /\ sig[call[c].intent] \in AnyKey
    BY <1>11 DEF SubmitReturns, CallHasIntent, TypeOK, AnyKey
  <2>2. [call[c] EXCEPT !.pc = "persist", !.status = "submitted",
                        !.key = sig[call[c].intent]] \in CallType
    BY <2>1, PersistTyped
  <2>3. call' \in [Calls -> CallType]
    BY <1>11, <2>2 DEF SubmitReturns, TypeOK
  <2>4. status' \in [Intents -> StatusText \cup {"absent"}]
    BY <1>11 DEF SubmitReturns, TypeOK, StatusText
  <2>5. basketOf' \in [Intents -> Nat] /\ key' \in [Intents -> AnyKey]
    BY <1>11, <2>1, CallFields DEF SubmitReturns, TypeOK
  <2>6. /\ recent' \in [Sigs -> Times \cup {Never}]
        /\ acceptedAt' \in [Intents -> Times \cup {Never}]
    BY <1>11, CallFields DEF SubmitReturns, TypeOK
  <2> QED
    BY <1>11, <2>3, <2>4, <2>5, <2>6 DEF SubmitReturns, TypeOK
<1>12. ASSUME UpdateCommits(c) PROVE TypeOK'
  <2>1. call' \in [Calls -> CallType]
    BY <1>12, IdleTyped DEF UpdateCommits, TypeOK
  <2>2. PICK b \in Nat, k \in AnyKey :
          db' = IF db[call[c].intent] = NoRow THEN db
                ELSE [db EXCEPT ![call[c].intent] =
                        [status |-> call[c].status, basket |-> b, key |-> k, at |-> clock]]
    <3>1. call[c].intent \in Intents
      BY <1>12 DEF UpdateCommits, CallHasIntent
    <3> QED
      BY <1>12, <3>1, CallFields, RowFields DEF UpdateCommits
  <2>3. db' \in [Intents -> RowType]
    <3>1. [status |-> call[c].status, basket |-> b, key |-> k, at |-> clock] \in RowType
      BY CallFields DEF TypeOK, RowType
    <3> QED
      BY <2>2, <3>1 DEF TypeOK
  <2> QED
    BY <1>12, <2>1, <2>3 DEF UpdateCommits, TypeOK, memory, history
<1>13. ASSUME WriteFails(c) PROVE TypeOK'
  <2>1. call' \in [Calls -> CallType]
    BY <1>13, IdleTyped DEF WriteFails, TypeOK
  <2>2. faults' \in FaultType
    BY <1>13, FaultsTyped DEF WriteFails, TypeOK
  <2> QED
    BY <1>13, <2>1, <2>2 DEF WriteFails, TypeOK, memory, history
<1> QED
  BY <1>1, <1>2, <1>3, <1>4, <1>5, <1>6, <1>7, <1>8, <1>9, <1>10, <1>11, <1>12, <1>13
  DEF CallStep

(* ... and of the process. *)
LEMMA TypeStep == IInv /\ [Next]_vars => TypeOK'
<1> SUFFICES ASSUME IInv, [Next]_vars PROVE TypeOK'
  OBVIOUS
<1> USE DEF IInv
<1>1. CASE Crash
  <2>1. call' \in [Calls -> CallType]
    BY <1>1, IdleTyped DEF Crash
  <2>2. recent' \in [Sigs -> Times \cup {Never}]
    BY <1>1 DEF Crash
  <2>3. faults' \in FaultType
    BY <1>1, FaultsTyped DEF Crash
  <2> QED
    BY <1>1, <2>1, <2>2, <2>3 DEF Crash, TypeOK, AnyKey, history
<1>2. CASE Restore
  <2>1. ASSUME NEW s \in Sigs PROVE RestoredRecent(s) \in Times \cup {Never}
    BY RowFields DEF RestoredRecent
  <2>2. recent' \in [Sigs -> Times \cup {Never}]
    BY <1>2, <2>1 DEF Restore
  <2>3. /\ status' \in [Intents -> StatusText \cup {"absent"}]
        /\ basketOf' \in [Intents -> Nat] /\ key' \in [Intents -> AnyKey]
    BY <1>2, RowFields DEF Restore
  <2> QED
    BY <1>2, <2>2, <2>3 DEF Restore, TypeOK, history
<1>3. CASE RestoreFails
  <2>1. faults' \in FaultType
    BY <1>3, FaultsTyped DEF RestoreFails
  <2> QED
    BY <1>3, <2>1 DEF RestoreFails, TypeOK, memory, history
<1>4. CASE Tick
  BY <1>4, BoundsAssumption DEF Tick, TypeOK, memory, history, Times
<1>5. CASE UNCHANGED vars
  BY <1>5 DEF vars, memory, history, TypeOK
<1> QED
  BY <1>1, <1>2, <1>3, <1>4, <1>5, CallStepTyped DEF Next

-----------------------------------------------------------------------------
(* What the other conjuncts of IInv rest on: baskets are only ever added,  *)
(* and a step of one call leaves the locals of the others alone.           *)
LEMMA PlacedGrows ==
  ASSUME IInv, [Next]_vars, NEW i \in Intents
  PROVE  placed[i] \in Nat /\ placed'[i] \in Nat /\ placed[i] <= placed'[i]
<1>1. placed \in [Intents -> Nat]
  BY DEF IInv, TypeOK
<1>2. ASSUME NEW c \in Calls, BasketPlaced(c) PROVE placed[i] <= placed'[i]
  BY <1>1, <1>2 DEF BasketPlaced
<1>3. ASSUME NEW c \in Calls, BasketRaises(c) PROVE placed[i] <= placed'[i]
  BY <1>1, <1>3 DEF BasketRaises
<1>4. ASSUME NEW c \in Calls, CallStep(c), ~BasketPlaced(c), ~BasketRaises(c)
      PROVE  placed' = placed
  BY <1>4 DEF CallStep, CreateWithoutKey, CreateWithKey, LookupReads, CreateReplays,
    CreateAfterLookup, Birth, SaveCommits, SubmitDuplicate, SubmitRejected, SubmitAllowed,
    Refuse, SubmitReturns, UpdateCommits, WriteFails, history
<1>5. placed[i] <= placed'[i]
  BY <1>1, <1>2, <1>3, <1>4
  DEF Next, Crash, Restore, RestoreFails, Tick, vars, history
<1>6. placed' \in [Intents -> Nat]
  BY TypeStep DEF TypeOK
<1> QED
  BY <1>1, <1>5, <1>6

LEMMA OthersWait ==
  ASSUME TypeOK, NEW c \in Calls, CallStep(c), NEW d \in Calls, d # c
  PROVE  call'[d] = call[d]
<1>1. \E r : call' = [call EXCEPT ![c] = r]
  BY DEF CallStep, CreateWithoutKey, CreateWithKey, LookupReads, CreateReplays,
    CreateAfterLookup, Birth, SaveCommits, SubmitDuplicate, SubmitRejected, SubmitAllowed,
    Refuse, BasketPlaced, BasketRaises, SubmitReturns, UpdateCommits, WriteFails
<1> QED
  BY <1>1 DEF TypeOK

(* The two conjuncts about calls, for one call. *)
Holds(c) ==
  /\ call[c].pc \in {"save", "execute", "return", "persist"} => call[c].intent \in Intents
  /\ Carries(c) => /\ call[c].intent \in Intents
                   /\ call[c].basket \in 1..placed[call[c].intent]

LEMMA HoldsNow == ASSUME IInv, NEW c \in Calls PROVE Holds(c)
  BY DEF IInv, CallHasIntent, CallHasBasket, Holds

(* A call that goes idle, or starts anew without a submission, holds.      *)
LEMMA HoldsAfter ==
  ASSUME TypeOK, NEW c \in Calls, NEW r, call' = [call EXCEPT ![c] = r],
         \/ r.pc \in {"idle", "lookup"}
         \/ r.pc = "found" /\ r.status # "submitted"
         \/ r.pc \in {"save", "execute"} /\ r.intent \in Intents
         \/ r.pc = "persist" /\ r.status # "submitted" /\ r.intent \in Intents
         \/ /\ r.pc \in {"found", "return", "persist"} /\ r.intent \in Intents
            /\ r.basket \in 1..placed'[r.intent]
  PROVE  Holds(c)'
<1>1. call'[c] = r
  BY DEF TypeOK
<1> QED
  BY <1>1 DEF Holds, Carries

LEMMA CallHolds ==
  ASSUME IInv, NEW c \in Calls, CallStep(c)
  PROVE  Holds(c)'
<1> USE DEF IInv
<1>0. [Next]_vars
  BY DEF Next
<1>1. ASSUME NEW i \in Intents, NEW s, NEW k, Birth(c, i, s, k) PROVE Holds(c)'
  <2> DEFINE r == [Idle EXCEPT !.pc = "save", !.intent = i, !.key = k]
  <2>1. call' = [call EXCEPT ![c] = r] /\ r.pc = "save" /\ r.intent = i
    BY <1>1 DEF Birth, Idle
  <2> HIDE DEF r
  <2> QED
    BY <2>1, HoldsAfter
<1>2. ASSUME NEW s, NEW k, CreateWithKey(c, s, k) PROVE Holds(c)'
  <2> DEFINE r == [Idle EXCEPT !.pc = "lookup", !.key = k, !.sig = s]
  <2>1. call' = [call EXCEPT ![c] = r] /\ r.pc = "lookup"
    BY <1>2 DEF CreateWithKey, Idle
  <2> HIDE DEF r
  <2> QED
    BY <2>1, HoldsAfter
<1>3. ASSUME LookupReads(c) PROVE Holds(c)'
  <2>1. placed' = placed
    BY <1>3 DEF LookupReads, history
  <2>2. ASSUME NEW i \in Intents \cup {None}, NEW text, NEW b
        PROVE  /\ Found(c, i, text, b).pc = "found" /\ Found(c, i, text, b).status = text
               /\ Found(c, i, text, b).intent = i /\ Found(c, i, text, b).basket = b
    BY CallTyped DEF Found, CallType
  <2>3. CASE call' = [call EXCEPT ![c] = Found(c, None, "absent", 0)]
    <3> DEFINE r == Found(c, None, "absent", 0)
    <3>1. r.pc = "found" /\ r.status # "submitted"
      BY <2>2
    <3> HIDE DEF r
    <3> QED
      BY <2>3, <3>1, HoldsAfter DEF r
  <2>4. ASSUME NEW i \in Intents,
               call' = [call EXCEPT ![c] = Found(c, i, db[i].status, db[i].basket)]
        PROVE  Holds(c)'
    <3> DEFINE r == Found(c, i, db[i].status, db[i].basket)
    <3>1. /\ r.pc = "found" /\ r.intent = i /\ r.status = db[i].status
          /\ r.basket = db[i].basket
      BY <2>2
    <3>2. db[i].status = "submitted" => db[i].basket \in 1..placed'[i]
      BY <2>1 DEF SubmissionHasBasket
    <3> HIDE DEF r
    <3> QED
      BY <2>4, <3>1, <3>2, HoldsAfter DEF r
  <2> QED
    BY <1>3, <2>3, <2>4 DEF LookupReads
<1>4. ASSUME call' = [call EXCEPT ![c] = Idle] PROVE Holds(c)'
  BY <1>4, HoldsAfter DEF Idle
<1>5. ASSUME NEW i \in Intents, NEW v, v # "submitted", Refuse(c, i, v) PROVE Holds(c)'
  <2> DEFINE r == [Idle EXCEPT !.pc = "persist", !.intent = i, !.status = v]
  <2>1. /\ call' = [call EXCEPT ![c] = r] /\ r.pc = "persist" /\ r.status = v /\ r.intent = i
    BY <1>5 DEF Refuse, Idle
  <2> HIDE DEF r
  <2> QED
    BY <1>5, <2>1, HoldsAfter
<1>6. ASSUME NEW i \in Intents, SubmitAllowed(c, i) PROVE Holds(c)'
  <2> DEFINE r == [Idle EXCEPT !.pc = "execute", !.intent = i, !.now = clock]
  <2>1. /\ call' = [call EXCEPT ![c] = r] /\ r.pc = "execute" /\ r.intent = i
    BY <1>6 DEF SubmitAllowed, Idle
  <2> HIDE DEF r
  <2> QED
    BY <2>1, HoldsAfter
<1>7. ASSUME BasketPlaced(c) PROVE Holds(c)'
  <2> DEFINE i == call[c].intent
             r == [call[c] EXCEPT !.pc = "return", !.basket = placed[i] + 1]
  <2>1. i \in Intents /\ placed[i] \in Nat
    BY <1>7, HoldsNow DEF BasketPlaced, TypeOK, Holds
  <2>2. placed'[i] = placed[i] + 1
    BY <1>7, <2>1 DEF BasketPlaced, TypeOK
  <2>3. /\ call' = [call EXCEPT ![c] = r]
        /\ r.pc = "return" /\ r.intent = i /\ r.basket = placed[i] + 1
    BY <1>7, CallTyped DEF BasketPlaced, CallType
  <2> HIDE DEF r, i
  <2>4. r.basket \in 1..placed'[r.intent]
    BY <2>1, <2>2, <2>3
  <2> QED
    BY <2>1, <2>3, <2>4, HoldsAfter
<1>8. ASSUME SubmitReturns(c) PROVE Holds(c)'
  <2> DEFINE i == call[c].intent
             r == [call[c] EXCEPT !.pc = "persist", !.status = "submitted", !.key = sig[i]]
  <2>1. i \in Intents /\ call[c].basket \in 1..placed[i] /\ placed' = placed
    BY <1>8, HoldsNow DEF SubmitReturns, Holds, Carries
  <2>2. /\ call' = [call EXCEPT ![c] = r]
        /\ r.pc = "persist" /\ r.intent = i /\ r.basket = call[c].basket
    BY <1>8, CallTyped DEF SubmitReturns, CallType
  <2> HIDE DEF r, i
  <2> QED
    BY <2>1, <2>2, HoldsAfter
<1> QED
  BY <1>1, <1>2, <1>3, <1>4, <1>5, <1>6, <1>7, <1>8
  DEF CallStep, CreateWithoutKey, CreateAfterLookup, CreateReplays, SaveCommits,
      SubmitDuplicate, SubmitRejected, BasketRaises, UpdateCommits, WriteFails

LEMMA CallsHold ==
  ASSUME IInv, [Next]_vars
  PROVE  CallHasIntent' /\ CallHasBasket'
<1> SUFFICES ASSUME NEW d \in Calls PROVE Holds(d)'
  BY DEF CallHasIntent, CallHasBasket, Holds
<1>1. ASSUME NEW c \in Calls, CallStep(c), d # c PROVE Holds(d)'
  <2>1. call'[d] = call[d]
    BY <1>1, OthersWait DEF IInv
  <2>2. Holds(d)
    BY HoldsNow
  <2>3. \A i \in Intents : placed[i] \in Nat /\ placed'[i] \in Nat /\ placed[i] <= placed'[i]
    BY PlacedGrows
  <2> QED
    BY <2>1, <2>2, <2>3 DEF Holds, Carries
<1>2. ASSUME NEW c \in Calls, CallStep(c), d = c PROVE Holds(d)'
  BY <1>2, CallHolds
<1>3. CASE Crash
  BY <1>3 DEF Crash, Holds, Carries, Idle
<1>4. CASE Restore \/ RestoreFails \/ Tick \/ UNCHANGED vars
  <2>1. call' = call /\ placed' = placed
    BY <1>4 DEF Restore, RestoreFails, Tick, vars, history
  <2> QED
    BY <2>1, HoldsNow DEF Holds, Carries
<1> QED
  BY <1>1, <1>2, <1>3, <1>4 DEF Next

LEMMA SubmissionStep ==
  ASSUME IInv, [Next]_vars
  PROVE  SubmissionHasBasket'
<1> USE DEF IInv
<1>0. \A i \in Intents : placed[i] \in Nat /\ placed'[i] \in Nat /\ placed[i] <= placed'[i]
  BY PlacedGrows
<1>1. /\ status \in [Intents -> StatusText \cup {"absent"}] /\ basketOf \in [Intents -> Nat]
      /\ db \in [Intents -> RowType]
  BY DEF TypeOK
<1> SUFFICES ASSUME NEW j \in Intents
             PROVE  /\ status'[j] = "submitted" => basketOf'[j] \in 1..placed'[j]
                    /\ db'[j].status = "submitted" => db'[j].basket \in 1..placed'[j]
  BY DEF SubmissionHasBasket
<1>2. /\ status[j] = "submitted" => basketOf[j] \in 1..placed'[j]
      /\ db[j].status = "submitted" => db[j].basket \in 1..placed'[j]
  BY <1>0 DEF SubmissionHasBasket
<1> DEFINE MemoryHolds == status'[j] = "submitted" => basketOf'[j] \in 1..placed'[j]
           RowHolds    == db'[j].status = "submitted" => db'[j].basket \in 1..placed'[j]
<1>3. ASSUME UNCHANGED <<status, basketOf, db>> PROVE MemoryHolds /\ RowHolds
  BY <1>2, <1>3
<1>4. ASSUME NEW i \in Intents, NEW v, v # "submitted", status' = [status EXCEPT ![i] = v],
             UNCHANGED <<basketOf, db>>
      PROVE  MemoryHolds /\ RowHolds
  BY <1>1, <1>2, <1>4
<1>5. ASSUME NEW c \in Calls, CallStep(c) PROVE MemoryHolds /\ RowHolds
  <2>1. CASE CreateReplays(c)
    <3> DEFINE i == call[c].intent
    <3>1. i \in Intents /\ db' = db
      BY <2>1, CallFields DEF CreateReplays
    <3>2. \/ UNCHANGED <<status, basketOf>>
          \/ /\ status' = [status EXCEPT ![i] = call[c].status]
             /\ basketOf' = [basketOf EXCEPT ![i] = call[c].basket]
      BY <2>1 DEF CreateReplays
    <3>3. call[c].status = "submitted" => call[c].basket \in 1..placed'[i]
      BY <1>0, <2>1, HoldsNow DEF Holds, Carries, CreateReplays
    <3> HIDE DEF i
    <3> QED
      BY <1>1, <1>2, <3>1, <3>2, <3>3
  <2>2. CASE SaveCommits(c)
    <3>1. UNCHANGED <<status, basketOf>>
      BY <2>2 DEF SaveCommits, memory
    <3>2. \/ db' = db
          \/ \E r : r.status = "created" /\ db' = [db EXCEPT ![call[c].intent] = r]
      BY <2>2 DEF SaveCommits
    <3> QED
      BY <1>1, <1>2, <3>1, <3>2
  <2>3. CASE SubmitReturns(c)
    <3> DEFINE i == call[c].intent
    <3>1. /\ i \in Intents /\ db' = db
          /\ basketOf' = [basketOf EXCEPT ![i] = call[c].basket]
          /\ status' = [status EXCEPT ![i] = "submitted"]
      BY <2>3, HoldsNow DEF SubmitReturns, Holds
    <3>2. call[c].basket \in 1..placed'[i]
      BY <1>0, <2>3, HoldsNow DEF Holds, Carries, SubmitReturns
    <3> HIDE DEF i
    <3> QED
      BY <1>1, <1>2, <3>1, <3>2
  <2>4. CASE UpdateCommits(c)
    <3> DEFINE i == call[c].intent
    <3>1. i \in Intents /\ UNCHANGED <<status, basketOf>>
      BY <2>4, HoldsNow DEF UpdateCommits, Holds, memory
    <3>2. call[c].status = "submitted" => call[c].basket \in 1..placed'[i]
      BY <1>0, <2>4, HoldsNow DEF Holds, Carries, UpdateCommits
    <3>3. \/ db' = db
          \/ \E r : /\ db' = [db EXCEPT ![i] = r] /\ r.status = call[c].status
                    /\ call[c].basket # 0 => r.basket = call[c].basket
      <4>1. PICK k : db' = IF db[i] = NoRow THEN db
              ELSE [db EXCEPT ![i] =
                      [status |-> call[c].status,
                       basket |-> IF call[c].basket # 0 THEN call[c].basket ELSE db[i].basket,
                       key |-> k, at |-> clock]]
        BY <2>4 DEF UpdateCommits
      <4>2. CASE db[i] = NoRow
        BY <4>1, <4>2
      <4>3. CASE db[i] # NoRow
        <5> DEFINE r == [status |-> call[c].status,
                         basket |-> IF call[c].basket # 0 THEN call[c].basket ELSE db[i].basket,
                         key |-> k, at |-> clock]
        <5>1. r.status = call[c].status /\ (call[c].basket # 0 => r.basket = call[c].basket)
          OBVIOUS
        <5>2. db' = [db EXCEPT ![i] = r]
          BY <4>1, <4>3
        <5> HIDE DEF r
        <5> QED
          BY <5>1, <5>2
      <4> QED
        BY <4>2, <4>3
    <3> HIDE DEF i
    <3>4. CASE db'[j] = db[j]
      BY <1>2, <3>1, <3>4
    <3>5. CASE i = j /\ db' # db
      <4>1. /\ db'[j].status = call[c].status
            /\ call[c].basket # 0 => db'[j].basket = call[c].basket
        BY <1>1, <3>3, <3>5
      <4>2. 0 \notin 1..placed'[i]
        BY <1>0, <3>1
      <4>3. RowHolds
        BY <3>2, <3>5, <4>1, <4>2
      <4> QED
        BY <1>2, <3>1, <4>3
    <3> QED
      BY <1>1, <3>3, <3>4, <3>5
  <2>5. ASSUME NEW i \in Intents, NEW s, NEW k, Birth(c, i, s, k) PROVE MemoryHolds /\ RowHolds
    BY <1>4, <2>5 DEF Birth
  <2>6. ASSUME NEW i \in Intents, NEW v, v # "submitted", Refuse(c, i, v)
        PROVE  MemoryHolds /\ RowHolds
    BY <1>4, <2>6 DEF Refuse
  <2>7. ASSUME \/ \E s, k : CreateWithKey(c, s, k)
               \/ \E i : SubmitAllowed(c, i)
               \/ LookupReads(c) \/ BasketPlaced(c) \/ BasketRaises(c) \/ WriteFails(c)
        PROVE  MemoryHolds /\ RowHolds
    BY <1>3, <2>7
    DEF CreateWithKey, SubmitAllowed, LookupReads, BasketPlaced, BasketRaises, WriteFails, memory
  <2> HIDE DEF MemoryHolds, RowHolds
  <2> QED
    BY <1>5, <2>1, <2>2, <2>3, <2>4, <2>5, <2>6, <2>7
    DEF CallStep, CreateWithoutKey, CreateAfterLookup, SubmitDuplicate, SubmitRejected
<1>6. CASE Crash
  BY <1>2, <1>6 DEF Crash
<1>7. CASE Restore
  BY <1>2, <1>7 DEF Restore
<1>8. CASE RestoreFails \/ Tick \/ UNCHANGED vars
  BY <1>3, <1>8 DEF RestoreFails, Tick, vars, memory
<1> QED
  BY <1>5, <1>6, <1>7, <1>8 DEF Next

-----------------------------------------------------------------------------
(* IInv is inductive, so the service keeps it, whatever calls overlap,     *)
(* fail or are cut off by a crash.                                         *)
THEOREM Invariance == Spec => []IInv
<1>1. IInv /\ [Next]_vars => IInv'
  BY TypeStep, CallsHold, SubmissionStep DEF IInv
<1> QED
  BY InitIInv, <1>1, PTL DEF Spec

(* The memory, the table and the locals of the calls keep their types:     *)
(* in particular every status a call carries past an await into the table  *)
(* is one the service writes, and every call past a create or submit has   *)
(* an intent to write it for.                                              *)
THEOREM TypeCorrect == Spec => []TypeOK
  BY Invariance, PTL DEF IInv

(* A submission, in memory or in the table, names a basket of that intent  *)
(* whose orders are out: no interleaving of creates, replays, submits and  *)
(* late commits, no lost write and no restart makes a phantom submission.  *)
THEOREM SubmissionsHaveBaskets == Spec => []SubmissionHasBasket
  BY Invariance, PTL DEF IInv

-----------------------------------------------------------------------------
(* What the leaves below need of the types. *)
LEMMA Tables ==
  ASSUME TypeOK
  PROVE  /\ status \in [Intents -> StatusText \cup {"absent"}]
         /\ basketOf \in [Intents -> Nat] /\ key \in [Intents -> AnyKey]
         /\ recent \in [Sigs -> Times \cup {Never}]
         /\ db \in [Intents -> RowType] /\ call \in [Calls -> CallType]
         /\ sig \in [Intents -> Sigs \cup {None}] /\ placed \in [Intents -> Nat]
         /\ acceptedAt \in [Intents -> Times \cup {Never}]
         /\ clock \in Nat /\ clock \in Times
         /\ faults.crashes \in Nat /\ faults.reads \in Nat
  BY BoundsAssumption DEF TypeOK, FaultType, Times

LEMMA NoneIsNoIntent == None \notin Intents /\ None \notin Keys /\ None \notin Sigs
                        /\ Sigs \cap Keys = {}
  BY IntentsAssumption, KeysAssumption

(***************************************************************************)
(* The effect of each kind of step on the call that takes it.              *)
(***************************************************************************)
LEMMA BirthEffect ==
  ASSUME TypeOK, NEW c \in Calls, NEW i, NEW s, NEW k, Birth(c, i, s, k)
  PROVE  /\ call'[c].pc = "save" /\ call'[c].intent = i /\ call'[c].key = k
         /\ call'[c].status = "absent" /\ call'[c].now = 0
  BY Tables DEF Birth, Idle

LEMMA LookupEffect ==
  ASSUME TypeOK, NEW c \in Calls, NEW s, NEW k, CreateWithKey(c, s, k)
  PROVE  /\ call'[c].pc = "lookup" /\ call'[c].intent = None /\ call'[c].key = k
         /\ call'[c].status = "absent" /\ call'[c].now = 0 /\ call'[c].sig = s
  BY Tables DEF CreateWithKey, Idle

LEMMA FoundEffect ==
  ASSUME TypeOK, NEW c \in Calls, LookupReads(c)
  PROVE  /\ call'[c].pc = "found" /\ call'[c].key = call[c].key /\ call'[c].now = call[c].now
         /\ call'[c].sig = call[c].sig
         /\ \/ call'[c].intent = None
            \/ /\ call'[c].intent \in Intents
               /\ db[call'[c].intent].key = call[c].key
               /\ call'[c].status = db[call'[c].intent].status
         /\ faults'.crashes = faults.crashes
         /\ faults'.reads = 0 /\ call'[c].intent = None =>
              \A i \in Intents : db[i].key # call[c].key
<1>1. call[c] \in CallType
  BY Tables
<1>2. ASSUME NEW i, NEW t, NEW b
      PROVE  /\ Found(c, i, t, b).pc = "found" /\ Found(c, i, t, b).key = call[c].key
             /\ Found(c, i, t, b).now = call[c].now /\ Found(c, i, t, b).intent = i
             /\ Found(c, i, t, b).status = t /\ Found(c, i, t, b).sig = call[c].sig
  BY <1>1 DEF Found, CallType
<1>3. faults'.crashes = faults.crashes
  <2>1. faults \in FaultType
    BY DEF TypeOK
  <2>2. [faults EXCEPT !.reads = @ + 1].reads # 0
        /\ [faults EXCEPT !.reads = @ + 1].crashes = faults.crashes
    BY <2>1 DEF FaultType
  <2> QED
    BY <2>2 DEF LookupReads
<1>4. ASSUME NEW i, NEW t, NEW b, call' = [call EXCEPT ![c] = Found(c, i, t, b)]
      PROVE  /\ call'[c].pc = "found" /\ call'[c].key = call[c].key
             /\ call'[c].now = call[c].now /\ call'[c].sig = call[c].sig
             /\ call'[c].intent = i /\ call'[c].status = t
  <2>1. call'[c] = Found(c, i, t, b)
    BY <1>4, Tables
  <2> QED
    BY <1>2, <1>4, <2>1
<1>5. CASE \E i \in Intents :
             /\ db[i].key = call[c].key
             /\ call' = [call EXCEPT ![c] = Found(c, i, db[i].status, db[i].basket)]
  <2>1. PICK i \in Intents :
             /\ db[i].key = call[c].key
             /\ call' = [call EXCEPT ![c] = Found(c, i, db[i].status, db[i].basket)]
    BY <1>5
  <2>2. /\ call'[c].pc = "found" /\ call'[c].key = call[c].key
        /\ call'[c].now = call[c].now /\ call'[c].sig = call[c].sig
        /\ call'[c].intent = i /\ call'[c].status = db[i].status
    BY <1>4, <2>1
  <2> QED
    BY <1>3, <2>1, <2>2, NoneIsNoIntent
<1>6. CASE call' = [call EXCEPT ![c] = Found(c, None, "absent", 0)]
  <2>0. /\ call'[c].pc = "found" /\ call'[c].key = call[c].key
        /\ call'[c].now = call[c].now /\ call'[c].sig = call[c].sig
        /\ call'[c].intent = None
    BY <1>4, <1>6
  <2>1. CASE (\A i \in Intents : db[i].key # call[c].key) \/ faults'.reads # 0
    <3> HIDE DEF LookupReads
    <3> QED
      BY <1>3, <2>0, <2>1
  <2>2. CASE ~((\A i \in Intents : db[i].key # call[c].key) \/ faults'.reads # 0)
    <3>1. faults' # [faults EXCEPT !.reads = @ + 1]
      BY <2>2, FaultsTyped DEF FaultType, TypeOK
    <3> QED
      BY <1>5, <2>2, <3>1 DEF LookupReads
  <2> QED
    BY <2>1, <2>2
<1>7. \/ \E i \in Intents :
             /\ db[i].key = call[c].key
             /\ call' = [call EXCEPT ![c] = Found(c, i, db[i].status, db[i].basket)]
      \/ call' = [call EXCEPT ![c] = Found(c, None, "absent", 0)]
  BY DEF LookupReads
<1> QED
  BY <1>5, <1>6, <1>7

LEMMA IdleEffect ==
  ASSUME TypeOK, NEW c \in Calls, call' = [call EXCEPT ![c] = Idle]
  PROVE  /\ call'[c].pc = "idle" /\ call'[c].intent = None /\ call'[c].status = "absent"
         /\ call'[c].now = 0
  BY Tables DEF Idle

LEMMA RefuseEffect ==
  ASSUME TypeOK, NEW c \in Calls, NEW i, NEW v, Refuse(c, i, v)
  PROVE  /\ call'[c].pc = "persist" /\ call'[c].intent = i /\ call'[c].status = v
         /\ call'[c].key = None /\ call'[c].now = 0
  BY Tables DEF Refuse, Idle

LEMMA AllowedEffect ==
  ASSUME TypeOK, NEW c \in Calls, NEW i, SubmitAllowed(c, i)
  PROVE  /\ call'[c].pc = "execute" /\ call'[c].intent = i /\ call'[c].status = "absent"
         /\ call'[c].now = clock
  BY Tables DEF SubmitAllowed, Idle

LEMMA PlacedEffect ==
  ASSUME TypeOK, NEW c \in Calls, BasketPlaced(c)
  PROVE  /\ call'[c].pc = "return" /\ call'[c].intent = call[c].intent
         /\ call'[c].status = call[c].status /\ call'[c].now = call[c].now
  BY Tables DEF BasketPlaced, CallType

LEMMA ReturnEffect ==
  ASSUME TypeOK, NEW c \in Calls, SubmitReturns(c)
  PROVE  /\ call'[c].pc = "persist" /\ call'[c].intent = call[c].intent
         /\ call'[c].status = "submitted" /\ call'[c].now = call[c].now
         /\ call'[c].key = sig[call[c].intent]
  BY Tables DEF SubmitReturns, CallType

(* What a commit of update_status leaves in the table. *)
LEMMA UpdateEffect ==
  ASSUME IInv, NEW c \in Calls, UpdateCommits(c)
  PROVE  /\ call[c].intent \in Intents
         /\ db[call[c].intent] = NoRow => db' = db
         /\ db[call[c].intent] # NoRow =>
              /\ db'[call[c].intent].status = call[c].status
              /\ db'[call[c].intent].at = clock
              /\ \/ db'[call[c].intent].key = db[call[c].intent].key
                 \/ /\ db'[call[c].intent].key = call[c].key /\ call[c].key # None
                    /\ \A j \in Intents : db[j].key # call[c].key
              /\ \A j \in Intents : j # call[c].intent => db'[j] = db[j]
         /\ call' = [call EXCEPT ![c] = Idle]
         /\ UNCHANGED <<memory, up, clock, history, faults>>
<1> DEFINE i == call[c].intent
           free == db[i].key = None /\ \A j \in Intents : db[j].key # call[c].key
           r == [status |-> call[c].status,
                 basket |-> IF call[c].basket # 0 THEN call[c].basket ELSE db[i].basket,
                 key    |-> IF call[c].key # None /\ free THEN call[c].key ELSE db[i].key,
                 at     |-> clock]
<1>1. i \in Intents
  BY HoldsNow DEF UpdateCommits, Holds
<1>2. /\ r.status = call[c].status /\ r.at = clock
      /\ \/ r.key = db[i].key
         \/ /\ r.key = call[c].key /\ call[c].key # None
            /\ \A j \in Intents : db[j].key # call[c].key
  OBVIOUS
<1>3. db' = IF db[i] = NoRow THEN db ELSE [db EXCEPT ![i] = r]
  BY DEF UpdateCommits
<1>4. db \in [Intents -> RowType]
  BY Tables DEF IInv
<1>5. call' = [call EXCEPT ![c] = Idle] /\ UNCHANGED <<memory, up, clock, history, faults>>
  BY DEF UpdateCommits
<1> HIDE DEF r, free
<1> QED
  BY <1>1, <1>2, <1>3, <1>4, <1>5

LEMMA SaveEffect ==
  ASSUME IInv, NEW c \in Calls, SaveCommits(c)
  PROVE  /\ call[c].intent \in Intents
         /\ \/ db' = db
            \/ /\ db'[call[c].intent].status = "created"
               /\ db'[call[c].intent].key = call[c].key
               /\ call[c].key = None \/ \A j \in Intents : db[j].key # call[c].key
               /\ \A j \in Intents : j # call[c].intent => db'[j] = db[j]
         /\ call' = [call EXCEPT ![c] = Idle]
         /\ UNCHANGED <<memory, up, clock, history, faults>>
<1> DEFINE i == call[c].intent
           r == [status |-> "created", basket |-> 0, key |-> call[c].key, at |-> clock]
<1>1. i \in Intents
  BY HoldsNow DEF SaveCommits, Holds
<1>2. r.status = "created" /\ r.key = call[c].key
  OBVIOUS
<1>3. \/ db' = db
      \/ /\ db' = [db EXCEPT ![i] = r]
         /\ call[c].key = None \/ \A j \in Intents : db[j].key # call[c].key
  BY DEF SaveCommits
<1>4. db \in [Intents -> RowType]
  BY Tables DEF IInv
<1>5. call' = [call EXCEPT ![c] = Idle] /\ UNCHANGED <<memory, up, clock, history, faults>>
  BY DEF SaveCommits
<1> HIDE DEF r
<1> QED
  BY <1>1, <1>2, <1>3, <1>4, <1>5

LEMMA FaultsGrow ==
  ASSUME TypeOK, [Next]_vars
  PROVE  /\ faults'.crashes \in Nat /\ faults'.crashes >= faults.crashes
         /\ faults'.reads \in Nat /\ faults'.reads >= faults.reads
         /\ faults.crashes \in Nat /\ faults.reads \in Nat
<1>1. faults \in FaultType
  BY DEF TypeOK
<1>2. \/ faults' = faults
      \/ faults' = [faults EXCEPT !.crashes = @ + 1]
      \/ faults' = [faults EXCEPT !.reads = @ + 1]
      \/ faults' = [faults EXCEPT !.writes = @ + 1]
      \/ faults' = [faults EXCEPT !.raised = @ + 1]
  <2>1. ASSUME NEW c \in Calls, CallStep(c)
        PROVE  \/ faults' = faults
               \/ faults' = [faults EXCEPT !.reads = @ + 1]
               \/ faults' = [faults EXCEPT !.writes = @ + 1]
               \/ faults' = [faults EXCEPT !.raised = @ + 1]
    BY <2>1 DEF CallStep, CreateWithoutKey, CreateWithKey, LookupReads, CreateReplays,
      CreateAfterLookup, Birth, SaveCommits, SubmitDuplicate, SubmitRejected, SubmitAllowed,
      Refuse, BasketPlaced, BasketRaises, SubmitReturns, UpdateCommits, WriteFails
  <2> QED
    BY <2>1 DEF Next, Crash, Restore, RestoreFails, Tick, vars
<1> QED
  BY <1>1, <1>2 DEF FaultType

-----------------------------------------------------------------------------
(***************************************************************************)
(* What the memory knows.  An intent that was not created is nowhere; a    *)
(* process that is down holds nothing; an intent that a call works on is   *)
(* in memory, and submitted there before its row can say so.               *)
(***************************************************************************)
Born ==
  \A i \in Intents : sig[i] = None =>
    status[i] = "absent" /\ key[i] = None /\ db[i] = NoRow /\ acceptedAt[i] = Never

CallsBorn ==
  \A c \in Calls :
    /\ call[c].intent # None => sig[call[c].intent] # None
    /\ call[c].pc \in {"lookup", "found"} => call[c].key \in Keys /\ call[c].sig \in Sigs

Down ==
  ~up => /\ \A i \in Intents : status[i] = "absent" /\ key[i] = None
         /\ \A c \in Calls : call[c].pc = "idle"
         /\ faults.crashes > 0

CallsKnown ==
  \A c \in Calls :
    /\ call[c].pc \in {"save", "execute", "return", "persist"} =>
         status[call[c].intent] # "absent"
    /\ call[c].pc = "persist" =>
         /\ call[c].status # "absent"
         /\ call[c].status = "submitted" => status[call[c].intent] = "submitted"
    /\ call[c].pc = "found" /\ call[c].intent # None => db[call[c].intent].status # "absent"

RowShape == \A i \in Intents : db[i].status = "absent" => db[i] = NoRow

RowsKnown ==
  up /\ faults.reads = 0 =>
    \A i \in Intents : db[i].status # "absent" => status[i] # "absent"

RowKeys == \A i, j \in Intents : db[i].key # None /\ db[i].key = db[j].key => i = j

Known ==
  /\ Born /\ CallsBorn /\ Down /\ CallsKnown /\ RowShape /\ RowsKnown /\ RowKeys
  /\ MemoryKnowsSubmissions

LEMMA InitKnown == Init => Known
  BY NoneIsNoIntent DEF Init, Known, Born, CallsBorn, Down, CallsKnown, RowShape, RowsKnown, RowKeys,
    MemoryKnowsSubmissions, Idle, NoRow

(***************************************************************************)
(* The steps of a call, by their kind.                                     *)
(***************************************************************************)
Births(c) ==
  \E i \in Intents, s \in Sigs, k \in Keys \cup {None} :
    /\ Birth(c, i, s, k)
    /\ k # None => call[c].pc = "found" /\ k = call[c].key

Refuses(c) ==
  \E i \in Intents, v \in {"duplicate_blocked", "risk_rejected"} :
    Submittable(c, i) /\ Refuse(c, i, v)

(* These change neither the memory nor the table. *)
Passes(c) ==
  \/ \E s \in Sigs, k \in Keys : CreateWithKey(c, s, k)
  \/ LookupReads(c)
  \/ \E i \in Intents : SubmitAllowed(c, i)
  \/ BasketPlaced(c) \/ BasketRaises(c) \/ WriteFails(c)

LEMMA Kinds ==
  ASSUME CallsBorn, Down, NEW c \in Calls, CallStep(c)
  PROVE  /\ up /\ up'
         /\ \/ Births(c) \/ Refuses(c) \/ Passes(c)
            \/ CreateReplays(c) \/ SaveCommits(c) \/ SubmitReturns(c) \/ UpdateCommits(c)
<1>1. ASSUME NEW i \in Intents, CreateAfterLookup(c, i) PROVE Births(c)
  <2>1. call[c].sig \in Sigs /\ call[c].key \in Keys
    BY <1>1 DEF CreateAfterLookup, CallsBorn
  <2> QED
    BY <1>1, <2>1 DEF CreateAfterLookup, Births
<1>2. up
  BY DEF CallStep, CreateWithoutKey, CreateWithKey, LookupReads, CreateReplays,
    CreateAfterLookup, SaveCommits, SubmitDuplicate, SubmitRejected, SubmitAllowed,
    Submittable, BasketPlaced, BasketRaises, SubmitReturns, UpdateCommits, WriteFails, Down
<1>3. up' = up
  BY DEF CallStep, CreateWithoutKey, CreateWithKey, LookupReads, CreateReplays,
    CreateAfterLookup, Birth, SaveCommits, SubmitDuplicate, SubmitRejected, SubmitAllowed,
    Refuse, BasketPlaced, BasketRaises, SubmitReturns, UpdateCommits, WriteFails
<1> QED
  BY <1>1, <1>2, <1>3
  DEF CallStep, CreateWithoutKey, SubmitDuplicate, SubmitRejected, Births, Refuses, Passes

LEMMA PassesKeep ==
  ASSUME NEW c \in Calls, Passes(c)
  PROVE  UNCHANGED <<status, key, recent, db, up, clock, sig, acceptedAt>>
  BY DEF Passes, CreateWithKey, LookupReads, SubmitAllowed, BasketPlaced, BasketRaises,
    WriteFails, memory, history

(* Whatever is not the end of the process keeps intents in memory, and     *)
(* a submitted intent submitted.                                           *)
LEMMA MemoryStays ==
  ASSUME IInv, Known, NEW c \in Calls, CallStep(c), NEW i \in Intents
  PROVE  /\ status[i] # "absent" => status'[i] # "absent"
         /\ status[i] = "submitted" => status'[i] = "submitted"
         /\ sig[i] # None => sig'[i] = sig[i]
<1> USE DEF IInv
<1>1. CASE Births(c)
  BY <1>1, Tables DEF Births, Birth, Known, Born
<1>2. CASE Refuses(c)
  BY <1>2, Tables DEF Refuses, Refuse, Submittable, InMemory, history
<1>3. CASE Passes(c)
  BY <1>3, PassesKeep
<1>4. CASE CreateReplays(c)
  BY <1>4, Tables DEF CreateReplays, InMemory, history
<1>5. CASE SaveCommits(c) \/ UpdateCommits(c)
  BY <1>5 DEF SaveCommits, UpdateCommits, memory, history
<1>6. CASE SubmitReturns(c)
  BY <1>6, Tables DEF SubmitReturns
<1> QED
  BY <1>1, <1>2, <1>3, <1>4, <1>5, <1>6, Kinds DEF Known

(* Rows come into being with the status created, and change by updates. *)
LEMMA RowsMove ==
  ASSUME IInv, Known, NEW c \in Calls, CallStep(c), NEW i \in Intents
  PROVE  \/ db'[i] = db[i]
         \/ call[c].pc = "save" /\ i = call[c].intent /\ db'[i].status = "created"
            /\ SaveCommits(c)
         \/ call[c].pc = "persist" /\ i = call[c].intent /\ db'[i].status = call[c].status
            /\ db[i] # NoRow /\ UpdateCommits(c)
<1> USE DEF IInv
<1>1. CASE SaveCommits(c)
  BY <1>1, SaveEffect DEF SaveCommits
<1>2. CASE UpdateCommits(c)
  BY <1>2, UpdateEffect DEF UpdateCommits
<1>3. CASE Births(c) \/ Refuses(c) \/ Passes(c) \/ CreateReplays(c) \/ SubmitReturns(c)
  BY <1>3, PassesKeep DEF Births, Birth, Refuses, Refuse, CreateReplays, SubmitReturns
<1> QED
  BY <1>1, <1>2, <1>3, Kinds DEF Known

(* What a call that takes a step is at afterwards. *)
LEMMA CallMoves ==
  ASSUME IInv, Known, NEW c \in Calls, CallStep(c)
  PROVE  \/ call'[c].pc = "idle" /\ call'[c].intent = None
         \/ /\ call'[c].pc = "save" /\ Births(c)
            /\ call'[c].intent \in Intents /\ status'[call'[c].intent] # "absent"
            /\ sig'[call'[c].intent] # None
         \/ /\ call'[c].pc = "lookup" /\ call'[c].key \in Keys /\ call'[c].sig \in Sigs
            /\ call'[c].intent = None
         \/ /\ call'[c].pc = "found" /\ call'[c].key = call[c].key
            /\ call'[c].sig = call[c].sig /\ call[c].pc = "lookup"
            /\ call'[c].intent # None => call'[c].intent \in Intents
                                         /\ db[call'[c].intent].key = call[c].key
         \/ /\ call'[c].pc = "persist" /\ Refuses(c)
            /\ call'[c].intent \in Intents /\ status[call'[c].intent] # "absent"
            /\ status[call'[c].intent] # "submitted"
            /\ call'[c].status \in {"duplicate_blocked", "risk_rejected"}
         \/ /\ call'[c].pc = "execute" /\ SubmitAllowed(c, call'[c].intent)
            /\ call'[c].intent \in Intents /\ status[call'[c].intent] # "absent"
         \/ /\ call'[c].pc = "return" /\ call[c].pc = "execute"
            /\ call'[c].intent = call[c].intent
         \/ /\ call'[c].pc = "persist" /\ call[c].pc = "return"
            /\ call'[c].intent = call[c].intent /\ call'[c].status = "submitted"
            /\ status'[call[c].intent] = "submitted"
<1> USE DEF IInv
<1>1. CASE Births(c)
  <2>1. PICK i \in Intents, s \in Sigs, k \in Keys \cup {None} : Birth(c, i, s, k)
    BY <1>1 DEF Births
  <2>2. status'[i] = "created" /\ sig'[i] = s
    BY <2>1, Tables DEF Birth
  <2> QED
    BY <1>1, <2>1, <2>2, BirthEffect, NoneIsNoIntent
<1>2. CASE Refuses(c)
  <2>1. PICK i \in Intents, v \in {"duplicate_blocked", "risk_rejected"} :
          Submittable(c, i) /\ Refuse(c, i, v)
    BY <1>2 DEF Refuses
  <2> QED
    BY <1>2, <2>1, RefuseEffect DEF Submittable, InMemory
<1>3. CASE Passes(c)
  <2>1. ASSUME NEW s \in Sigs, NEW k \in Keys, CreateWithKey(c, s, k)
        PROVE  call'[c].pc = "lookup" /\ call'[c].key \in Keys /\ call'[c].sig \in Sigs
               /\ call'[c].intent = None
    BY <2>1, LookupEffect
  <2>2. ASSUME LookupReads(c)
        PROVE  /\ call'[c].pc = "found" /\ call'[c].key = call[c].key
               /\ call'[c].sig = call[c].sig /\ call[c].pc = "lookup"
               /\ call'[c].intent # None => call'[c].intent \in Intents
                                            /\ db[call'[c].intent].key = call[c].key
    BY <2>2, FoundEffect DEF LookupReads
  <2>3. ASSUME NEW i \in Intents, SubmitAllowed(c, i)
        PROVE  /\ call'[c].pc = "execute" /\ SubmitAllowed(c, call'[c].intent)
               /\ call'[c].intent \in Intents /\ status[call'[c].intent] # "absent"
    BY <2>3, AllowedEffect DEF SubmitAllowed, Submittable, InMemory
  <2>4. ASSUME BasketPlaced(c)
        PROVE  /\ call'[c].pc = "return" /\ call[c].pc = "execute"
               /\ call'[c].intent = call[c].intent
    BY <2>4, PlacedEffect DEF BasketPlaced
  <2>5. ASSUME BasketRaises(c) \/ WriteFails(c)
        PROVE  call'[c].pc = "idle" /\ call'[c].intent = None
    BY <2>5, IdleEffect DEF BasketRaises, WriteFails
  <2> QED
    BY <1>3, <2>1, <2>2, <2>3, <2>4, <2>5 DEF Passes
<1>4. CASE CreateReplays(c) \/ SaveCommits(c) \/ UpdateCommits(c)
  BY <1>4, IdleEffect DEF CreateReplays, SaveCommits, UpdateCommits
<1>5. CASE SubmitReturns(c)
  <2>1. call[c].intent \in Intents
    BY <1>5, HoldsNow DEF SubmitReturns, Holds
  <2>2. status'[call[c].intent] = "submitted"
    BY <1>5, <2>1, Tables DEF SubmitReturns
  <2> QED
    BY <1>5, <2>2, ReturnEffect DEF SubmitReturns
<1> QED
  BY <1>1, <1>2, <1>3, <1>4, <1>5, Kinds DEF Known

(* A call names an intent, or none. *)
LEMMA CallIntents ==
  ASSUME IInv, NEW c \in Calls
  PROVE  /\ call[c].intent \in Intents \cup {None}
         /\ call[c].pc \in {"save", "execute", "return", "persist"} => call[c].intent \in Intents
  BY CallFields, HoldsNow DEF IInv, Holds

-----------------------------------------------------------------------------
LEMMA BornStep ==
  ASSUME IInv, Known, NEW c \in Calls, CallStep(c) PROVE Born'
<1> USE DEF IInv
<1> SUFFICES ASSUME NEW i \in Intents, sig'[i] = None
             PROVE  /\ status'[i] = "absent" /\ key'[i] = None
                    /\ db'[i] = NoRow /\ acceptedAt'[i] = Never
  BY DEF Born
<1>0. sig[i] = None
  BY MemoryStays
<1>1. /\ status[i] = "absent" /\ key[i] = None
      /\ db[i] = NoRow /\ acceptedAt[i] = Never
  BY <1>0 DEF Known, Born
<1>2. call[c].intent # i
  BY <1>0, NoneIsNoIntent DEF Known, CallsBorn
<1>3. db'[i] = NoRow
  BY <1>1, <1>2, RowsMove
<1>4. CASE Births(c)
  BY <1>1, <1>3, <1>4, NoneIsNoIntent, Tables DEF Births, Birth
<1>5. CASE Refuses(c)
  BY <1>1, <1>3, <1>5, Tables DEF Refuses, Refuse, Submittable, InMemory, history
<1>6. CASE Passes(c)
  BY <1>1, <1>3, <1>6, PassesKeep
<1>7. CASE CreateReplays(c)
  BY <1>1, <1>2, <1>3, <1>7, Tables DEF CreateReplays, history
<1>8. CASE SaveCommits(c) \/ UpdateCommits(c)
  BY <1>1, <1>3, <1>8 DEF SaveCommits, UpdateCommits, memory, history
<1>9. CASE SubmitReturns(c)
  BY <1>1, <1>2, <1>3, <1>9, Tables DEF SubmitReturns
<1> QED
  BY <1>4, <1>5, <1>6, <1>7, <1>8, <1>9, Kinds DEF Known

LEMMA CallsBornStep ==
  ASSUME IInv, Known, NEW c \in Calls, CallStep(c) PROVE CallsBorn'
<1> SUFFICES ASSUME NEW d \in Calls
             PROVE  /\ call'[d].intent # None => sig'[call'[d].intent] # None
                    /\ call'[d].pc \in {"lookup", "found"} =>
                         call'[d].key \in Keys /\ call'[d].sig \in Sigs
  BY DEF CallsBorn
<1>0. \A i \in Intents : sig[i] # None => sig'[i] # None
  BY MemoryStays
<1>1. \A e \in Calls : call[e].intent # None =>
         call[e].intent \in Intents /\ sig'[call[e].intent] # None
  BY <1>0, CallIntents DEF Known, CallsBorn
<1>2. CASE d # c
  BY <1>1, <1>2, OthersWait DEF Known, CallsBorn, IInv
<1>3. CASE d = c
  <2>1. \A i \in Intents : status[i] # "absent" => sig'[i] # None
    BY <1>0 DEF Known, Born
  <2>2. \A i \in Intents : db[i].key \in Keys => sig'[i] # None
    BY <1>0, NoneIsNoIntent DEF Known, Born, NoRow
  <2>3. call[c].pc = "lookup" => call[c].key \in Keys /\ call[c].sig \in Sigs
    BY DEF Known, CallsBorn
  <2>4. call[c].pc \in {"execute", "return"} => call[c].intent # None
    BY CallIntents, NoneIsNoIntent
  <2> QED
    BY <1>1, <1>3, <2>1, <2>2, <2>3, <2>4, CallMoves
<1> QED
  BY <1>2, <1>3

LEMMA CallsKnownStep ==
  ASSUME IInv, Known, NEW c \in Calls, CallStep(c) PROVE CallsKnown'
<1> SUFFICES ASSUME NEW d \in Calls
             PROVE  /\ call'[d].pc \in {"save", "execute", "return", "persist"} =>
                         status'[call'[d].intent] # "absent"
                    /\ call'[d].pc = "persist" =>
                         /\ call'[d].status # "absent"
                         /\ call'[d].status = "submitted" => status'[call'[d].intent] = "submitted"
                    /\ call'[d].pc = "found" /\ call'[d].intent # None =>
                         db'[call'[d].intent].status # "absent"
  BY DEF CallsKnown
<1>0. \A i \in Intents : /\ status[i] # "absent" => status'[i] # "absent"
                         /\ status[i] = "submitted" => status'[i] = "submitted"
                         /\ db[i].status # "absent" => db'[i].status # "absent"
  BY MemoryStays, RowsMove DEF Known, CallsKnown
<1>1. CASE d # c
  BY <1>0, <1>1, OthersWait, CallIntents DEF Known, CallsKnown, IInv
<1>2. CASE d = c
  <2>1. ASSUME NEW i \in Intents, db[i].key = call[c].key, call[c].pc = "lookup"
        PROVE  db'[i].status # "absent"
    BY <1>0, <2>1, NoneIsNoIntent DEF Known, CallsBorn, RowShape, NoRow
  <2> QED
    BY <1>0, <1>2, <2>1, CallMoves, CallIntents DEF Known, CallsKnown
<1> QED
  BY <1>1, <1>2

LEMMA RowShapeStep ==
  ASSUME IInv, Known, NEW c \in Calls, CallStep(c) PROVE RowShape'
  BY RowsMove DEF RowShape, Known, CallsKnown

LEMMA RowsKnownStep ==
  ASSUME IInv, Known, NEW c \in Calls, CallStep(c) PROVE RowsKnown'
<1> SUFFICES ASSUME up', faults'.reads = 0, NEW i \in Intents, db'[i].status # "absent"
             PROVE  status'[i] # "absent"
  BY DEF RowsKnown
<1>1. up /\ faults.reads = 0
  BY Kinds, FaultsGrow DEF Known, IInv, Next
<1>2. status[i] # "absent"
  BY <1>1, RowsMove DEF Known, RowsKnown, CallsKnown
<1> QED
  BY <1>2, MemoryStays

LEMMA RowKeysStep ==
  ASSUME IInv, Known, NEW c \in Calls, CallStep(c) PROVE RowKeys'
<1>1. CASE SaveCommits(c)
  BY <1>1, SaveEffect DEF RowKeys, Known
<1>2. CASE UpdateCommits(c)
  BY <1>2, UpdateEffect DEF RowKeys, Known
<1>3. CASE Births(c) \/ Refuses(c) \/ Passes(c) \/ CreateReplays(c) \/ SubmitReturns(c)
  <2>1. db' = db
    BY <1>3, PassesKeep DEF Births, Birth, Refuses, Refuse, CreateReplays, SubmitReturns
  <2> QED
    BY <2>1 DEF RowKeys, Known
<1> QED
  BY <1>1, <1>2, <1>3, Kinds DEF Known

LEMMA SubmissionsKnownStep ==
  ASSUME IInv, Known, NEW c \in Calls, CallStep(c) PROVE MemoryKnowsSubmissions'
<1> SUFFICES ASSUME up', faults'.reads = 0, NEW i \in Intents, db'[i].status = "submitted"
             PROVE  status'[i] = "submitted"
  BY DEF MemoryKnowsSubmissions
<1>1. up /\ faults.reads = 0
  BY Kinds, FaultsGrow DEF Known, IInv, Next
<1>2. status[i] = "submitted"
  BY <1>1, RowsMove DEF Known, MemoryKnowsSubmissions, CallsKnown
<1> QED
  BY <1>2, MemoryStays

LEMMA KnownStep == IInv /\ Known /\ [Next]_vars => Known'
<1> SUFFICES ASSUME IInv, Known, [Next]_vars PROVE Known'
  OBVIOUS
<1> USE DEF IInv
<1>1. ASSUME NEW c \in Calls, CallStep(c) PROVE Known'
  <2>1. Down'
    BY <1>1, Kinds DEF Down, Known
  <2> QED
    BY <1>1, <2>1, BornStep, CallsBornStep, CallsKnownStep, RowShapeStep, RowsKnownStep,
       RowKeysStep, SubmissionsKnownStep DEF Known
<1>2. CASE Crash
  <2>1. /\ db' = db /\ sig' = sig /\ acceptedAt' = acceptedAt /\ ~up'
        /\ \A i \in Intents : status'[i] = "absent" /\ key'[i] = None
        /\ \A c \in Calls : call'[c] = Idle
    BY <1>2 DEF Crash, history
  <2>2. faults'.crashes > 0
    BY <1>2, FaultsGrow DEF Crash, TypeOK, FaultType
  <2>3. Born' /\ RowShape' /\ RowKeys'
    BY <2>1 DEF Known, Born, RowShape, RowKeys
  <2>4. CallsBorn' /\ CallsKnown' /\ Down' /\ RowsKnown' /\ MemoryKnowsSubmissions'
    BY <2>1, <2>2 DEF CallsBorn, CallsKnown, Down, RowsKnown, MemoryKnowsSubmissions, Idle
  <2> QED
    BY <2>3, <2>4 DEF Known
<1>3. CASE Restore
  <2>1. /\ db' = db /\ sig' = sig /\ acceptedAt' = acceptedAt /\ up' /\ call' = call
        /\ \A i \in Intents : status'[i] = db[i].status /\ key'[i] = db[i].key
        /\ \A c \in Calls : call[c].pc = "idle"
    BY <1>3 DEF Restore, history, Known, Down
  <2>2. Born' /\ RowShape' /\ RowKeys'
    BY <2>1 DEF Known, Born, RowShape, RowKeys, NoRow
  <2>3. CallsBorn' /\ CallsKnown' /\ Down' /\ RowsKnown' /\ MemoryKnowsSubmissions'
    BY <2>1 DEF Known, CallsBorn, CallsKnown, Down, RowsKnown, MemoryKnowsSubmissions
  <2> QED
    BY <2>2, <2>3 DEF Known
<1>4. CASE RestoreFails
  <2>1. /\ UNCHANGED <<status, key, call, db, sig, acceptedAt>> /\ up'
    BY <1>4 DEF RestoreFails, memory, history
  <2>2. faults'.reads # 0
    BY <1>4, FaultsGrow DEF RestoreFails, TypeOK, FaultType
  <2> QED
    BY <2>1, <2>2 DEF Known, Born, CallsBorn, Down, CallsKnown, RowShape, RowsKnown, RowKeys,
      MemoryKnowsSubmissions
<1>5. CASE Tick \/ UNCHANGED vars
  <2>1. UNCHANGED <<status, key, call, db, sig, acceptedAt, up, faults>>
    BY <1>5 DEF Tick, vars, memory, history
  <2> QED
    BY <2>1 DEF Known, Born, CallsBorn, Down, CallsKnown, RowShape, RowsKnown, RowKeys,
      MemoryKnowsSubmissions
<1> QED
  BY <1>1, <1>2, <1>3, <1>4, <1>5 DEF Next

LEMMA KnownInvariance == Spec => [](IInv /\ Known)
<1>1. IInv /\ Known /\ [Next]_vars => Known'
  BY KnownStep
<1> QED
  BY InitKnown, <1>1, Invariance, PTL DEF Spec

-----------------------------------------------------------------------------
(* The table never knows of a submission that a running process, whose     *)
(* memory was read in full, does not.                                      *)
THEOREM MemoryIsAhead == Spec => []MemoryKnowsSubmissions
  BY KnownInvariance, PTL DEF Known

(* While the process runs a submitted intent stays submitted.              *)
THEOREM SubmittedStays == Spec => SubmittedIsSticky
<1>1. ASSUME IInv, Known, [Next]_vars, up', NEW i \in Intents, status[i] = "submitted"
      PROVE  status'[i] = "submitted"
  <2>1. ASSUME NEW c \in Calls, CallStep(c) PROVE status'[i] = "submitted"
    BY <1>1, <2>1, MemoryStays
  <2>2. up
    BY <1>1 DEF Known, Down
  <2>3. CASE Tick \/ UNCHANGED vars
    BY <1>1, <2>3 DEF Tick, vars, memory
  <2> QED
    BY <1>1, <2>1, <2>2, <2>3 DEF Next, Crash, Restore, RestoreFails
<1>2. IInv /\ Known /\ [Next]_vars =>
        [up' => \A i \in Intents : status[i] = "submitted" => status'[i] = "submitted"]_vars
  BY <1>1
<1> QED
  BY <1>2, KnownInvariance, PTL DEF Spec, SubmittedIsSticky

-----------------------------------------------------------------------------
(***************************************************************************)
(* The limit of open intents.  Every call that is between its check and    *)
(* its return may add a submission to those there are, so both are counted.*)
(***************************************************************************)
Submitted  == {i \in Intents : status[i] = "submitted"}
StoredOnes == {i \in Intents : db[i].status = "submitted"}
Submitting == {c \in Calls : call[c].pc \in {"execute", "return"}}

CountInv ==
  faults.reads = 0 =>
    /\ Cardinality(Submitted) + Cardinality(Submitting) <= MaxOpen + Cardinality(Calls)
    /\ Cardinality(StoredOnes) <= MaxOpen + Cardinality(Calls)

LEMMA Sizes ==
  ASSUME IsFiniteSet(Calls)
  PROVE  /\ Cardinality(Submitted) \in Nat /\ Cardinality(Submitting) \in Nat
         /\ Cardinality(StoredOnes) \in Nat /\ Cardinality(Calls) \in Nat
         /\ Cardinality(Submitting) <= Cardinality(Calls)
         /\ IsFiniteSet(Submitted) /\ IsFiniteSet(Submitting) /\ IsFiniteSet(StoredOnes)
<1>1. Submitted \subseteq Intents /\ StoredOnes \subseteq Intents /\ Submitting \subseteq Calls
  BY DEF Submitted, StoredOnes, Submitting
<1>2. IsFiniteSet(Submitted) /\ IsFiniteSet(Submitting) /\ IsFiniteSet(StoredOnes)
  BY <1>1, FS_Subset, IntentsAssumption
<1>3. Cardinality(Submitting) <= Cardinality(Calls)
  BY <1>1, FS_Subset
<1> QED
  BY <1>2, <1>3, FS_CardinalityType

LEMMA Grows ==  \* a set that grows by at most one element
  ASSUME NEW S, NEW T, NEW x, IsFiniteSet(S), IsFiniteSet(T), T \subseteq S \cup {x}
  PROVE  Cardinality(T) <= Cardinality(S) + 1 /\ Cardinality(S) \in Nat /\ Cardinality(T) \in Nat
<1>1. IsFiniteSet(S \cup {x}) /\ Cardinality(S \cup {x}) <= Cardinality(S) + 1
  <2>1. Cardinality(S) \in Nat
    BY FS_CardinalityType
  <2>2. /\ IsFiniteSet(S \cup {x})
        /\ Cardinality(S \cup {x}) = IF x \in S THEN Cardinality(S) ELSE Cardinality(S) + 1
    BY FS_AddElement
  <2> QED
    BY <2>1, <2>2
<1>2. Cardinality(T) <= Cardinality(S \cup {x})
  BY <1>1, FS_Subset
<1> QED
  BY <1>1, <1>2, FS_CardinalityType

LEMMA CountInit == ASSUME IsFiniteSet(Calls), Init PROVE CountInv
<1>1. Submitted = {} /\ StoredOnes = {} /\ Submitting = {}
  BY DEF Init, Submitted, StoredOnes, Submitting, Idle, NoRow
<1>2. Cardinality({}) = 0
  BY FS_EmptySet
<1> QED
  BY <1>1, <1>2, Sizes, BoundsAssumption DEF CountInv

LEMMA CountStep ==
  ASSUME IsFiniteSet(Calls), IInv, Known, CountInv, [Next]_vars
  PROVE  CountInv'
<1> DEFINE Max == MaxOpen + Cardinality(Calls)
<1>0. /\ Cardinality(Submitted) \in Nat /\ Cardinality(Submitting) \in Nat
      /\ Cardinality(StoredOnes) \in Nat /\ Cardinality(Calls) \in Nat
      /\ IsFiniteSet(Submitted) /\ IsFiniteSet(Submitting) /\ IsFiniteSet(StoredOnes)
  BY Sizes
<1>00. /\ Cardinality(Submitted') \in Nat /\ Cardinality(Submitting') \in Nat
       /\ Cardinality(StoredOnes') \in Nat
       /\ IsFiniteSet(Submitted') /\ IsFiniteSet(Submitting') /\ IsFiniteSet(StoredOnes')
       /\ Cardinality(Submitting') <= Cardinality(Calls)
  <2>1. Submitted' \subseteq Intents /\ StoredOnes' \subseteq Intents /\ Submitting' \subseteq Calls
    BY DEF Submitted, StoredOnes, Submitting
  <2>2. IsFiniteSet(Submitted') /\ IsFiniteSet(Submitting') /\ IsFiniteSet(StoredOnes')
    BY <2>1, FS_Subset, IntentsAssumption
  <2> QED
    BY <2>1, <2>2, FS_CardinalityType, FS_Subset
<1> SUFFICES ASSUME faults'.reads = 0
             PROVE  /\ Cardinality(Submitted') + Cardinality(Submitting') <= Max
                    /\ Cardinality(StoredOnes') <= Max
  BY DEF CountInv
<1>1. faults.reads = 0
  BY FaultsGrow DEF IInv
<1>2. /\ Cardinality(Submitted) + Cardinality(Submitting) <= Max
      /\ Cardinality(StoredOnes) <= Max
  BY <1>1 DEF CountInv
<1>3. ASSUME Submitted' \subseteq Submitted, Submitting' \subseteq Submitting
      PROVE  Cardinality(Submitted') + Cardinality(Submitting') <= Max
  <2>1. /\ Cardinality(Submitted') <= Cardinality(Submitted)
        /\ Cardinality(Submitting') <= Cardinality(Submitting)
    BY <1>0, <1>3, FS_Subset
  <2> HIDE DEF Max
  <2> QED
    BY <1>0, <1>00, <1>2, <2>1, BoundsAssumption DEF Max
<1>4. ASSUME up' PROVE Cardinality(StoredOnes') <= Cardinality(Submitted')
  <2>1. MemoryKnowsSubmissions'
    BY KnownStep DEF Known
  <2>2. StoredOnes' \subseteq Submitted'
    BY <1>4, <2>1 DEF MemoryKnowsSubmissions, StoredOnes, Submitted
  <2> QED
    BY <1>00, <2>2, FS_Subset
<1>5. ASSUME up', Cardinality(Submitted') + Cardinality(Submitting') <= Max
      PROVE  Cardinality(StoredOnes') <= Max
  BY <1>0, <1>00, <1>4, <1>5, BoundsAssumption
<1>6. ASSUME NEW c \in Calls, CallStep(c)
      PROVE  Cardinality(Submitted') + Cardinality(Submitting') <= Max /\ up'
  <2>0. up' /\ up
    BY <1>6, Kinds DEF Known
  <2>1. \A d \in Calls : d # c => call'[d] = call[d]
    BY <1>6, OthersWait DEF IInv
  <2>2. ASSUME NEW i \in Intents, SubmitAllowed(c, i)
        PROVE  Cardinality(Submitted') + Cardinality(Submitting') <= Max
    <3>1. Submitted' = Submitted
      BY <2>2 DEF SubmitAllowed, memory, Submitted
    <3>2. OpenIntents \subseteq Intents /\ Submitted \subseteq OpenIntents
      BY DEF OpenIntents, Submitted
    <3>3. IsFiniteSet(OpenIntents)
      BY <3>2, FS_Subset, IntentsAssumption
    <3>4. Cardinality(Submitted) <= Cardinality(OpenIntents) /\ Cardinality(OpenIntents) \in Nat
      BY <3>2, <3>3, FS_Subset, FS_CardinalityType
    <3>5. Cardinality(OpenIntents) <= MaxOpen
      BY <2>2 DEF SubmitAllowed, WithinLimit
    <3> QED
      BY <1>0, <1>00, <3>1, <3>4, <3>5, BoundsAssumption
  <2>3. CASE SubmitReturns(c)
    <3>1. c \in Submitting
      BY <2>3 DEF SubmitReturns, Submitting
    <3>2. call[c].intent \in Intents /\ call'[c].pc = "persist"
      BY <2>3, CallIntents, ReturnEffect DEF SubmitReturns, IInv
    <3>3. Submitted' \subseteq Submitted \cup {call[c].intent}
      BY <2>3, Tables DEF SubmitReturns, Submitted, IInv
    <3>4. Submitting' \subseteq Submitting \ {c}
      BY <2>1, <3>2 DEF Submitting
    <3>5. Cardinality(Submitted') <= Cardinality(Submitted) + 1
      BY <1>0, <1>00, <3>3, Grows
    <3>6. /\ IsFiniteSet(Submitting \ {c})
          /\ Cardinality(Submitting \ {c}) = Cardinality(Submitting) - 1
      BY <1>0, <3>1, FS_RemoveElement
    <3>7. Cardinality(Submitting') <= Cardinality(Submitting) - 1
      BY <3>4, <3>6, FS_Subset
    <3> QED
      BY <1>0, <1>00, <1>2, <2>0, <3>5, <3>7, BoundsAssumption
  <2>4. CASE ~SubmitReturns(c) /\ ~\E i \in Intents : SubmitAllowed(c, i)
    <3>1. ASSUME NEW i \in Intents, status'[i] = "submitted" PROVE status[i] = "submitted"
      <4>1. CASE Births(c)
        BY <3>1, <4>1, Tables DEF Births, Birth, IInv
      <4>2. CASE Refuses(c)
        BY <3>1, <4>2, Tables DEF Refuses, Refuse, IInv
      <4>3. CASE Passes(c)
        BY <3>1, <4>3, PassesKeep
      <4>4. CASE CreateReplays(c)
        <5>1. call[c].intent \in Intents /\ call[c].key \in Keys
          BY <4>4, CallIntents DEF CreateReplays, Known, CallsBorn
        <5>2. db[call[c].intent].status # "absent"
          BY <4>4 DEF CreateReplays, Known, CallsKnown
        <5> QED
          BY <1>1, <2>0, <3>1, <4>4, <5>2, Tables DEF CreateReplays, InMemory, Known, RowsKnown, IInv
      <4>5. CASE SaveCommits(c) \/ UpdateCommits(c)
        BY <3>1, <4>5 DEF SaveCommits, UpdateCommits, memory
      <4> QED
        BY <1>6, <2>4, <4>1, <4>2, <4>3, <4>4, <4>5, Kinds DEF Known
    <3>2. Submitted' \subseteq Submitted
      BY <3>1 DEF Submitted
    <3>3. call'[c].pc \in {"execute", "return"} => call[c].pc \in {"execute", "return"}
      <4>1. \A i \in Intents : ~SubmitAllowed(c, i)
        BY <2>4
      <4> QED
        BY <1>6, <2>4, <4>1, CallMoves
    <3>4. Submitting' \subseteq Submitting
      BY <2>1, <3>3 DEF Submitting
    <3> QED
      BY <1>3, <2>0, <3>2, <3>4
  <2> QED
    BY <2>0, <2>2, <2>3, <2>4
<1>7. CASE Crash
  <2>1. Submitted' = {} /\ Submitting' = {} /\ StoredOnes' = StoredOnes
    BY <1>7 DEF Crash, Submitted, Submitting, StoredOnes, Idle
  <2> QED
    BY <1>2, <1>3, <2>1
<1>8. CASE Restore
  <2>1. Submitted' = StoredOnes /\ Submitting' = {} /\ StoredOnes' = StoredOnes
    BY <1>8 DEF Restore, Submitted, Submitting, StoredOnes, Known, Down
  <2>2. Cardinality(Submitting') = 0
    BY <2>1, FS_EmptySet
  <2> QED
    BY <1>0, <1>2, <2>1, <2>2
<1>9. CASE RestoreFails
  BY <1>9, FaultsGrow DEF RestoreFails, TypeOK, FaultType, IInv
<1>10. CASE Tick \/ UNCHANGED vars
  <2>1. Submitted' = Submitted /\ Submitting' = Submitting /\ StoredOnes' = StoredOnes
    BY <1>10 DEF Tick, vars, memory, Submitted, Submitting, StoredOnes
  <2> QED
    BY <1>2, <2>1
<1> HIDE DEF Max
<1> QED
  BY <1>5, <1>6, <1>7, <1>8, <1>9, <1>10 DEF Next

(* With finitely many calls: however they overlap, crash or come back from *)
(* the table, the submitted intents exceed the limit by at most their      *)
(* number.                                                                 *)
THEOREM OpenIsBounded ==
  ASSUME IsFiniteSet(Calls)
  PROVE  Spec => []OpenBound
<1>1. IInv /\ Known /\ CountInv /\ [Next]_vars => CountInv'
  BY CountStep
<1>2. CountInv => OpenBound
  BY Sizes, BoundsAssumption DEF CountInv, OpenBound, Submitted
<1> QED
  BY CountInit, <1>1, <1>2, KnownInvariance, PTL DEF Spec

-----------------------------------------------------------------------------
(***************************************************************************)
(* One call at a time.  The service does not guard calls against each      *)
(* other; what follows holds of calls that do not overlap, over any        *)
(* crashes, lost writes, failed reads and raising executors.               *)
(***************************************************************************)
OneCall == \A c, d \in Calls : c = d

(* No two intents in memory hold one idempotency key, and none holds the   *)
(* key a create is looking up.                                             *)
HeldKeys ==
  faults.reads = 0 =>
    /\ \A i \in Intents : status[i] = "absent" => key[i] = None
    /\ \A i, j \in Intents : key[i] \in Keys /\ key[i] = key[j] => i = j
    /\ \A c \in Calls : call[c].pc \in {"lookup", "found"} =>
         \A i \in Intents : key[i] # call[c].key

(* The row of a submitted intent, the memory and the call at work agree.   *)
FinalInv ==
  /\ \A i \in Intents : db[i].status = "submitted" => status[i] \in {"absent", "submitted"}
  /\ \A c \in Calls :
       /\ call[c].pc \in {"save", "execute", "return"} =>
            db[call[c].intent].status # "submitted"
       /\ call[c].pc = "persist" /\ db[call[c].intent].status = "submitted" =>
            call[c].status = "submitted"
       /\ call[c].pc = "found" /\ call[c].intent # None =>
            call[c].status = db[call[c].intent].status

LEMMA HeldKeysStep ==
  ASSUME OneCall, IInv, Known, HeldKeys, [Next]_vars PROVE HeldKeys'
<1> SUFFICES ASSUME faults'.reads = 0
             PROVE  /\ \A i \in Intents : status'[i] = "absent" => key'[i] = None
                    /\ \A i, j \in Intents : key'[i] \in Keys /\ key'[i] = key'[j] => i = j
                    /\ \A c \in Calls : call'[c].pc \in {"lookup", "found"} =>
                         \A i \in Intents : key'[i] # call'[c].key
  BY DEF HeldKeys
<1> USE DEF IInv
<1>1. faults.reads = 0
  BY FaultsGrow
<1>2. /\ \A i \in Intents : status[i] = "absent" => key[i] = None
      /\ \A i, j \in Intents : key[i] \in Keys /\ key[i] = key[j] => i = j
      /\ \A c \in Calls : call[c].pc \in {"lookup", "found"} =>
           \A i \in Intents : key[i] # call[c].key
  BY <1>1 DEF HeldKeys
<1>3. ASSUME NEW c \in Calls, CallStep(c)
      PROVE  HeldKeys'
  <2>0. \A d \in Calls : d = c
    BY DEF OneCall
  <2>1. \A i \in Intents : status[i] # "absent" => status'[i] # "absent"
    BY <1>3, MemoryStays
  <2>2. CASE Births(c)
    <3>1. PICK i \in Intents, s \in Sigs, k \in Keys \cup {None} :
            Birth(c, i, s, k) /\ (k # None => call[c].pc = "found" /\ k = call[c].key)
      BY <2>2 DEF Births
    <3>2. call'[c].pc = "save"
      BY <3>1, BirthEffect
    <3>3. /\ key' = [key EXCEPT ![i] = k] /\ status' = [status EXCEPT ![i] = "created"]
          /\ k \in Keys => \A j \in Intents : key[j] # k
      BY <1>2, <3>1, NoneIsNoIntent DEF Birth
    <3> QED
      BY <1>2, <2>0, <3>2, <3>3, Tables, NoneIsNoIntent DEF HeldKeys
  <2>3. CASE Passes(c)
    <3>1. UNCHANGED <<status, key>>
      BY <2>3, PassesKeep
    <3>2. call'[c].pc \in {"lookup", "found"} => \A i \in Intents : key[i] # call'[c].key
      <4>1. ASSUME NEW s \in Sigs, NEW k \in Keys, CreateWithKey(c, s, k)
            PROVE  \A i \in Intents : key[i] # call'[c].key
        <5>1. call'[c].key = k
          BY <4>1, LookupEffect
        <5>2. \A i \in Intents : status[i] # "absent" => key[i] # k
          BY <4>1 DEF CreateWithKey, KeyInMemory, InMemory
        <5> QED
          BY <1>2, <5>1, <5>2, NoneIsNoIntent
      <4>2. ASSUME LookupReads(c) PROVE \A i \in Intents : key[i] # call'[c].key
        BY <1>2, <4>2, FoundEffect DEF LookupReads
      <4>3. ASSUME NEW i \in Intents, SubmitAllowed(c, i) PROVE call'[c].pc = "execute"
        BY <4>3, AllowedEffect
      <4>4. ASSUME BasketPlaced(c) PROVE call'[c].pc = "return"
        BY <4>4, PlacedEffect
      <4>5. ASSUME BasketRaises(c) \/ WriteFails(c) PROVE call'[c].pc = "idle"
        BY <4>5, IdleEffect DEF BasketRaises, WriteFails
      <4> QED
        BY <2>3, <4>1, <4>2, <4>3, <4>4, <4>5 DEF Passes
    <3> QED
      BY <1>2, <2>0, <3>1, <3>2 DEF HeldKeys
  <2>4. CASE Refuses(c) \/ SaveCommits(c) \/ UpdateCommits(c)
    <3>1. key' = key
      BY <2>4 DEF Refuses, Refuse, SaveCommits, UpdateCommits, memory
    <3>2. call'[c].pc \in {"persist", "idle"}
      BY <2>4, RefuseEffect, IdleEffect DEF Refuses, SaveCommits, UpdateCommits
    <3> QED
      BY <1>2, <2>0, <2>1, <3>1, <3>2 DEF HeldKeys
  <2>5. CASE CreateReplays(c)
    <3>1. call'[c].pc = "idle"
      BY <2>5, IdleEffect DEF CreateReplays
    <3>2. call[c].intent \in Intents /\ key' = [key EXCEPT ![call[c].intent] = call[c].key]
      BY <2>5, CallIntents DEF CreateReplays
    <3>3. \A i \in Intents : key[i] # call[c].key
      BY <1>2, <2>5 DEF CreateReplays
    <3>4. status[call[c].intent] # "absent"
      BY <1>1, <2>5, <3>2, <1>3, Kinds DEF CreateReplays, Known, CallsKnown, RowsKnown
    <3> QED
      BY <1>2, <2>0, <2>1, <3>1, <3>2, <3>3, <3>4, Tables DEF HeldKeys
  <2>6. CASE SubmitReturns(c)
    <3>1. call'[c].pc = "persist" /\ call[c].intent \in Intents
      BY <2>6, ReturnEffect, CallIntents DEF SubmitReturns
    <3>2. sig[call[c].intent] \notin Keys
      BY <3>1, Tables, NoneIsNoIntent
    <3>3. /\ \A i \in Intents : i # call[c].intent => key'[i] = key[i]
          /\ key'[call[c].intent] \in {key[call[c].intent], sig[call[c].intent]}
          /\ status'[call[c].intent] = "submitted"
      BY <2>6, <3>1, Tables DEF SubmitReturns
    <3> QED
      BY <1>2, <2>0, <2>1, <3>1, <3>2, <3>3 DEF HeldKeys
  <2> QED
    BY <1>3, <2>2, <2>3, <2>4, <2>5, <2>6, Kinds DEF Known
<1>4. CASE Crash
  BY <1>4, NoneIsNoIntent DEF Crash, Idle
<1>5. CASE Restore
  <2>1. /\ \A c \in Calls : call'[c].pc = "idle"
        /\ \A i \in Intents : status'[i] = db[i].status /\ key'[i] = db[i].key
    BY <1>5 DEF Restore, Known, Down
  <2> QED
    BY <2>1, NoneIsNoIntent DEF Known, RowShape, RowKeys, NoRow
<1>6. CASE RestoreFails
  BY <1>6, FaultsGrow DEF RestoreFails, TypeOK, FaultType
<1>7. CASE Tick \/ UNCHANGED vars
  BY <1>2, <1>7 DEF Tick, vars, memory
<1> QED
  BY <1>3, <1>4, <1>5, <1>6, <1>7 DEF Next, HeldKeys

(* The table never holds an idempotency key twice, for its column is       *)
(* unique; and with one call at a time neither does the memory: an intent  *)
(* is born only with a key that neither the memory nor the table has.      *)
THEOREM KeysAreUnique ==
  ASSUME OneCall
  PROVE  Spec => []OneIntentPerKey
<1>1. Init => HeldKeys
  BY NoneIsNoIntent DEF Init, HeldKeys, Idle
<1>2. IInv /\ Known /\ HeldKeys /\ [Next]_vars => HeldKeys'
  BY HeldKeysStep
<1>3. Known /\ HeldKeys => OneIntentPerKey
  BY NoneIsNoIntent DEF Known, RowKeys, HeldKeys, OneIntentPerKey
<1> QED
  BY <1>1, <1>2, <1>3, KnownInvariance, PTL DEF Spec

-----------------------------------------------------------------------------
LEMMA FinalStep ==
  ASSUME OneCall, IInv, Known, FinalInv, [Next]_vars
  PROVE  FinalInv' /\ \A i \in Intents : db[i].status = "submitted" =>
                        placed'[i] = placed[i] /\ db'[i].status = "submitted"
<1> DEFINE Kept == \A i \in Intents : db[i].status = "submitted" =>
                     placed'[i] = placed[i] /\ db'[i].status = "submitted"
<1> USE DEF IInv
<1>1. ASSUME NEW c \in Calls, CallStep(c) PROVE FinalInv' /\ Kept
  <2> DEFINE n == call[c].intent
  <2>0. /\ \A d \in Calls : d = c
        /\ call[c].pc \in {"save", "execute", "return", "persist"} => n \in Intents
        /\ n \in Intents \cup {None} /\ None \notin Intents
    BY CallIntents, NoneIsNoIntent DEF OneCall
  <2>1. /\ \A i \in Intents : db[i].status = "submitted" => status[i] \in {"absent", "submitted"}
        /\ call[c].pc \in {"save", "execute", "return"} => db[n].status # "submitted"
        /\ call[c].pc = "persist" /\ db[n].status = "submitted" => call[c].status = "submitted"
        /\ call[c].pc = "found" /\ n # None => call[c].status = db[n].status
    BY DEF FinalInv
  <2>2. Kept
    <3>1. ASSUME NEW i \in Intents, db[i].status = "submitted" PROVE db'[i].status = "submitted"
      BY <1>1, <2>0, <2>1, <3>1, RowsMove
    <3>2. ASSUME NEW i \in Intents, db[i].status = "submitted" PROVE placed'[i] = placed[i]
      <4>1. CASE BasketPlaced(c) \/ BasketRaises(c)
        BY <2>0, <2>1, <3>2, <4>1, Tables DEF BasketPlaced, BasketRaises
      <4>2. CASE ~BasketPlaced(c) /\ ~BasketRaises(c)
        BY <1>1, <4>2 DEF CallStep, CreateWithoutKey, CreateWithKey, LookupReads, CreateReplays,
          CreateAfterLookup, Birth, SaveCommits, SubmitDuplicate, SubmitRejected, SubmitAllowed,
          Refuse, SubmitReturns, UpdateCommits, WriteFails, history
      <4> QED
        BY <4>1, <4>2
    <3> QED
      BY <3>1, <3>2
  <2>3. CASE Births(c)
    <3>1. PICK i \in Intents, s \in Sigs, k \in Keys \cup {None} : Birth(c, i, s, k)
      BY <2>3 DEF Births
    <3>2. db[i].status = "absent" /\ db' = db /\ status' = [status EXCEPT ![i] = "created"]
      BY <3>1 DEF Known, Born, NoRow, Birth
    <3>3. call'[c].pc = "save" /\ call'[c].intent = i
      BY <3>1, BirthEffect
    <3> QED
      BY <2>0, <2>1, <2>2, <3>2, <3>3, Tables DEF FinalInv
  <2>4. CASE Refuses(c)
    <3>1. PICK i \in Intents, v \in {"duplicate_blocked", "risk_rejected"} :
            Submittable(c, i) /\ Refuse(c, i, v)
      BY <2>4 DEF Refuses
    <3>2. /\ status[i] \notin {"absent", "submitted"}
          /\ db' = db /\ status' = [status EXCEPT ![i] = v]
      BY <3>1 DEF Submittable, InMemory, Refuse
    <3>3. call'[c].pc = "persist" /\ call'[c].intent = i
      BY <3>1, RefuseEffect
    <3> QED
      BY <2>0, <2>1, <2>2, <3>2, <3>3, Tables DEF FinalInv
  <2>5. CASE Passes(c)
    <3>1. UNCHANGED <<status, db>>
      BY <2>5, PassesKeep
    <3>2. /\ call'[c].pc \in {"execute", "return"} =>
               call'[c].intent \in Intents /\ db[call'[c].intent].status # "submitted"
          /\ call'[c].pc \notin {"save", "persist"}
          /\ call'[c].pc = "found" /\ call'[c].intent # None =>
               call'[c].status = db[call'[c].intent].status
      <4>1. ASSUME NEW s \in Sigs, NEW k \in Keys, CreateWithKey(c, s, k)
            PROVE  call'[c].pc = "lookup"
        BY <4>1, LookupEffect
      <4>2. ASSUME LookupReads(c)
            PROVE  call'[c].pc = "found" /\ (call'[c].intent # None =>
                     call'[c].status = db[call'[c].intent].status)
        BY <4>2, FoundEffect
      <4>3. ASSUME NEW i \in Intents, SubmitAllowed(c, i)
            PROVE  call'[c].pc = "execute" /\ call'[c].intent = i /\ db[i].status # "submitted"
        BY <2>1, <4>3, AllowedEffect DEF SubmitAllowed, Submittable, InMemory
      <4>4. ASSUME BasketPlaced(c)
            PROVE  call'[c].pc = "return" /\ call'[c].intent = n /\ n \in Intents
                   /\ db[n].status # "submitted"
        BY <2>0, <2>1, <4>4, PlacedEffect DEF BasketPlaced
      <4>5. ASSUME BasketRaises(c) \/ WriteFails(c) PROVE call'[c].pc = "idle"
        BY <4>5, IdleEffect DEF BasketRaises, WriteFails
      <4> QED
        BY <2>5, <4>1, <4>2, <4>3, <4>4, <4>5 DEF Passes
    <3> QED
      BY <2>0, <2>1, <2>2, <3>1, <3>2 DEF FinalInv
  <2>6. CASE CreateReplays(c)
    <3>1. call'[c].pc = "idle" /\ db' = db /\ n \in Intents
      BY <2>0, <2>6, IdleEffect DEF CreateReplays
    <3>2. status' = status \/ status' = [status EXCEPT ![n] = call[c].status]
      BY <2>6 DEF CreateReplays
    <3>3. call[c].status = db[n].status
      BY <2>0, <2>1, <2>6, <3>1 DEF CreateReplays
    <3> QED
      BY <2>0, <2>1, <2>2, <3>1, <3>2, <3>3, Tables DEF FinalInv
  <2>7. CASE SaveCommits(c)
    <3>1. call'[c].pc = "idle" /\ status' = status /\ call[c].pc = "save"
      BY <2>7, IdleEffect DEF SaveCommits, memory
    <3>2. \A i \in Intents : db'[i].status = "submitted" => db[i].status = "submitted"
      BY <1>1, <3>1, RowsMove
    <3> QED
      BY <2>0, <2>1, <2>2, <3>1, <3>2 DEF FinalInv
  <2>8. CASE UpdateCommits(c)
    <3>1. call'[c].pc = "idle" /\ status' = status /\ call[c].pc = "persist"
      BY <2>8, IdleEffect DEF UpdateCommits, memory
    <3>2. call[c].status = "submitted" => status[n] = "submitted"
      BY <3>1 DEF Known, CallsKnown
    <3>3. \A i \in Intents : db'[i].status = "submitted" =>
            db[i].status = "submitted" \/ status[i] = "submitted"
      BY <1>1, <3>1, <3>2, RowsMove
    <3> QED
      BY <2>0, <2>1, <2>2, <3>1, <3>3 DEF FinalInv
  <2>9. CASE SubmitReturns(c)
    <3>1. /\ call'[c].pc = "persist" /\ call'[c].intent = n /\ call'[c].status = "submitted"
          /\ db' = db /\ status' = [status EXCEPT ![n] = "submitted"]
      BY <2>9, ReturnEffect DEF SubmitReturns
    <3> QED
      BY <2>0, <2>1, <2>2, <3>1, Tables DEF FinalInv
  <2> QED
    BY <1>1, <2>2, <2>3, <2>4, <2>5, <2>6, <2>7, <2>8, <2>9, Kinds DEF Known
<1>2. CASE Crash
  BY <1>2 DEF Crash, history, FinalInv, Idle
<1>3. CASE Restore
  <2>1. /\ \A c \in Calls : call'[c].pc = "idle"
        /\ \A i \in Intents : status'[i] = db[i].status
        /\ UNCHANGED <<db, placed>>
    BY <1>3 DEF Restore, Known, Down, history
  <2> QED
    BY <2>1 DEF FinalInv
<1>4. CASE RestoreFails \/ Tick \/ UNCHANGED vars
  <2>1. UNCHANGED <<db, placed, status, call>>
    BY <1>4 DEF RestoreFails, Tick, vars, memory, history
  <2> QED
    BY <2>1 DEF FinalInv
<1> QED
  BY <1>1, <1>2, <1>3, <1>4 DEF Next

LEMMA FinalInvariance == ASSUME OneCall PROVE Spec => []FinalInv
<1>1. Init => FinalInv
  BY DEF Init, FinalInv, Idle, NoRow
<1>2. IInv /\ Known /\ FinalInv /\ [Next]_vars => FinalInv'
  BY FinalStep
<1> QED
  BY <1>1, <1>2, KnownInvariance, PTL DEF Spec

(* With one call at a time: once a row says submitted, no call, retry,     *)
(* crash, restart, lost write or failed read places another basket for the *)
(* intent, and the row says so for good.                                   *)
THEOREM SubmittedOnce ==
  ASSUME OneCall
  PROVE  Spec => PersistedSubmitIsFinal
<1>1. IInv /\ Known /\ FinalInv /\ [Next]_vars =>
        [\A i \in Intents : db[i].status = "submitted" =>
           placed'[i] = placed[i] /\ db'[i].status = "submitted"]_vars
  BY FinalStep
<1> QED
  BY <1>1, FinalInvariance, KnownInvariance, PTL DEF Spec, PersistedSubmitIsFinal

-----------------------------------------------------------------------------
(***************************************************************************)
(* The dedupe window.  A submission that is on its way is a window later   *)
(* than every one of its signature, and what the window is measured from   *)
(* is as late as every submission, unless a crash has made it forgotten.   *)
(***************************************************************************)
Submits(c) ==
  \/ call[c].pc \in {"execute", "return"}
  \/ call[c].pc = "persist" /\ call[c].status = "submitted"

Forgotten(i) == faults.crashes > 0 /\ ~SignatureStored(i)

Apart(now, j) ==
  /\ acceptedAt[j] <= now
  /\ now - acceptedAt[j] >= Window \/ Forgotten(j)

ClockInv ==
  /\ \A i \in Intents : acceptedAt[i] <= clock
  /\ \A c \in Calls : call[c].now <= clock
  /\ \A i \in Intents : SignatureStored(i) => acceptedAt[i] <= db[i].at

RecentInv ==
  up /\ faults.reads = 0 =>
    \A i \in Intents : acceptedAt[i] # Never =>
      acceptedAt[i] <= recent[sig[i]] \/ Forgotten(i)

SubmitInv ==
  faults.reads = 0 =>
    \A c \in Calls : Submits(c) =>
      /\ \A j \in Intents \ {call[c].intent} :
           sig[j] = sig[call[c].intent] /\ acceptedAt[j] # Never => Apart(call[c].now, j)
      /\ call[c].pc = "persist" =>
           /\ acceptedAt[call[c].intent] = call[c].now
           /\ call[c].now <= recent[sig[call[c].intent]]

WindowInv == ClockInv /\ RecentInv /\ SubmitInv /\ DedupeWindowKept

LEMMA Moments ==
  ASSUME TypeOK
  PROVE  /\ clock \in Int /\ Window \in Int
         /\ \A i \in Intents : acceptedAt[i] \in Int /\ (acceptedAt[i] # Never => acceptedAt[i] >= 0)
                               /\ acceptedAt[i] >= Never
         /\ \A c \in Calls : call[c].now \in Int /\ call[c].now >= 0
         /\ \A s \in Sigs : recent[s] \in Int
         /\ \A i \in Intents : db[i].at \in Int
  BY Tables, CallFields, RowFields, BoundsAssumption DEF Times, Never

(* Steps of a call that neither submit nor write a row. *)
LEMMA WindowQuiet ==
  ASSUME OneCall, IInv, WindowInv, [Next]_vars, NEW c \in Calls,
         UNCHANGED <<up, clock, recent, acceptedAt, db>>,
         \A i \in Intents : acceptedAt[i] # Never => sig'[i] = sig[i],
         ~Submits(c)', call'[c].now <= clock
  PROVE  WindowInv'
<1> USE DEF IInv
<1>0. \A d \in Calls : d = c
  BY DEF OneCall
<1>1. \A i \in Intents : acceptedAt[i] # Never =>
        (SignatureStored(i)' <=> SignatureStored(i))
  BY DEF SignatureStored
<1>2. /\ faults'.crashes >= faults.crashes /\ faults.crashes \in Nat /\ faults'.crashes \in Nat
      /\ faults'.reads = 0 => faults.reads = 0
  BY FaultsGrow
<1>3. \A i \in Intents : acceptedAt[i] # Never /\ Forgotten(i) => Forgotten(i)'
  BY <1>1, <1>2 DEF Forgotten
<1>4. ClockInv'
  <2>1. ASSUME NEW i \in Intents, SignatureStored(i)' PROVE acceptedAt'[i] <= db'[i].at
    <3>1. CASE acceptedAt[i] # Never
      BY <1>1, <2>1, <3>1 DEF WindowInv, ClockInv
    <3>2. CASE acceptedAt[i] = Never
      <4>1. db[i].at >= Never
        BY RowFields, BoundsAssumption DEF Times, Never
      <4> QED
        BY <3>2, <4>1
    <3> QED
      BY <3>1, <3>2
  <2> QED
    BY <1>0, <2>1 DEF WindowInv, ClockInv
<1>5. RecentInv'
  BY <1>2, <1>3 DEF WindowInv, RecentInv
<1>6. SubmitInv'
  BY <1>0 DEF SubmitInv
<1>7. DedupeWindowKept'
  <2> SUFFICES ASSUME faults'.reads = 0, NEW i \in Intents, NEW j \in Intents,
                      i # j, sig'[i] = sig'[j], acceptedAt[i] # Never,
                      acceptedAt[i] <= acceptedAt[j]
               PROVE  \/ acceptedAt[j] - acceptedAt[i] >= Window
                      \/ /\ faults'.crashes > 0
                         /\ \/ ~SignatureStored(i)'
                            \/ acceptedAt[i] = acceptedAt[j] /\ ~SignatureStored(j)'
    BY DEF DedupeWindowKept
  <2>1. acceptedAt[j] # Never
    BY Moments DEF Never
  <2>2. sig[i] = sig[j] /\ faults.reads = 0
    BY <1>2, <2>1
  <2>3. \/ acceptedAt[j] - acceptedAt[i] >= Window
        \/ /\ faults.crashes > 0
           /\ \/ ~SignatureStored(i)
              \/ acceptedAt[i] = acceptedAt[j] /\ ~SignatureStored(j)
    BY <2>2 DEF WindowInv, DedupeWindowKept
  <2> QED
    BY <1>1, <1>2, <2>1, <2>3
<1> QED
  BY <1>4, <1>5, <1>6, <1>7 DEF WindowInv

-----------------------------------------------------------------------------
LEMMA AllowedKeepsWindow ==
  ASSUME OneCall, IInv, Known, WindowInv, NEW c \in Calls, NEW i \in Intents, SubmitAllowed(c, i)
  PROVE  WindowInv'
<1> USE DEF IInv
<1>0. /\ \A d \in Calls : d = c
      /\ UNCHANGED <<up, clock, recent, acceptedAt, db, sig, faults>>
      /\ up
      /\ call'[c].pc = "execute" /\ call'[c].intent = i /\ call'[c].now = clock
  BY AllowedEffect DEF OneCall, SubmitAllowed, Submittable, memory, history
<1>1. \A j \in Intents : (Forgotten(j)' <=> Forgotten(j)) /\ (SignatureStored(j)' <=> SignatureStored(j))
  BY <1>0 DEF Forgotten, SignatureStored
<1>2. ClockInv' /\ RecentInv'
  BY <1>0, <1>1, Moments DEF WindowInv, ClockInv, RecentInv
<1>3. SubmitInv'
  <2> SUFFICES ASSUME faults.reads = 0, NEW j \in Intents, sig[j] = sig[i], acceptedAt[j] # Never
               PROVE  /\ acceptedAt[j] <= clock
                      /\ clock - acceptedAt[j] >= Window \/ Forgotten(j)
    BY <1>0, <1>1 DEF SubmitInv, Apart
  <2>1. acceptedAt[j] <= clock
    BY DEF WindowInv, ClockInv
  <2>2. acceptedAt[j] <= recent[sig[i]] \/ Forgotten(j)
    BY <1>0 DEF WindowInv, RecentInv
  <2>3. sig[i] \in Sigs
    BY Tables DEF Known, Born
  <2>4. recent[sig[i]] \in Int /\ acceptedAt[j] \in Int /\ acceptedAt[j] >= 0
        /\ clock \in Int /\ Window \in Int
    BY <2>3, Moments
  <2>5. ~DuplicateOf(sig[i])
    BY DEF SubmitAllowed
  <2>6. recent[sig[i]] = Never \/ clock - recent[sig[i]] >= Window
    BY <2>4, <2>5 DEF DuplicateOf
  <2> QED
    BY <2>1, <2>2, <2>4, <2>6 DEF Never
<1>4. DedupeWindowKept'
  BY <1>0, <1>1 DEF WindowInv, DedupeWindowKept
<1> QED
  BY <1>2, <1>3, <1>4 DEF WindowInv

LEMMA PlacedKeepsWindow ==
  ASSUME OneCall, IInv, Known, WindowInv, NEW c \in Calls, BasketPlaced(c)
  PROVE  WindowInv'
<1> USE DEF IInv
<1>0. /\ \A d \in Calls : d = c
      /\ UNCHANGED <<up, clock, recent, acceptedAt, db, sig, faults>>
      /\ call'[c].pc = "return" /\ call'[c].intent = call[c].intent /\ call'[c].now = call[c].now
      /\ call[c].pc = "execute"
  BY PlacedEffect DEF OneCall, BasketPlaced, memory
<1>1. \A j \in Intents : (Forgotten(j)' <=> Forgotten(j)) /\ (SignatureStored(j)' <=> SignatureStored(j))
  BY <1>0 DEF Forgotten, SignatureStored
<1>2. ClockInv' /\ RecentInv'
  BY <1>0, <1>1 DEF WindowInv, ClockInv, RecentInv
<1>3. SubmitInv'
  BY <1>0, <1>1 DEF WindowInv, SubmitInv, Submits, Apart
<1>4. DedupeWindowKept'
  BY <1>0, <1>1 DEF WindowInv, DedupeWindowKept
<1> QED
  BY <1>2, <1>3, <1>4 DEF WindowInv

LEMMA ReturnKeepsWindow ==
  ASSUME OneCall, IInv, Known, FinalInv, WindowInv, NEW c \in Calls, SubmitReturns(c)
  PROVE  WindowInv'
<1> DEFINE i == call[c].intent
           now == call[c].now
<1> USE DEF IInv
<1>0. /\ \A d \in Calls : d = c
      /\ UNCHANGED <<up, clock, db, sig, faults>>
      /\ call[c].pc = "return"
      /\ call'[c].pc = "persist" /\ call'[c].intent = i /\ call'[c].now = now
      /\ i \in Intents /\ status[i] # "absent"
  BY ReturnEffect, CallIntents DEF OneCall, SubmitReturns, Known, CallsKnown
<1>1. \A j \in Intents : (Forgotten(j)' <=> Forgotten(j)) /\ (SignatureStored(j)' <=> SignatureStored(j))
  BY <1>0 DEF Forgotten, SignatureStored
<1>2. sig[i] \in Sigs
  BY <1>0, Tables DEF Known, Born
<1>3. /\ recent' = [recent EXCEPT ![sig[i]] = now]
      /\ acceptedAt' = [acceptedAt EXCEPT ![i] = now]
  BY DEF SubmitReturns
<1>4. /\ recent'[sig[i]] = now /\ \A s \in Sigs : s # sig[i] => recent'[s] = recent[s]
      /\ acceptedAt'[i] = now /\ \A j \in Intents : j # i => acceptedAt'[j] = acceptedAt[j]
  BY <1>0, <1>2, <1>3, Tables
<1>5. ~SignatureStored(i)
  BY <1>0 DEF FinalInv, SignatureStored
<1>6. now <= clock /\ now \in Int /\ now >= 0
  BY Moments DEF WindowInv, ClockInv
<1>7. faults.reads = 0 => \A j \in Intents : j # i /\ sig[j] = sig[i] /\ acceptedAt[j] # Never =>
        acceptedAt[j] <= now /\ (now - acceptedAt[j] >= Window \/ Forgotten(j))
  BY <1>0 DEF WindowInv, SubmitInv, Submits, Apart
<1> HIDE DEF i, now
<1>8. ClockInv'
  BY <1>0, <1>1, <1>4, <1>5, <1>6 DEF WindowInv, ClockInv
<1>9. RecentInv'
  <2> SUFFICES ASSUME up, faults.reads = 0, NEW j \in Intents, acceptedAt'[j] # Never
               PROVE  acceptedAt'[j] <= recent'[sig[j]] \/ Forgotten(j)
    BY <1>0, <1>1 DEF RecentInv
  <2>1. CASE j = i
    BY <1>4, <1>6, <2>1
  <2>2. CASE j # i /\ sig[j] = sig[i]
    BY <1>4, <1>7, <2>2
  <2>3. CASE j # i /\ sig[j] # sig[i]
    <3>1. sig[j] \in Sigs
      BY <1>4, <2>3, Tables DEF Known, Born
    <3> QED
      BY <1>4, <2>3, <3>1 DEF WindowInv, RecentInv
  <2> QED
    BY <2>1, <2>2, <2>3
<1>10. SubmitInv'
  <2>1. \A d \in Calls : call'[d].intent = i /\ call'[d].now = now
    BY <1>0
  <2> QED
    BY <1>0, <1>1, <1>4, <1>6, <1>7, <2>1 DEF SubmitInv, Apart
<1>11. DedupeWindowKept'
  <2> SUFFICES ASSUME faults.reads = 0, NEW j \in Intents, NEW k \in Intents,
                      j # k, sig[j] = sig[k], acceptedAt'[j] # Never,
                      acceptedAt'[j] <= acceptedAt'[k]
               PROVE  \/ acceptedAt'[k] - acceptedAt'[j] >= Window
                      \/ /\ faults.crashes > 0
                         /\ \/ ~SignatureStored(j)
                            \/ acceptedAt'[j] = acceptedAt'[k] /\ ~SignatureStored(k)
    BY <1>0, <1>1 DEF DedupeWindowKept
  <2>1. CASE k = i
    BY <1>4, <1>7, <2>1 DEF Forgotten
  <2>2. CASE j = i
    <3>1. acceptedAt[k] # Never
      BY <1>4, <1>6, <2>2, Moments DEF Never
    <3>2. acceptedAt[k] = now /\ acceptedAt'[k] = now /\ acceptedAt'[j] = now
      BY <1>4, <1>7, <2>2, <3>1, <1>6, Moments
    <3> QED
      BY <1>7, <2>2, <3>1, <3>2, <1>6 DEF Forgotten
  <2>3. CASE j # i /\ k # i
    BY <1>4, <2>3 DEF WindowInv, DedupeWindowKept
  <2> QED
    BY <2>1, <2>2, <2>3
<1> QED
  BY <1>8, <1>9, <1>10, <1>11 DEF WindowInv

LEMMA SaveKeepsWindow ==
  ASSUME OneCall, IInv, Known, WindowInv, NEW c \in Calls, SaveCommits(c)
  PROVE  WindowInv'
<1> USE DEF IInv
<1>0. /\ \A d \in Calls : d = c
      /\ UNCHANGED <<up, clock, recent, acceptedAt, sig, faults>>
      /\ call'[c].pc = "idle" /\ call'[c].now = 0 /\ clock \in Nat
  BY IdleEffect, Tables DEF OneCall, SaveCommits, memory, history
<1>1. \A j \in Intents : SignatureStored(j)' => SignatureStored(j) /\ db'[j] = db[j]
  BY <1>0, SaveEffect DEF SignatureStored
<1>2. \A j \in Intents : Forgotten(j) => Forgotten(j)'
  BY <1>0, <1>1 DEF Forgotten
<1>3. ClockInv' /\ RecentInv' /\ SubmitInv'
  BY <1>0, <1>1, <1>2 DEF WindowInv, ClockInv, RecentInv, SubmitInv, Submits
<1>4. DedupeWindowKept'
  BY <1>0, <1>1 DEF WindowInv, DedupeWindowKept
<1> QED
  BY <1>3, <1>4 DEF WindowInv

LEMMA UpdateKeepsWindow ==
  ASSUME OneCall, IInv, Known, FinalInv, WindowInv, NEW c \in Calls, UpdateCommits(c)
  PROVE  WindowInv'
<1> DEFINE i == call[c].intent
<1> USE DEF IInv
<1>0. /\ \A d \in Calls : d = c
      /\ UNCHANGED <<up, clock, recent, acceptedAt, sig, faults>>
      /\ call'[c].pc = "idle" /\ call'[c].now = 0 /\ clock \in Nat
      /\ call[c].pc = "persist" /\ i \in Intents
  BY IdleEffect, Tables, CallIntents DEF OneCall, UpdateCommits, memory, history
<1>1. \A j \in Intents : j # i => db'[j] = db[j]
  BY UpdateEffect
<1>2. \A j \in Intents : j # i => (SignatureStored(j)' <=> SignatureStored(j))
  BY <1>0, <1>1 DEF SignatureStored
<1>3. ASSUME NEW j \in Intents, j = i, SignatureStored(j)'
      PROVE  /\ call[c].status = "submitted"
             /\ db'[j].at = clock \/ (db'[j] = db[j] /\ SignatureStored(j))
  <2>1. CASE db[j] = NoRow
    <3>1. db' = db
      BY <1>3, <2>1, UpdateEffect
    <3> QED
      BY <1>3, <2>1, <3>1 DEF SignatureStored, NoRow
  <2>2. CASE db[j] # NoRow
    <3>1. db'[j].status = call[c].status /\ db'[j].at = clock
      BY <1>3, <2>2, UpdateEffect
    <3> QED
      BY <1>3, <3>1 DEF SignatureStored
  <2> QED
    BY <2>1, <2>2
<1>4. CASE call[c].status # "submitted"
  <2>1. ASSUME NEW j \in Intents, SignatureStored(j)'
        PROVE  SignatureStored(j) /\ db'[j] = db[j]
    <3>1. j # i
      BY <1>3, <1>4, <2>1
    <3> HIDE DEF i
    <3> QED
      BY <1>1, <1>2, <2>1, <3>1
  <2>2. \A j \in Intents : Forgotten(j) => Forgotten(j)'
    BY <1>0, <2>1 DEF Forgotten
  <2>3. ClockInv' /\ RecentInv' /\ SubmitInv'
    BY <1>0, <2>1, <2>2 DEF WindowInv, ClockInv, RecentInv, SubmitInv, Submits
  <2>4. DedupeWindowKept'
    BY <1>0, <2>1 DEF WindowInv, DedupeWindowKept
  <2> QED
    BY <2>3, <2>4 DEF WindowInv
<1>5. CASE call[c].status = "submitted"
  <2>1. faults.reads = 0 =>
          /\ acceptedAt[i] = call[c].now /\ call[c].now <= recent[sig[i]]
          /\ \A j \in Intents : j # i /\ sig[j] = sig[i] /\ acceptedAt[j] # Never =>
               acceptedAt[j] <= acceptedAt[i]
               /\ (acceptedAt[i] - acceptedAt[j] >= Window \/ Forgotten(j))
    BY <1>0, <1>5 DEF WindowInv, SubmitInv, Submits, Apart
  <2>2. ClockInv'
    <3>1. ASSUME NEW j \in Intents, SignatureStored(j)' PROVE acceptedAt[j] <= db'[j].at
      <4>1. CASE j # i
        <5> HIDE DEF i
        <5> QED
          BY <1>1, <1>2, <2>1, <3>1, <4>1 DEF WindowInv, ClockInv
      <4>2. CASE j = i /\ db'[j].at = clock
        BY <4>2 DEF WindowInv, ClockInv
      <4>3. CASE j = i /\ db'[j] = db[j] /\ SignatureStored(j)
        BY <4>3 DEF WindowInv, ClockInv
      <4> QED
        BY <1>3, <3>1, <4>1, <4>2, <4>3
    <3> QED
      BY <1>0, <3>1 DEF WindowInv, ClockInv
  <2>3. \A j \in Intents : j # i => (Forgotten(j)' <=> Forgotten(j))
    BY <1>0, <1>2 DEF Forgotten
  <2>4. RecentInv'
    BY <1>0, <2>1, <2>3 DEF WindowInv, RecentInv
  <2>5. SubmitInv'
    BY <1>0 DEF SubmitInv, Submits
  <2>6. DedupeWindowKept'
    <3> HIDE DEF i
    <3> SUFFICES ASSUME faults.reads = 0, NEW j \in Intents, NEW k \in Intents,
                        j # k, sig[j] = sig[k], acceptedAt[j] # Never,
                        acceptedAt[j] <= acceptedAt[k]
                 PROVE  \/ acceptedAt[k] - acceptedAt[j] >= Window
                        \/ /\ faults.crashes > 0
                           /\ \/ ~SignatureStored(j)'
                              \/ acceptedAt[j] = acceptedAt[k] /\ ~SignatureStored(k)'
      BY <1>0 DEF DedupeWindowKept
    <3>1. CASE k = i
      BY <1>2, <2>1, <3>1 DEF Forgotten
    <3>2. CASE j = i
      <4>1. acceptedAt[k] # Never
        BY Moments DEF Never
      <4>2. acceptedAt[k] = acceptedAt[i]
        BY <2>1, <3>2, <4>1, Moments
      <4> QED
        BY <1>2, <2>1, <3>2, <4>1, <4>2 DEF Forgotten
    <3>3. CASE j # i /\ k # i
      BY <1>2, <3>3 DEF WindowInv, DedupeWindowKept
    <3> QED
      BY <3>1, <3>2, <3>3
  <2> QED
    BY <2>2, <2>4, <2>5, <2>6 DEF WindowInv
<1> QED
  BY <1>4, <1>5

LEMMA WindowStep ==
  ASSUME OneCall, IInv, Known, FinalInv, WindowInv, [Next]_vars
  PROVE  WindowInv'
<1> USE DEF IInv
<1>0. clock \in Nat /\ \A c \in Calls : call[c].now <= clock
  BY Tables DEF WindowInv, ClockInv
<1>1. ASSUME NEW c \in Calls, CallStep(c) PROVE WindowInv'
  <2>1. CASE Births(c)
    <3>1. PICK i \in Intents, s \in Sigs, k \in Keys \cup {None} : Birth(c, i, s, k)
      BY <2>1 DEF Births
    <3>2. /\ UNCHANGED <<up, clock, recent, acceptedAt, db>>
          /\ \A j \in Intents : acceptedAt[j] # Never => sig'[j] = sig[j]
      BY <3>1, Tables DEF Birth, Known, Born
    <3>3. ~Submits(c)' /\ call'[c].now <= clock
      BY <1>0, <3>1, BirthEffect DEF Submits
    <3> QED
      BY <3>2, <3>3, WindowQuiet
  <2>2. CASE Refuses(c)
    <3>1. PICK i \in Intents, v \in {"duplicate_blocked", "risk_rejected"} : Refuse(c, i, v)
      BY <2>2 DEF Refuses
    <3>2. UNCHANGED <<up, clock, recent, acceptedAt, db, sig>>
      BY <3>1 DEF Refuse, history
    <3>3. ~Submits(c)' /\ call'[c].now <= clock
      BY <1>0, <3>1, RefuseEffect DEF Submits
    <3> QED
      BY <3>2, <3>3, WindowQuiet
  <2>3. CASE Passes(c) /\ ~BasketPlaced(c) /\ \A i \in Intents : ~SubmitAllowed(c, i)
    <3>1. UNCHANGED <<up, clock, recent, acceptedAt, db, sig>>
      BY <2>3, PassesKeep
    <3>2. ASSUME NEW s \in Sigs, NEW k \in Keys, CreateWithKey(c, s, k)
          PROVE  ~Submits(c)' /\ call'[c].now <= clock
      BY <1>0, <3>2, LookupEffect DEF Submits
    <3>3. ASSUME LookupReads(c) PROVE ~Submits(c)' /\ call'[c].now <= clock
      BY <1>0, <3>3, FoundEffect DEF Submits
    <3>4. ASSUME BasketRaises(c) \/ WriteFails(c) PROVE ~Submits(c)' /\ call'[c].now <= clock
      BY <1>0, <3>4, IdleEffect DEF BasketRaises, WriteFails, Submits
    <3>5. ~Submits(c)' /\ call'[c].now <= clock
      BY <2>3, <3>2, <3>3, <3>4 DEF Passes
    <3> QED
      BY <3>1, <3>5, WindowQuiet
  <2>4. CASE CreateReplays(c)
    <3>1. UNCHANGED <<up, clock, recent, acceptedAt, db, sig>>
      BY <2>4 DEF CreateReplays, history
    <3>2. ~Submits(c)' /\ call'[c].now <= clock
      <4>1. call' = [call EXCEPT ![c] = Idle]
        BY <2>4 DEF CreateReplays
      <4>2. call'[c].pc = "idle" /\ call'[c].now = 0
        BY <4>1, IdleEffect
      <4> QED
        BY <1>0, <4>2 DEF Submits
    <3> QED
      BY <3>1, <3>2, WindowQuiet
  <2> QED
    BY <1>1, <2>1, <2>2, <2>3, <2>4, Kinds, AllowedKeepsWindow, PlacedKeepsWindow,
       ReturnKeepsWindow, SaveKeepsWindow, UpdateKeepsWindow DEF Known
<1>2. CASE Crash
  <2>1. /\ ~up' /\ \A c \in Calls : call'[c].pc = "idle" /\ call'[c].now = 0
        /\ UNCHANGED <<clock, acceptedAt, db, sig>>
    BY <1>2 DEF Crash, history, Idle
  <2>2. /\ \A i \in Intents : SignatureStored(i)' <=> SignatureStored(i)
        /\ faults'.crashes >= faults.crashes /\ faults.crashes \in Nat /\ faults'.crashes \in Nat
        /\ faults'.reads = 0 => faults.reads = 0
    BY <2>1, FaultsGrow DEF SignatureStored
  <2>3. ClockInv' /\ RecentInv' /\ SubmitInv'
    BY <1>0, <2>1, <2>2 DEF WindowInv, ClockInv, RecentInv, SubmitInv, Submits
  <2>4. DedupeWindowKept'
    BY <2>1, <2>2 DEF WindowInv, DedupeWindowKept
  <2> QED
    BY <2>3, <2>4 DEF WindowInv
<1>3. CASE Restore
  <2>1. /\ \A c \in Calls : call'[c].pc = "idle" /\ call' = call
        /\ recent' = [s \in Sigs |-> RestoredRecent(s)]
        /\ UNCHANGED <<clock, acceptedAt, db, sig, faults>> /\ faults.crashes > 0
    BY <1>3 DEF Restore, history, Known, Down
  <2>2. /\ \A i \in Intents : SignatureStored(i)' <=> SignatureStored(i)
        /\ \A i \in Intents : Forgotten(i)' <=> Forgotten(i)
    BY <2>1 DEF SignatureStored, Forgotten
  <2>3. ASSUME NEW i \in Intents, acceptedAt[i] # Never, SignatureStored(i)
        PROVE  acceptedAt[i] <= recent'[sig[i]]
    <3>1. sig[i] \in Sigs
      BY <2>3, Tables DEF Known, Born
    <3> DEFINE holders == {j \in Intents : db[j].key = sig[i] /\ db[j].status = "submitted"}
    <3>2. i \in holders /\ \A j \in holders : j = i
      BY <2>3, <3>1, NoneIsNoIntent DEF SignatureStored, Known, RowKeys
    <3>3. (CHOOSE j \in holders : TRUE) = i
      BY <3>2
    <3>4. RestoredRecent(sig[i]) = db[i].at
      BY <3>2, <3>3 DEF RestoredRecent
    <3> QED
      BY <2>1, <2>3, <3>1, <3>4 DEF WindowInv, ClockInv
  <2>4. ClockInv' /\ SubmitInv'
    BY <2>1, <2>2 DEF WindowInv, ClockInv, SubmitInv, Submits
  <2>5. RecentInv'
    BY <2>1, <2>2, <2>3 DEF RecentInv, Forgotten
  <2>6. DedupeWindowKept'
    BY <2>1, <2>2 DEF WindowInv, DedupeWindowKept
  <2> QED
    BY <2>4, <2>5, <2>6 DEF WindowInv
<1>4. CASE RestoreFails
  <2>1. /\ UNCHANGED <<clock, acceptedAt, db, sig, call>>
        /\ faults'.reads # 0
    BY <1>4, FaultsGrow DEF RestoreFails, memory, history, TypeOK, FaultType
  <2>2. \A i \in Intents : SignatureStored(i)' <=> SignatureStored(i)
    BY <2>1 DEF SignatureStored
  <2> QED
    BY <2>1, <2>2 DEF WindowInv, ClockInv, RecentInv, SubmitInv, DedupeWindowKept
<1>5. CASE Tick \/ UNCHANGED vars
  <2>1. /\ UNCHANGED <<acceptedAt, db, sig, call, recent, up, faults>>
        /\ clock' >= clock /\ clock' \in Nat
    BY <1>0, <1>5 DEF Tick, vars, memory, history
  <2>2. \A i \in Intents : (SignatureStored(i)' <=> SignatureStored(i))
                            /\ (Forgotten(i)' <=> Forgotten(i))
    BY <2>1 DEF SignatureStored, Forgotten
  <2>3. ClockInv'
    BY <1>0, <2>1, <2>2, Moments DEF WindowInv, ClockInv
  <2>4. RecentInv' /\ DedupeWindowKept'
    BY <2>1, <2>2 DEF WindowInv, RecentInv, DedupeWindowKept
  <2>5. SubmitInv'
    BY <2>1, <2>2 DEF WindowInv, SubmitInv, Submits, Apart
  <2> QED
    BY <2>3, <2>4, <2>5 DEF WindowInv
<1> QED
  BY <1>1, <1>2, <1>3, <1>4, <1>5 DEF Next

(* With one call at a time: two completed submissions of one signature are *)
(* a window apart, whatever writes are lost, calls refused or retried, and *)
(* over a restart whenever the row of the earlier one has the signature.   *)
THEOREM WindowIsKept ==
  ASSUME OneCall
  PROVE  Spec => []DedupeWindowKept
<1>1. Init => WindowInv
  BY DEF Init, WindowInv, ClockInv, RecentInv, SubmitInv, DedupeWindowKept, Submits,
    SignatureStored, Idle, NoRow, Never
<1>2. IInv /\ Known /\ FinalInv /\ WindowInv /\ [Next]_vars => WindowInv'
  BY WindowStep
<1> QED
  BY <1>1, <1>2, FinalInvariance, KnownInvariance, PTL DEF Spec, WindowInv
=============================================================================
