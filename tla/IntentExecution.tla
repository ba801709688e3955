--------------------------- MODULE IntentExecution ---------------------------
(***************************************************************************)
(* IntentExecutionService: the bridge from a TradeIntent to an order       *)
(* basket (modules/execution_engine/intent_execution_service.py), with the *)
(* intents table it persists to (libs/db/repositories.py).                 *)
(*                                                                         *)
(* The service runs on one asyncio loop.  The code of a coroutine between  *)
(* two awaits is one step here; every repository call goes through         *)
(* asyncio.to_thread, so the commit is a step of its own, and the steps    *)
(* of other calls fall between.  A crash loses the memory of the process   *)
(* and keeps the table; restore_state rebuilds the memory from it.         *)
(*                                                                         *)
(* The basket executor is abstracted to what this service sees of it: a    *)
(* call that takes time and then has placed a basket, or raises after      *)
(* placing some of its orders (BasketExecution has the legs).              *)
(***************************************************************************)
EXTENDS Integers, FiniteSets

CONSTANTS
  Intents,      \* identities handed out by uuid4, each at most once
  Sigs,         \* intent signatures: strategy, pair and legs
  Keys,         \* idempotency keys that clients choose
  Calls,        \* API or strategy calls that can be in flight together
  MaxOpen,      \* max_open_intents
  Window,       \* dedupe_window_seconds
  MaxTime,      \* bound of the clock
  MaxCrashes,   \* bound of process crashes
  MaxFaults,    \* bound of failed reads and writes and of raising executors
  None          \* no intent, no key, no signature

ASSUME IntentsAssumption == IsFiniteSet(Intents) /\ None \notin Intents
ASSUME KeysAssumption == Sigs \cap Keys = {} /\ None \notin Sigs \cup Keys
ASSUME BoundsAssumption ==
  /\ MaxOpen \in Nat /\ Window \in Nat /\ MaxTime \in Nat
  /\ MaxCrashes \in Nat /\ MaxFaults \in Nat

VARIABLES
  status,       \* intent_status, "absent" for an intent the memory lacks
  basketOf,     \* intent_baskets: which basket of the intent, 0 for none
  key,          \* _idempotency_keys
  recent,       \* _recent_signatures
  call,         \* the calls in flight
  db,           \* the intents table
  up,           \* the process runs
  clock,        \* datetime.utcnow(), in units of the window
  \* what the world outside has seen
  sig,          \* payload of every intent ever created
  placed,       \* baskets whose orders reached a venue, per intent
  acceptedAt,   \* when the last completed submission of an intent began
  faults        \* the faults so far, by kind

memory  == <<status, basketOf, key, recent>>
history == <<sig, placed, acceptedAt>>
vars    == <<memory, call, db, up, clock, history, faults>>

-----------------------------------------------------------------------------
Never      == -1
Times      == 0..MaxTime
StatusText == {"created", "submitted", "duplicate_blocked", "risk_rejected"}
AnyKey     == Keys \cup Sigs \cup {None}
NoRow      == [status |-> "absent", basket |-> 0, key |-> None, at |-> Never]

(* A call in flight: where it waits, and the locals it holds across the    *)
(* await.  status, basket and key are what it read from or will write to   *)
(* the table.                                                              *)
CallType ==
  [pc     : {"idle", "lookup", "found", "save", "execute", "return", "persist"},
   intent : Intents \cup {None}, key : AnyKey, sig : Sigs \cup {None},
   status : StatusText \cup {"absent"}, basket : Nat, now : Times]

Idle == [pc |-> "idle", intent |-> None, key |-> None, sig |-> None,
         status |-> "absent", basket |-> 0, now |-> 0]

RowType   == [status : StatusText \cup {"absent"}, basket : Nat, key : AnyKey,
              at : Times \cup {Never}]
FaultType == [crashes : Nat, writes : Nat, reads : Nat, raised : Nat]

TypeOK ==
  /\ status \in [Intents -> StatusText \cup {"absent"}]
  /\ basketOf \in [Intents -> Nat]
  /\ key \in [Intents -> AnyKey]
  /\ recent \in [Sigs -> Times \cup {Never}]
  /\ call \in [Calls -> CallType]
  /\ db \in [Intents -> RowType]
  /\ up \in BOOLEAN
  /\ clock \in Times
  /\ sig \in [Intents -> Sigs \cup {None}]
  /\ placed \in [Intents -> Nat]
  /\ acceptedAt \in [Intents -> Times \cup {Never}]
  /\ faults \in FaultType

Init ==
  /\ status = [i \in Intents |-> "absent"]
  /\ basketOf = [i \in Intents |-> 0]
  /\ key = [i \in Intents |-> None]
  /\ recent = [s \in Sigs |-> Never]
  /\ call = [c \in Calls |-> Idle]
  /\ db = [i \in Intents |-> NoRow]
  /\ up = TRUE
  /\ clock = 0
  /\ sig = [i \in Intents |-> None]
  /\ placed = [i \in Intents |-> 0]
  /\ acceptedAt = [i \in Intents |-> Never]
  /\ faults = [crashes |-> 0, writes |-> 0, reads |-> 0, raised |-> 0]

InMemory      == {i \in Intents : status[i] # "absent"}
OpenIntents   == {i \in Intents : status[i] \in {"created", "submitted"}}
FaultsLeft    == faults.writes + faults.reads + faults.raised < MaxFaults

(* Operators named Bug... are mistakes of the kind the properties must     *)
(* catch; the specification does not use them.                             *)
BugKeyInMemory(k) == FALSE
KeyInMemory(k)    == \E i \in InMemory : key[i] = k

BugWithinLimit == TRUE
WithinLimit    == Cardinality(OpenIntents) <= MaxOpen

DuplicateOf(s) == recent[s] # Never /\ clock - recent[s] < Window

-----------------------------------------------------------------------------
(* create_intent.  Strategies the promotion gate refuses raise before any  *)
(* state changes, so Sigs holds the intents of promoted strategies only.   *)

Birth(c, i, s, k) ==
  /\ sig[i] = None
  /\ status' = [status EXCEPT ![i] = "created"]
  /\ key' = [key EXCEPT ![i] = k]
  /\ sig' = [sig EXCEPT ![i] = s]
  /\ call' = [call EXCEPT ![c] = [Idle EXCEPT !.pc = "save", !.intent = i, !.key = k]]
  /\ UNCHANGED <<basketOf, recent, db, up, clock, placed, acceptedAt, faults>>

(* No key: the intent is born before the first await. *)
CreateWithoutKey(c, i, s) ==
  /\ up /\ call[c].pc = "idle"
  /\ Birth(c, i, s, None)

(* A key no intent in memory holds: the table is asked.  (A key that one   *)
(* holds answers at once and changes nothing.)                             *)
CreateWithKey(c, s, k) ==
  /\ up /\ call[c].pc = "idle"
  /\ ~KeyInMemory(k)
  /\ \E i \in Intents : sig[i] = None
  /\ call' = [call EXCEPT ![c] = [Idle EXCEPT !.pc = "lookup", !.key = k, !.sig = s]]
  /\ UNCHANGED <<memory, db, up, clock, history, faults>>

Found(c, i, text, basket) ==
  [call[c] EXCEPT !.pc = "found", !.intent = i, !.status = text, !.basket = basket]

(* The lookup reads the table in its thread; an error there counts as "no  *)
(* such intent".                                                           *)
LookupReads(c) ==
  /\ call[c].pc = "lookup"
  /\ \/ /\ \E i \in Intents :
             /\ db[i].key = call[c].key
             /\ call' = [call EXCEPT ![c] = Found(c, i, db[i].status, db[i].basket)]
        /\ UNCHANGED faults
     \/ /\ \A i \in Intents : db[i].key # call[c].key
        /\ call' = [call EXCEPT ![c] = Found(c, None, "absent", 0)]
        /\ UNCHANGED faults
     \/ /\ FaultsLeft
        /\ call' = [call EXCEPT ![c] = Found(c, None, "absent", 0)]
        /\ faults' = [faults EXCEPT !.reads = @ + 1]
  /\ UNCHANGED <<memory, db, up, clock, history>>

(* The lookup found the row: replay, loading it if the memory lacks it. *)
CreateReplays(c) ==
  LET i == call[c].intent IN
  /\ call[c].pc = "found" /\ i # None
  /\ IF i \in InMemory
     THEN UNCHANGED <<status, basketOf>>
     ELSE /\ status' = [status EXCEPT ![i] = call[c].status]
          /\ basketOf' = [basketOf EXCEPT ![i] = call[c].basket]
  /\ key' = [key EXCEPT ![i] = call[c].key]
  /\ call' = [call EXCEPT ![c] = Idle]
  /\ UNCHANGED <<recent, db, up, clock, history, faults>>

CreateAfterLookup(c, i) ==
  /\ call[c].pc = "found" /\ call[c].intent = None
  /\ Birth(c, i, call[c].sig, call[c].key)

(* IntentRepository.save: the key is UNIQUE, and _persist swallows the     *)
(* integrity error of a second insert as it swallows any other.            *)
SaveCommits(c) ==
  LET i == call[c].intent
      taken == call[c].key # None /\ \E j \in Intents : db[j].key = call[c].key
  IN
  /\ call[c].pc = "save"
  /\ db' = IF taken THEN db
           ELSE [db EXCEPT ![i] = [status |-> "created", basket |-> 0,
                                   key |-> call[c].key, at |-> clock]]
  /\ call' = [call EXCEPT ![c] = Idle]
  /\ UNCHANGED <<memory, up, clock, history, faults>>

-----------------------------------------------------------------------------
(* submit_intent, up to its first await.  An unknown intent raises and a   *)
(* submitted one is returned as it is: neither changes anything.           *)

BugSubmittable(c, i) == up /\ call[c].pc = "idle" /\ i \in InMemory

Submittable(c, i) ==
  /\ up /\ call[c].pc = "idle"
  /\ i \in InMemory /\ status[i] # "submitted"

Refuse(c, i, verdict) ==
  /\ status' = [status EXCEPT ![i] = verdict]
  /\ call' = [call EXCEPT ![c] = [Idle EXCEPT !.pc = "persist", !.intent = i, !.status = verdict]]
  /\ UNCHANGED <<basketOf, key, recent, db, up, clock, history, faults>>

SubmitDuplicate(c, i) ==
  /\ Submittable(c, i)
  /\ DuplicateOf(sig[i])
  /\ Refuse(c, i, "duplicate_blocked")

(* The intent limit, or the risk checker (the environment's choice). *)
SubmitRejected(c, i) ==
  /\ Submittable(c, i)
  /\ ~DuplicateOf(sig[i])
  /\ Refuse(c, i, "risk_rejected")

BugSubmitAllowed(c, i) ==  \* notes the submission before it has been made
  /\ Submittable(c, i) /\ ~DuplicateOf(sig[i]) /\ WithinLimit
  /\ call' = [call EXCEPT ![c] = [Idle EXCEPT !.pc = "execute", !.intent = i, !.now = clock]]
  /\ status' = [status EXCEPT ![i] = "submitted"]
  /\ UNCHANGED <<basketOf, key, recent, db, up, clock, history, faults>>

SubmitAllowed(c, i) ==
  /\ Submittable(c, i)
  /\ ~DuplicateOf(sig[i])
  /\ WithinLimit
  /\ call' = [call EXCEPT ![c] = [Idle EXCEPT !.pc = "execute", !.intent = i, !.now = clock]]
  /\ UNCHANGED <<memory, db, up, clock, history, faults>>

(* submit_basket runs to its end: the orders are out. *)
BasketPlaced(c) ==
  LET i == call[c].intent IN
  /\ call[c].pc = "execute"
  /\ placed' = [placed EXCEPT ![i] = @ + 1]
  /\ call' = [call EXCEPT ![c] = [@ EXCEPT !.pc = "return", !.basket = placed[i] + 1]]
  /\ UNCHANGED <<memory, db, up, clock, sig, acceptedAt, faults>>

(* An executor raised: earlier legs may be out, and the exception leaves   *)
(* submit_intent before it has noted anything.                             *)
BasketRaises(c) ==
  LET i == call[c].intent IN
  /\ call[c].pc = "execute"
  /\ FaultsLeft
  /\ \E some \in {0, 1} : placed' = [placed EXCEPT ![i] = @ + some]
  /\ call' = [call EXCEPT ![c] = Idle]
  /\ faults' = [faults EXCEPT !.raised = @ + 1]
  /\ UNCHANGED <<memory, db, up, clock, sig, acceptedAt>>

BugSubmitReturns(c) ==  \* leaves a status that changed meanwhile alone
  LET i == call[c].intent IN
  /\ call[c].pc = "return"
  /\ status' = [status EXCEPT ![i] = IF @ = "created" THEN "submitted" ELSE @]
  /\ basketOf' = [basketOf EXCEPT ![i] = call[c].basket]
  /\ call' = [call EXCEPT ![c] = [@ EXCEPT !.pc = "persist", !.status = "submitted", !.key = sig[i]]]
  /\ UNCHANGED <<key, recent, db, up, clock, history, faults>>

SubmitReturns(c) ==
  LET i == call[c].intent IN
  /\ call[c].pc = "return"
  /\ status' = [status EXCEPT ![i] = "submitted"]
  /\ basketOf' = [basketOf EXCEPT ![i] = call[c].basket]
  /\ recent' = [recent EXCEPT ![sig[i]] = call[c].now]
  /\ key' = [key EXCEPT ![i] = IF @ = None THEN sig[i] ELSE @]
  /\ acceptedAt' = [acceptedAt EXCEPT ![i] = call[c].now]
  /\ call' = [call EXCEPT ![c] = [@ EXCEPT !.pc = "persist", !.status = "submitted", !.key = sig[i]]]
  /\ UNCHANGED <<db, up, clock, sig, placed, faults>>

(* IntentRepository.update_status: the row's key is attached only if the   *)
(* row has none and the key is free; a missing row is left missing.        *)
UpdateCommits(c) ==
  LET i == call[c].intent
      free == db[i].key = None /\ \A j \in Intents : db[j].key # call[c].key
  IN
  /\ call[c].pc = "persist"
  /\ db' = IF db[i] = NoRow THEN db
           ELSE [db EXCEPT ![i] =
                   [status |-> call[c].status,
                    basket |-> IF call[c].basket # 0 THEN call[c].basket ELSE @.basket,
                    key    |-> IF call[c].key # None /\ free THEN call[c].key ELSE @.key,
                    at     |-> clock]]
  /\ call' = [call EXCEPT ![c] = Idle]
  /\ UNCHANGED <<memory, up, clock, history, faults>>

(* A write that fails is logged by _persist and forgotten. *)
WriteFails(c) ==
  /\ call[c].pc \in {"save", "persist"}
  /\ FaultsLeft
  /\ call' = [call EXCEPT ![c] = Idle]
  /\ faults' = [faults EXCEPT !.writes = @ + 1]
  /\ UNCHANGED <<memory, db, up, clock, history>>

-----------------------------------------------------------------------------
Crash ==
  /\ up /\ faults.crashes < MaxCrashes
  /\ up' = FALSE
  /\ status' = [i \in Intents |-> "absent"]
  /\ basketOf' = [i \in Intents |-> 0]
  /\ key' = [i \in Intents |-> None]
  /\ recent' = [s \in Sigs |-> Never]
  /\ call' = [c \in Calls |-> Idle]
  /\ faults' = [faults EXCEPT !.crashes = @ + 1]
  /\ UNCHANGED <<db, clock, history>>

BugRestoredRecent(s) == Never  \* the window forgotten

RestoredRecent(s) ==
  LET holders == {i \in Intents : db[i].key = s /\ db[i].status = "submitted"}
  IN  IF holders = {} THEN Never ELSE db[CHOOSE i \in holders : TRUE].at

(* restore_state: the dedupe window is rebuilt from the key column of the  *)
(* submitted rows.                                                         *)
Restore ==
  /\ ~up
  /\ up' = TRUE
  /\ status' = [i \in Intents |-> db[i].status]
  /\ basketOf' = [i \in Intents |-> db[i].basket]
  /\ key' = [i \in Intents |-> db[i].key]
  /\ recent' = [s \in Sigs |-> RestoredRecent(s)]
  /\ UNCHANGED <<call, db, clock, history, faults>>

(* An unreadable table: the service runs with empty state. *)
RestoreFails ==
  /\ ~up /\ FaultsLeft
  /\ up' = TRUE
  /\ faults' = [faults EXCEPT !.reads = @ + 1]
  /\ UNCHANGED <<memory, call, db, clock, history>>

Tick ==
  /\ clock < MaxTime
  /\ clock' = clock + 1
  /\ UNCHANGED <<memory, call, db, up, history, faults>>

CallStep(c) ==
  \/ \E i \in Intents, s \in Sigs : CreateWithoutKey(c, i, s)
  \/ \E s \in Sigs, k \in Keys : CreateWithKey(c, s, k)
  \/ LookupReads(c)
  \/ CreateReplays(c)
  \/ \E i \in Intents : CreateAfterLookup(c, i)
  \/ SaveCommits(c)
  \/ \E i \in Intents : SubmitDuplicate(c, i) \/ SubmitRejected(c, i) \/ SubmitAllowed(c, i)
  \/ BasketPlaced(c)
  \/ BasketRaises(c)
  \/ SubmitReturns(c)
  \/ UpdateCommits(c)
  \/ WriteFails(c)

Next ==
  \/ \E c \in Calls : CallStep(c)
  \/ Crash
  \/ Restore
  \/ RestoreFails
  \/ Tick

Spec == Init /\ [][Next]_vars

-----------------------------------------------------------------------------
(***************************************************************************)
(* Properties.                                                             *)
(***************************************************************************)

SignatureStored(i) == db[i].status = "submitted" /\ db[i].key = sig[i]

(* A submission, in memory or in the table, names a basket of that intent  *)
(* whose orders are out: update_status runs only after submit_basket, and  *)
(* neither a crash nor a lost write makes a phantom submission.            *)
SubmissionHasBasket ==
  \A i \in Intents :
    /\ status[i] = "submitted" => basketOf[i] \in 1..placed[i]
    /\ db[i].status = "submitted" => db[i].basket \in 1..placed[i]

(* Once the row of an intent says submitted, no call, retry, crash or      *)
(* restart places another basket for it, and the row says so for good.     *)
(* (One call at a time; MCIntentOverlap shows what overlapping calls do.)  *)
PersistedSubmitIsFinal ==
  [][\A i \in Intents : db[i].status = "submitted" =>
       placed'[i] = placed[i] /\ db'[i].status = "submitted"]_vars

(* Two completed submissions of one signature are a window apart.  Only a  *)
(* crash between them, after which the row of the earlier one does not     *)
(* carry the signature (it has a client key, an older intent holds the     *)
(* signature, or the write was lost), may bring them closer.               *)
DedupeWindowKept ==
  faults.reads = 0 =>
    \A i, j \in Intents :
      /\ i # j /\ sig[i] = sig[j]
      /\ acceptedAt[i] # Never /\ acceptedAt[i] <= acceptedAt[j]
      => \/ acceptedAt[j] - acceptedAt[i] >= Window
         \/ /\ faults.crashes > 0
            /\ \/ ~SignatureStored(i)
               \/ acceptedAt[i] = acceptedAt[j] /\ ~SignatureStored(j)

(* The window as test_signature_dedupe_survives_restart has it: when the   *)
(* rows of two intents of one signature both say submitted, their          *)
(* submissions are a window apart, restart or not.                         *)
DedupeSurvivesRestart ==
  faults.reads = 0 =>
    \A i, j \in Intents :
      /\ i # j /\ sig[i] = sig[j] /\ acceptedAt[i] <= acceptedAt[j]
      /\ db[i].status = "submitted" /\ db[j].status = "submitted"
      => acceptedAt[j] - acceptedAt[i] >= Window

(* One intent per idempotency key, in memory and in the table. *)
OneIntentPerKey ==
  faults.reads = 0 =>
    \A i, j \in Intents :
      /\ key[i] \in Keys /\ key[i] = key[j] => i = j
      /\ db[i].key \in Keys /\ db[i].key = db[j].key => i = j

(* However calls overlap, the intents submitted at one time exceed the     *)
(* limit by at most the number of calls: a refused intent that is retried  *)
(* is not counted as open, and each call counts before it awaits.          *)
OpenBound ==
  faults.reads = 0 =>
    Cardinality({i \in Intents : status[i] = "submitted"}) <= MaxOpen + Cardinality(Calls)

(* The table never knows of a submission that a running process, whose     *)
(* memory was read in full, does not: late writes of overlapping calls may *)
(* leave the row behind the memory, never ahead of it.                     *)
MemoryKnowsSubmissions ==
  up /\ faults.reads = 0 =>
    \A i \in Intents : db[i].status = "submitted" => status[i] = "submitted"

(* While the process runs a submitted intent stays submitted, whatever     *)
(* other calls of the same intent, begun earlier, decide or replay.        *)
SubmittedIsSticky ==
  [][up' => \A i \in Intents : status[i] = "submitted" => status'[i] = "submitted"]_vars
=============================================================================
