--------------------------- MODULE StrategyManager ---------------------------
(***************************************************************************)
(* StrategyManagerService (modules/strategy_manager/service.py) behind its *)
(* endpoints (apps/api/main.py), each of which empties the response cache  *)
(* when the operation returns.  Nothing in an operation suspends it, so it *)
(* and the clearing are one step, but for the two strategies whose start() *)
(* is their scanning loop: it does not return before stop() is called.     *)
(***************************************************************************)
EXTENDS ResponseCache

CONSTANTS
  Instances,
  Scanners,   \* instances of us_insider_cluster_buy and altcoin_retail_crowding
  Seeded,     \* the default instances of the templates
  MaxWrites   \* bound of the operations

ASSUME ManagerAssumption ==
  /\ Scanners \subseteq Instances /\ Seeded \subseteq Instances
  /\ MaxWrites \in Nat

VARIABLES
  status,     \* of the instances there are
  held,       \* StrategyInstanceRecord.strategy
  alive,      \* the strategies that run (_running)
  made,       \* how many strategies were made
  writes      \* how many operations there were

managerVars == <<status, held, alive, made>>
vars        == <<cacheVars, managerVars, writes>>

-----------------------------------------------------------------------------
Strategy == [of : Instances, n : Nat]

TypeOK ==
  /\ CacheTypeOK
  /\ status \in [Instances -> {"absent", "stopped", "running"}]
  /\ held \in [Instances -> Nat]
  /\ alive \subseteq Strategy
  /\ made \in Nat /\ writes \in Nat

Init ==
  /\ CacheInit
  /\ status = [i \in Instances |-> IF i \in Seeded THEN "stopped" ELSE "absent"]
  /\ held = [i \in Instances |-> 0]
  /\ alive = {} /\ made = 0 /\ writes = 0

-----------------------------------------------------------------------------
Present(i) == status[i] # "absent"
Operates   == writes < MaxWrites /\ writes' = writes + 1

(* create_instance makes up a new id: none comes back. *)
CreateInstance(i) ==
  /\ Operates /\ ~Present(i)
  /\ status' = [status EXCEPT ![i] = "stopped"]
  /\ Clears /\ UNCHANGED <<held, alive, made>>

(* start_instance makes a strategy, starts it and then keeps it. *)
Makes(i) ==
  /\ made' = made + 1
  /\ alive' = alive \cup {[of |-> i, n |-> made']}

BugStartInstance(i) ==  \* starts what is running
  /\ Operates /\ Present(i) /\ i \notin Scanners
  /\ Makes(i) /\ held' = [held EXCEPT ![i] = made']
  /\ status' = [status EXCEPT ![i] = "running"]
  /\ Clears

StartInstance(i) ==
  /\ Operates /\ Present(i) /\ i \notin Scanners
  /\ IF status[i] = "running" THEN UNCHANGED managerVars
     ELSE /\ Makes(i) /\ held' = [held EXCEPT ![i] = made']
          /\ status' = [status EXCEPT ![i] = "running"]
  /\ Clears

(* The call is never heard of again: the strategy is not kept, the status  *)
(* is not set, and the cache is not emptied.                               *)
StartScanner(i) ==
  /\ Operates /\ Present(i) /\ i \in Scanners /\ status[i] # "running"
  /\ Makes(i)
  /\ UNCHANGED <<cacheVars, status, held>>

(* stop_instance stops the strategy the instance holds. *)
Stopped(i) == alive' = alive \ {[of |-> i, n |-> held[i]]}

StopInstance(i) ==
  /\ Operates /\ Present(i)
  /\ Stopped(i) /\ held' = [held EXCEPT ![i] = 0]
  /\ status' = [status EXCEPT ![i] = "stopped"]
  /\ Clears /\ UNCHANGED made

DeleteInstance(i) ==
  /\ Operates /\ Present(i)
  /\ IF status[i] = "running" THEN Stopped(i) /\ held' = [held EXCEPT ![i] = 0]
     ELSE UNCHANGED <<alive, held>>
  /\ status' = [status EXCEPT ![i] = "absent"]
  /\ Clears /\ UNCHANGED made

Operations ==
  \E i \in Instances :
    CreateInstance(i) \/ StartInstance(i) \/ StartScanner(i) \/ StopInstance(i)
    \/ DeleteInstance(i)

Next ==
  \/ Operations
  \/ CacheNext /\ UNCHANGED <<managerVars, writes>>

Spec == Init /\ [][Next]_vars

-----------------------------------------------------------------------------
(* A strategy that runs is the one its running instance holds, so that     *)
(* stop ends it, unless it is a scanner: a scanner runs from the moment    *)
(* its start is called, nothing holds it, and no operation ends it.        *)
OnlyScannersLeak ==
  /\ \A s \in alive : s.of \notin Scanners => status[s.of] = "running" /\ held[s.of] = s.n
  /\ \A i \in Instances : status[i] = "running" => [of |-> i, n |-> held[i]] \in alive
=============================================================================
