------------------------------ MODULE ApiWrites ------------------------------
(***************************************************************************)
(* The API server: requests that are answered from the response cache      *)
(* beside those that change something - the strategy instances or the      *)
(* trade journal - and empty the cache before they answer.                 *)
(***************************************************************************)
EXTENDS StrategyManager, TradeJournal

apiVars == <<vars, journalVars>>

ApiInit == Init /\ JournalInit

(* A journal request ends on the loop, after its thread. *)
JournalAnswers(h) == Responds(h) /\ Clears /\ UNCHANGED <<managerVars, writes>>

ApiNext ==
  \/ Next /\ UNCHANGED journalVars
  \/ \E h \in Editors :
       \/ Begins(h) /\ Operates /\ UNCHANGED <<cacheVars, managerVars>>
       \/ (Updates(h) \/ UpdateFails(h)) /\ UNCHANGED vars
       \/ JournalAnswers(h)

ApiSpec == ApiInit /\ [][ApiNext]_apiVars
=============================================================================
