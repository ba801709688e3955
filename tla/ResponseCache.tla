---------------------------- MODULE ResponseCache ----------------------------
(***************************************************************************)
(* cached_api_response (apps/api/deps.py): a process-wide cache of the     *)
(* answers of slow endpoints, each with a time to live and a lock that     *)
(* lets one request at a time load it.  A write empties the cache and      *)
(* forgets the locks, also those that are in use.                          *)
(*                                                                         *)
(* What a loader returns is modelled by the number of writes it saw: the   *)
(* loaders read the services before their first await.                     *)
(***************************************************************************)
EXTENDS Integers, FiniteSets

CONSTANTS
  Keys,
  Requests,    \* request handlers that are reused, one call after another
  MaxEntries,  \* _API_RESPONSE_CACHE_MAX_ENTRIES
  MaxCalls     \* bound of the calls

ASSUME CacheAssumption ==
  /\ MaxEntries \in Nat \ {0} /\ MaxCalls \in Nat
  /\ IsFiniteSet(Keys) /\ "none" \notin Keys

VARIABLES
  cache,    \* _api_response_cache: key -> value and whether its time is over
  lock,     \* _api_response_locks: key -> lock
  req,      \* the calls of cached_api_response
  minted,   \* how many locks were made
  version,  \* how many writes there were
  \* what has happened
  crossed,  \* keys that were being loaded while a write emptied the cache
  dropped,  \* keys whose lock was forgotten while in use
  calls

cacheVars == <<cache, lock, req, minted, version, crossed, dropped, calls>>

-----------------------------------------------------------------------------
EntryType   == [value : Nat, over : BOOLEAN]
RequestType == [pc : {"idle", "waiting", "loading", "answered"}, key : Keys \cup {"none"},
                lock : Nat,
                floor : Nat,        \* the writes before it
                value : Nat,        \* what it has loaded or answered
                excused : BOOLEAN]  \* its key was crossed

NoCall == [pc |-> "idle", key |-> "none", lock |-> 0, floor |-> 0, value |-> 0,
           excused |-> FALSE]

CacheTypeOK ==
  /\ DOMAIN cache \subseteq Keys /\ cache \in [DOMAIN cache -> EntryType]
  /\ DOMAIN lock \subseteq Keys /\ lock \in [DOMAIN lock -> Nat]
  /\ req \in [Requests -> RequestType]
  /\ minted \in Nat /\ version \in Nat /\ calls \in Nat
  /\ crossed \subseteq Keys /\ dropped \subseteq Keys
  /\ Cardinality(DOMAIN cache) <= MaxEntries + 1

CacheInit ==
  /\ cache = [k \in {} |-> 0] /\ lock = [k \in {} |-> 0]
  /\ req = [r \in Requests |-> NoCall]
  /\ minted = 0 /\ version = 0 /\ calls = 0
  /\ crossed = {} /\ dropped = {}

-----------------------------------------------------------------------------
Without(f, S) == [k \in DOMAIN f \ S |-> f[k]]
With(f, k, v) == [j \in DOMAIN f \cup {k} |-> IF j = k THEN v ELSE f[j]]

Live(k)       == k \in DOMAIN cache /\ ~cache[k].over
InFlight(k)   == {r \in Requests : req[r].key = k /\ req[r].pc \in {"waiting", "loading"}}
Loaders(k)    == {r \in Requests : req[r].key = k /\ req[r].pc = "loading"}
Users(l)      == {r \in Requests : req[r].lock = l /\ req[r].pc \in {"waiting", "loading"}}
InUse(ks)     == {k \in ks \cap DOMAIN lock : Users(lock[k]) # {}}
StillUsed(ks) == {k \in ks : InFlight(k)' # {}}
Answer(r, k, v) ==
  [req EXCEPT ![r].pc = "answered", ![r].lock = 0, ![r].value = v,
              ![r].excused = k \in crossed]

(* The check without the lock.  A key without a lock gets a new one; a     *)
(* lock nobody uses is taken at once.                                      *)
Call(r, k) ==
  /\ req[r].pc \in {"idle", "answered"} /\ calls < MaxCalls
  /\ calls' = calls + 1

Called(r, k, pc, l, v) ==
  req' = [req EXCEPT ![r] = [pc |-> pc, key |-> k, lock |-> l, floor |-> version, value |-> v,
                             excused |-> k \in crossed]]

Hit(r, k) ==
  /\ Call(r, k) /\ Live(k)
  /\ Called(r, k, "answered", 0, cache[k].value)
  /\ UNCHANGED <<cache, lock, minted, version, crossed, dropped>>

Miss(r, k) ==
  /\ Call(r, k) /\ ~Live(k)
  /\ IF k \in DOMAIN lock
     THEN /\ Called(r, k, IF Users(lock[k]) = {} THEN "loading" ELSE "waiting", lock[k], version)
          /\ UNCHANGED <<lock, minted>>
     ELSE /\ Called(r, k, "loading", minted + 1, version)
          /\ lock' = With(lock, k, minted + 1) /\ minted' = minted + 1
  /\ UNCHANGED <<cache, version, crossed, dropped>>

(* A waiter gets the lock and checks again. *)
BugGranted(r) ==  \* does not wait for its turn
  req[r].pc = "waiting"

Granted(r) ==
  /\ req[r].pc = "waiting"
  /\ \A s \in Users(req[r].lock) : req[s].pc = "waiting"

HitAfterWait(r) ==
  /\ Granted(r) /\ Live(req[r].key)
  /\ req' = Answer(r, req[r].key, cache[req[r].key].value)
  /\ dropped' = StillUsed(dropped)
  /\ UNCHANGED <<cache, lock, minted, version, crossed, calls>>

LoadAfterWait(r) ==
  /\ Granted(r) /\ ~Live(req[r].key)
  /\ req' = [req EXCEPT ![r].pc = "loading", ![r].value = version]
  /\ UNCHANGED <<cache, lock, minted, version, crossed, dropped, calls>>

(* _evict_expired_api_cache_entries: entries whose time is over go with    *)
(* their locks, then those that end first while there are too many: what   *)
(* is about to be stored is not counted, and is never evicted.  Which end  *)
(* first depends on the times to live, and is left open.                   *)
Evictions(k) ==
  LET over  == {j \in DOMAIN cache \ {k} : cache[j].over}
      rest  == DOMAIN cache \ over
      extra == Cardinality(rest) - MaxEntries
  IN  {over \cup more : more \in {S \in SUBSET (rest \ {k}) :
         Cardinality(S) = IF extra > 0 THEN extra ELSE 0}}

Stored(r, k, gone) ==
  /\ cache' = With(Without(cache, gone), k, [value |-> req[r].value, over |-> FALSE])
  /\ lock' = Without(lock, gone)
  /\ dropped' = StillUsed(dropped \cup InUse(gone))

LoadEnds(r) ==
  /\ req[r].pc = "loading"
  /\ req' = Answer(r, req[r].key, req[r].value)
  /\ \E gone \in Evictions(req[r].key) : Stored(r, req[r].key, gone)
  /\ UNCHANGED <<minted, version, crossed, calls>>

LoadFails(r) ==
  /\ req[r].pc = "loading"
  /\ req' = [req EXCEPT ![r] = NoCall]
  /\ dropped' = StillUsed(dropped)
  /\ UNCHANGED <<cache, lock, minted, version, crossed, calls>>

Expires(k) ==
  /\ Live(k)
  /\ cache' = [cache EXCEPT ![k].over = TRUE]
  /\ UNCHANGED <<lock, req, minted, version, crossed, dropped, calls>>

(* A write and clear_api_response_cache, with no await between them.  A    *)
(* key that nobody loads has no earlier value left.                        *)
BugClears ==  \* keeps the entries whose lock is in use
  /\ version' = version + 1
  /\ cache' = Without(cache, Keys \ InUse(Keys)) /\ lock' = Without(lock, Keys \ InUse(Keys))
  /\ crossed' = {k \in Keys : Loaders(k) # {}}
  /\ UNCHANGED <<req, minted, dropped, calls>>

Clears ==
  /\ version' = version + 1
  /\ cache' = Without(cache, Keys) /\ lock' = Without(lock, Keys)
  /\ crossed' = {k \in Keys : Loaders(k) # {}}
  /\ dropped' = dropped \cup InUse(Keys)
  /\ UNCHANGED <<req, minted, calls>>

CacheNext ==
  \/ \E r \in Requests :
       \/ \E k \in Keys : Hit(r, k) \/ Miss(r, k)
       \/ HitAfterWait(r) \/ LoadAfterWait(r) \/ LoadEnds(r) \/ LoadFails(r)
  \/ \E k \in Keys : Expires(k)

-----------------------------------------------------------------------------
(* A key has one loader at a time until its lock is forgotten while it is  *)
(* in use: by a write, or by the store of another key (the purpose of      *)
(* _api_response_locks).                                                   *)
OneLoader == \A k \in Keys \ dropped : Cardinality(Loaders(k)) <= 1

(* An answer shows every write that was over when the request came, but    *)
(* for a key that was being loaded when a write emptied the cache: that    *)
(* loader stores what it saw before the write.                             *)
AnswerIsRecent ==
  \A r \in Requests :
    req[r].pc = "answered" /\ ~req[r].excused => req[r].value >= req[r].floor
=============================================================================
