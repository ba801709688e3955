------------------------------- MODULE BookLog -------------------------------
(***************************************************************************)
(* BookEventLog (libs/db/book_log.py): the append-only log of raw book     *)
(* events.  Events are buffered on the loop and written in batches, by the *)
(* flush loop, by a reader before it reads and by stop().  A flush swaps   *)
(* the buffer out under the lock and writes after it: two steps.           *)
(*                                                                         *)
(* Events are numbered in the order in which they are logged.  The flush   *)
(* loop may time out at any moment, so flush_max_events, which only wakes  *)
(* it earlier, is left out.                                                *)
(***************************************************************************)
EXTENDS Integers, Sequences, FiniteSets

CONSTANTS
  MaxBuffer,    \* max_buffer_events
  Readers,      \* threads that read the log
  MaxReads      \* bound of the reads

ASSUME LogAssumption ==
  /\ MaxBuffer \in Nat \ {0} /\ MaxReads \in Nat
  /\ {"loop", "stop"} \cap Readers = {}

VARIABLES
  buffer,    \* _buffer
  batch,     \* the rows a flush has taken and not yet written
  stored,    \* raw_book_events, by id
  dropped,   \* dropped_events
  open,      \* stop() was not called
  read,      \* the reads
  \* what has happened
  logged,    \* how many events were logged
  evicted,   \* the events dropped from a full buffer
  lost,      \* the events of failed writes
  entwined,  \* two flushes were in flight together
  reads      \* how many reads began

past    == <<logged, evicted, lost, entwined, reads>>
logVars == <<buffer, batch, stored, dropped, open, read, past>>

-----------------------------------------------------------------------------
Flushers == {"loop", "stop"} \cup Readers
Numbers  == 1..logged
Gone     == evicted \cup lost
InSeq(s) == {s[n] : n \in DOMAIN s}
ReadType == [pc : {"idle", "flushed"}, upto : Nat, busy : BOOLEAN]
NoRead   == [pc |-> "idle", upto |-> 0, busy |-> FALSE]

LogTypeOK ==
  /\ buffer \in Seq(Nat) /\ stored \in Seq(Nat)
  /\ batch \in [Flushers -> Seq(Nat)]
  /\ dropped \in Nat /\ logged \in Nat
  /\ open \in BOOLEAN /\ entwined \in BOOLEAN
  /\ read \in [Readers -> ReadType]
  /\ evicted \in SUBSET Nat /\ lost \in SUBSET Nat
  /\ reads \in Nat
  /\ Len(buffer) <= MaxBuffer

LogInit ==
  /\ buffer = <<>> /\ stored = <<>> /\ batch = [f \in Flushers |-> <<>>]
  /\ dropped = 0 /\ open = TRUE
  /\ read = [r \in Readers |-> NoRead]
  /\ logged = 0 /\ evicted = {} /\ lost = {} /\ entwined = FALSE
  /\ reads = 0

(* log_event drops the oldest event of a full buffer. *)
BugLogEvent ==  \* drops the oldest event without counting it
  /\ logged' = logged + 1
  /\ IF Len(buffer) < MaxBuffer
     THEN buffer' = Append(buffer, logged') /\ UNCHANGED evicted
     ELSE buffer' = Append(Tail(buffer), logged') /\ evicted' = evicted \cup {Head(buffer)}
  /\ UNCHANGED <<batch, stored, dropped, open, read, lost, entwined, reads>>

LogEvent ==
  /\ logged' = logged + 1
  /\ IF Len(buffer) < MaxBuffer
     THEN buffer' = Append(buffer, logged') /\ UNCHANGED <<dropped, evicted>>
     ELSE /\ buffer' = Append(Tail(buffer), logged')
          /\ dropped' = dropped + 1
          /\ evicted' = evicted \cup {Head(buffer)}
  /\ UNCHANGED <<batch, stored, open, read, lost, entwined, reads>>

(* The first half of flush: take what is buffered, if anything. *)
InFlight(f) == \E g \in Flushers \ {f} : batch[g] # <<>>
Take(f) ==
  /\ batch[f] = <<>>
  /\ batch' = [batch EXCEPT ![f] = buffer]
  /\ buffer' = <<>>
  /\ entwined' = (entwined \/ (buffer # <<>> /\ InFlight(f)))

LoopFlushes ==
  /\ open /\ buffer # <<>> /\ Take("loop")
  /\ UNCHANGED <<stored, dropped, open, read, logged, evicted, lost, reads>>

(* The second half. *)
Writes(f) ==
  /\ batch[f] # <<>>
  /\ stored' = stored \o batch[f]
  /\ batch' = [batch EXCEPT ![f] = <<>>]
  /\ UNCHANGED <<buffer, dropped, open, read, past>>

(* The batch is a local variable: what cannot be written is gone.  A read  *)
(* fails with its flush.                                                   *)
WriteFails(f) ==
  /\ batch[f] # <<>>
  /\ lost' = lost \cup InSeq(batch[f])
  /\ batch' = [batch EXCEPT ![f] = <<>>]
  /\ read' = [r \in Readers |-> IF r = f THEN NoRead ELSE read[r]]
  /\ UNCHANGED <<buffer, stored, dropped, open, logged, evicted, entwined, reads>>

(* stop cancels the loop, whose thread may still be writing, and flushes.  *)
LogStops ==
  /\ open /\ open' = FALSE
  /\ Take("stop")
  /\ UNCHANGED <<stored, dropped, read, logged, evicted, lost, reads>>

(* read_events flushes, then selects. *)
ReadBegins(r) ==
  /\ read[r].pc = "idle" /\ reads < MaxReads
  /\ reads' = reads + 1
  /\ Take(r)
  /\ read' = [read EXCEPT ![r] = [pc |-> "flushed", upto |-> logged, busy |-> InFlight(r)]]
  /\ UNCHANGED <<stored, dropped, open, logged, evicted, lost>>

BugReadSelects(r) ==  \* does not wait for its own flush
  /\ read[r].pc = "flushed"
  /\ read' = [read EXCEPT ![r] = NoRead]
  /\ UNCHANGED <<buffer, batch, stored, dropped, open, past>>

ReadSelects(r) ==
  /\ read[r].pc = "flushed" /\ batch[r] = <<>>
  /\ read' = [read EXCEPT ![r] = NoRead]
  /\ UNCHANGED <<buffer, batch, stored, dropped, open, past>>

LogNext ==
  \/ LogEvent \/ LoopFlushes \/ LogStops
  \/ \E f \in Flushers : Writes(f) \/ WriteFails(f)
  \/ \E r \in Readers : ReadBegins(r) \/ ReadSelects(r)

LogSpec == LogInit /\ [][LogNext]_logVars

-----------------------------------------------------------------------------
Buffered == InSeq(buffer) \cup UNION {InSeq(batch[f]) : f \in Flushers}
Whole    == Gone = {} /\ ~entwined /\ Buffered = {}

(* Every logged event is stored, waits to be written, or is gone; none is  *)
(* twice in the log; what a full buffer dropped is counted, only a failed  *)
(* write loses events that are not.                                        *)
LogAccounts ==
  /\ Numbers = InSeq(stored) \cup Buffered \cup Gone
  /\ Len(stored) + Cardinality(Buffered \cup Gone) = logged
  /\ dropped = Cardinality(evicted)

(* A read sees everything that was logged before it and is not gone, if no *)
(* other flush is in flight when it begins.                                *)
ReadSeesLogged ==
  [][\A r \in Readers : ReadSelects(r) /\ ~read[r].busy =>
       1..read[r].upto \subseteq InSeq(stored) \cup Gone]_logVars
=============================================================================
