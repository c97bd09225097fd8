------------------------------- MODULE Ledger -------------------------------
(***************************************************************************)
(* The station ledger: the drain task hands every event to EventLog        *)
(* (eventlog/log.py), whose records go through the bounded hand-off of     *)
(* ThreadedSink (eventlog/sink.py) to the one thread that writes the file. *)
(* A record is known by its number; the disk may be slow, full or gone.    *)
(***************************************************************************)
EXTENDS Naturals, Sequences, FiniteSets

CONSTANTS
    QueueSize,  \* DEFAULT_LEDGER_QUEUE_MAXSIZE
    Keyers,     \* who publishes ptt events: POST /ptt, the browser talker
    MaxEvents,  \* bound on the events
    MaxTime,    \* bound on the clock
    DiskFaults  \* {"full", "hung"}

VARIABLES
    now,     \* the clock
    keyed,   \* since when each keyer is keyed, None when it is not
    hub,     \* the drain's queue: events published and not handled
    keyupAt, \* _keyup_at
    queue,   \* the hand-off queue
    pen,     \* the writer: waiting, with a record, hung, or at its end
    count,   \* events published, records handled, dropped, errors
    file,    \* records written
    at       \* the lifespan: up, draining, closing, closed

vars == <<now, keyed, hub, keyupAt, queue, pen, count, file, at>>

None == MaxTime + 1
Stop == [id |-> 0, type |-> "stop", took |-> None, true |-> None]

Init ==
    /\ now = 0 /\ keyed = [k \in Keyers |-> None] /\ hub = << >> /\ keyupAt = None
    /\ queue = << >> /\ pen = [at |-> "get", record |-> Stop] /\ file = << >> /\ at = "up"
    /\ count = [published |-> 0, handled |-> 0, dropped |-> 0, errors |-> 0]

Ticks == now < MaxTime /\ now' = now + 1 /\ UNCHANGED <<keyed, hub, keyupAt, queue, pen, count, file, at>>

(***************************************************************************)
(* The events: the line goes up and down, and there is anything else.      *)
(***************************************************************************)

Publishes(type, true) ==
    /\ at = "up" /\ count.published < MaxEvents
    /\ hub' = Append(hub, [type |-> type, ts |-> now, true |-> true])
    /\ count' = [count EXCEPT !.published = @ + 1]
    /\ UNCHANGED <<now, keyupAt, queue, pen, file, at>>

Keys(k) ==
    IF keyed[k] = None THEN keyed' = [keyed EXCEPT ![k] = now] /\ Publishes("up", None)
    ELSE keyed' = [keyed EXCEPT ![k] = None] /\ Publishes("down", now - keyed[k])

Else == UNCHANGED keyed /\ Publishes("else", None)

(***************************************************************************)
(* The loop's side.                                                        *)
(***************************************************************************)

\* _record_for(): the key-down of a pair has its duration, most events leave
\* a record, some leave none.
_record_for(event) ==
    [id |-> count.handled + 1, type |-> event.type, true |-> event.true,
     took |-> IF event.type = "down" /\ keyupAt # None THEN now - keyupAt ELSE None]

\* ThreadedSink.write(): the newest goes when the queue is full.
write(record) ==
    /\ queue' = IF Len(queue) < QueueSize THEN Append(queue, record) ELSE queue
    /\ count' = [count EXCEPT !.handled = @ + 1,
                              !.dropped = IF Len(queue) < QueueSize THEN @ ELSE @ + 1]

\* The drain runs as soon as there is an event: the clock does not move before.
handle ==
    /\ hub # << >> /\ at \in {"up", "draining"}
    /\ hub' = Tail(hub) /\ write(_record_for(Head(hub)))
    /\ keyupAt' = CASE Head(hub).type = "up" -> now
                    [] Head(hub).type = "down" -> None
                    [] OTHER -> keyupAt
    /\ UNCHANGED <<now, keyed, pen, file, at>>

\* The shutdown cancels the drain, empties the queue itself and closes the sink.
Shutdown ==
    /\ at = "up" /\ at' = "draining"
    /\ UNCHANGED <<now, keyed, hub, keyupAt, queue, pen, count, file>>

close ==
    /\ at = "draining" /\ hub = << >> /\ at' = "closing"
    /\ queue' = IF Len(queue) < QueueSize THEN Append(queue, Stop) ELSE queue
    /\ UNCHANGED <<now, keyed, hub, keyupAt, pen, count, file>>

\* The join: the writer is done, or what is queued is given up.
Joined ==
    /\ at = "closing" /\ at' = "closed"
    /\ \/ pen.at = "done" /\ UNCHANGED count
       \/ /\ pen.at = "hung" \/ (pen.at = "get" /\ queue = << >>)
          /\ count' = [count EXCEPT !.dropped = @ + Len(queue)]
    /\ UNCHANGED <<now, keyed, hub, keyupAt, queue, pen, file>>

(***************************************************************************)
(* _pump(), the writer thread.                                             *)
(***************************************************************************)

Takes ==
    /\ pen.at = "get" /\ queue # << >> /\ queue' = Tail(queue)
    /\ pen' = IF Head(queue) = Stop THEN [pen EXCEPT !.at = "done"]
              ELSE [at |-> "write", record |-> Head(queue)]
    /\ UNCHANGED <<now, keyed, hub, keyupAt, count, file, at>>

Writes ==
    /\ pen.at = "write" /\ pen' = [pen EXCEPT !.at = "get"]
    /\ \/ file' = Append(file, pen.record) /\ UNCHANGED count
       \/ /\ "full" \in DiskFaults
          /\ count' = [count EXCEPT !.errors = @ + 1] /\ UNCHANGED file
    /\ UNCHANGED <<now, keyed, hub, keyupAt, queue, at>>

Hangs ==
    /\ "hung" \in DiskFaults /\ pen.at = "write" /\ pen' = [pen EXCEPT !.at = "hung"]
    /\ UNCHANGED <<now, keyed, hub, keyupAt, queue, count, file, at>>

Next ==
    \/ (hub = << >> /\ Ticks) \/ (\E k \in Keyers : Keys(k)) \/ Else \/ handle
    \/ Shutdown \/ close \/ Joined \/ Takes \/ Writes \/ Hangs

Spec == Init /\ [][Next]_vars
FairSpec ==
    Spec /\ WF_vars(handle) /\ WF_vars(close) /\ WF_vars(Joined) /\ WF_vars(Takes) /\ WF_vars(Writes)

TypeOK ==
    /\ now \in 0 .. MaxTime /\ keyupAt \in 0 .. None /\ Len(queue) <= QueueSize
    /\ pen.at \in {"get", "write", "hung", "done"}
    /\ count \in [published : 0 .. MaxEvents, handled : 0 .. MaxEvents, dropped : Nat, errors : Nat]
    /\ at \in {"up", "draining", "closing", "closed"}

\* The file keeps the order of the events, and no record is written twice.
FileInOrder == \A i, j \in DOMAIN file : i < j => file[i].id < file[j].id

\* What is lost is counted: a closed ledger has every record it was handed in
\* the file, among the errors or among the dropped.
LossIsCounted == at = "closed" => Len(file) + count.errors + count.dropped = count.handled

\* The key-down of the file has the time its keyer was keyed for.
DurationIsTrue ==
    \A i \in DOMAIN file : file[i].type = "down" => file[i].took = file[i].true

\* Once records are dropped the file ends: what it holds is a prefix of history.
FileIsPrefix == count.errors = 0 => \A i \in DOMAIN file : file[i].id = i

\* A shutdown closes the ledger, whatever the disk does.
Draining == at = "draining"
Closed == at = "closed"
ShutdownEnds == Draining ~> Closed
-----------------------------------------------------------------------------
(* Why: what is in the hub happened now, so that the time the log keeps is  *)
(* one keyer's after the events before it; and the records come in order    *)
(* through the queue and the pen into the file.                             *)
LedgerAssumption == {QueueSize, MaxTime, MaxEvents} \subseteq Nat
OneKeyer == \A j, k \in Keyers : j = k

Types == {"up", "down", "else"}
Records == [id : Nat, type : Types \cup {"stop"}, true : 0 .. None, took : 0 .. None]
Typed ==
    /\ now \in 0 .. MaxTime /\ keyed \in [Keyers -> (0 .. now) \cup {None}]
    /\ keyupAt \in (0 .. now) \cup {None}
    /\ hub \in Seq([type : Types, ts : 0 .. MaxTime, true : 0 .. None])
    /\ queue \in Seq(Records) /\ file \in Seq(Records)
    /\ pen \in [at : {"get", "write", "hung", "done"}, record : Records]
    /\ count \in [published : Nat, handled : Nat, dropped : Nat, errors : Nat]

\* since[i]: since when the line is up after the first i events of the hub.
Timeline(since) ==
    /\ since[0] = keyupAt
    /\ \A i \in 1 .. Len(hub) :
          /\ hub[i].type = "up" => since[i] = now
          /\ hub[i].type = "else" => since[i] = since[i - 1]
          /\ hub[i].type = "down" =>
                since[i] = None /\ since[i - 1] # None /\ hub[i].true = now - since[i - 1]
HubIsOfNow ==
    \E since \in [0 .. Len(hub) -> (0 .. now) \cup {None}] :
        Timeline(since) /\ \A k \in Keyers : keyed[k] = since[Len(hub)]

InPen == pen.at \in {"write", "hung"}
Sound(record) ==
    record.id \in 1 .. count.handled /\ (record.type = "down" => record.took = record.true)
RecordsAreSound ==
    /\ \A i \in DOMAIN queue : queue[i] = Stop \/ Sound(queue[i])
    /\ InPen => Sound(pen.record)
    /\ \A i \in DOMAIN file : Sound(file[i])
RecordsAreInOrder ==
    /\ \A i, j \in DOMAIN queue : i < j => queue[i] # Stop /\ (queue[j] = Stop \/ queue[i].id < queue[j].id)
    /\ \A i \in DOMAIN queue : queue[i] = Stop => at \in {"closing", "closed"}
    /\ \A j \in DOMAIN queue : queue[j] # Stop =>
          /\ InPen => pen.record.id < queue[j].id
          /\ \A i \in DOMAIN file : file[i].id < queue[j].id
    /\ InPen => \A i \in DOMAIN file : file[i].id < pen.record.id

IInv == Typed /\ HubIsOfNow /\ RecordsAreSound /\ RecordsAreInOrder /\ FileInOrder
=============================================================================
