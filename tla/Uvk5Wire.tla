------------------------------ MODULE Uvk5Wire ------------------------------
(***************************************************************************)
(* The serial link to a UV-K5 dock (backends/uvk5/transport.py): callers   *)
(* that hold the wire for one question and its answer, the reader thread   *)
(* that hands answers out, the one-shot reconnect that supersedes a dead   *)
(* reader, and close.                                                      *)
(*                                                                         *)
(* A handle is the number of the opening that made it; its stop event is   *)
(* made with it and bears its number.  An answer is the register it tells  *)
(* of with the question it answers, which no match predicate can see.      *)
(***************************************************************************)
EXTENDS Naturals, FiniteSets

CONSTANTS
    Callers,     \* threads that call request
    Repairers,   \* threads that call reconnect
    Registers,   \* what a match predicate tells apart
    MaxHandles,  \* bound on the times the tty is opened
    MaxAsked,    \* bound on the frames written
    NoCaller,    \* the wire is free
    WireFaults   \* what may go wrong

\* "unplug": a read raises though its handle is open.  "reply_lost": an answer
\* never comes.  "close_in_reconnect": close() overlaps a reconnect.
FaultKinds == {"unplug", "reply_lost", "close_in_reconnect"}

WireAssumption ==
    /\ NoCaller \notin Callers
    /\ MaxHandles \in Nat \ {0} /\ MaxAsked \in Nat
    /\ WireFaults \subseteq FaultKinds

VARIABLES
    port,    \* the fields _cond guards: closed, error, gen, handle; and the reader
    opened,  \* the handles whose tty is open
    stopped, \* the handles whose stop event is set
    readers, \* the reader threads, in the order they were spawned
    wire,    \* who holds _wire
    listed,  \* the callers in _waiters
    call,    \* each caller's request
    line,    \* answers of the radio still under way
    asked,   \* frames written so far
    repair,  \* where each reconnect is: "idle", "joining", "spawning"
    closing  \* where close is: "no", "flagged", "stopped", "done"

vars == <<port, opened, stopped, readers, wire, listed, call, line, asked, repair, closing>>
portVars == <<port, opened, stopped, readers, repair, closing>>
callVars == <<wire, listed, call, line, asked>>

Handles == 1 .. MaxHandles
Answers == [register : Registers, question : 1 .. MaxAsked, handle : Handles]
NoAnswer == [register |-> NoCaller, question |-> 0, handle |-> 0]
Idle == [pc |-> "idle", register |-> NoCaller, question |-> 0, got |-> NoAnswer]
Unborn == [gen |-> 0, handle |-> 0, st |-> "unborn"]
Spawned == {i \in Handles : readers[i].st # "unborn"}

Init ==
    /\ port = [closed |-> FALSE, error |-> FALSE, gen |-> 1, handle |-> 1, reader |-> 1]
    /\ opened = {1} /\ stopped = {}
    /\ readers = [i \in Handles |->
          IF i = 1 THEN [gen |-> 1, handle |-> 1, st |-> "running"] ELSE Unborn]
    /\ wire = NoCaller /\ listed = {} /\ line = {} /\ asked = 0
    /\ call = [c \in Callers |-> Idle]
    /\ repair = [r \in Repairers |-> "idle"]
    /\ closing = "no"

-----------------------------------------------------------------------------
(* request.                                                                *)

\* A call is only begun when its frame still fits the bound.
Fits == asked + Cardinality({c \in Callers : call[c].pc \in {"wanting", "sending"}}) < MaxAsked

Wants(c, reg) ==
    /\ call[c].pc = "idle" /\ Fits
    /\ call' = [call EXCEPT ![c] = [Idle EXCEPT !.pc = "wanting", !.register = reg]]
    /\ UNCHANGED <<portVars, wire, listed, line, asked>>

\* The wire is taken at once, or after a bounded wait, or the call gives up.
GivesUp(c) ==
    /\ call[c].pc = "wanting" /\ wire # NoCaller
    /\ call' = [call EXCEPT ![c] = Idle]
    /\ UNCHANGED <<portVars, wire, listed, line, asked>>

\* With the wire the waiter is registered, unless the port has failed or is
\* closed: then the wire goes back.
Takes(c) ==
    /\ call[c].pc = "wanting" /\ wire = NoCaller
    /\ IF port.closed \/ port.error
       THEN call' = [call EXCEPT ![c] = Idle] /\ UNCHANGED <<wire, listed>>
       ELSE /\ call' = [call EXCEPT ![c].pc = "sending"]
            /\ wire' = c /\ listed' = listed \cup {c}
    /\ UNCHANGED <<portVars, line, asked>>

\* The two finally clauses: the waiter leaves the list, the wire is free.
Frees(c, next) ==
    /\ call' = [call EXCEPT ![c] = next]
    /\ listed' = listed \ {c}
    /\ wire' = NoCaller

\* The frame goes out on whatever handle is current; the radio will answer.
Sends(c) ==
    /\ call[c].pc = "sending"
    /\ ~port.closed /\ ~port.error /\ port.handle \in opened
    /\ asked' = asked + 1
    /\ line' = line \cup
          {[register |-> call[c].register, question |-> asked + 1, handle |-> port.handle]}
    /\ call' = [call EXCEPT ![c].pc = "waiting", ![c].question = asked + 1]
    /\ UNCHANGED <<portVars, wire, listed>>

\* send raises: closed, failed, or the write itself.
SendRaises(c) ==
    /\ call[c].pc = "sending"
    /\ port.closed \/ port.error \/ port.handle \notin opened
    /\ Frees(c, Idle)
    /\ UNCHANGED <<portVars, line, asked>>

Answered(c) ==
    /\ call[c].pc = "waiting" /\ call[c].got # NoAnswer
    /\ Frees(c, Idle)
    /\ UNCHANGED <<portVars, line, asked>>

\* The stored error, the closing, or the deadline ends the wait.
WaitRaises(c) ==
    /\ call[c].pc = "waiting" /\ call[c].got = NoAnswer
    /\ Frees(c, Idle)
    /\ UNCHANGED <<portVars, line, asked>>

\* connect sends its probe again while its budget, here the bound, lasts.
ProbesAgain(c) ==
    /\ call[c].pc = "waiting" /\ call[c].got = NoAnswer /\ ~port.closed /\ ~port.error /\ Fits
    /\ Frees(c, [Idle EXCEPT !.pc = "wanting", !.register = call[c].register])
    /\ UNCHANGED <<portVars, line, asked>>

-----------------------------------------------------------------------------
(* The reader threads.                                                     *)

\* The first waiter that is not served and whose predicate is true of the
\* answer gets it; the inbox, which only drain_inbox looks at, gets the rest.
Dispatch(a, gen) ==
    LET fits == {c \in listed : call[c].got = NoAnswer /\ call[c].register = a.register}
    IN  IF gen # port.gen \/ fits = {} THEN UNCHANGED call
        ELSE \E c \in fits : call' = [call EXCEPT ![c].got = a]

\* A read that is under way returns, whatever became of the handle, the stop
\* event or the generation since it began.
Reads(i, a) ==
    /\ readers[i].st = "running"
    /\ a \in line /\ a.handle = readers[i].handle
    /\ line' = line \ {a}
    /\ Dispatch(a, readers[i].gen)
    /\ UNCHANGED <<portVars, wire, listed, asked>>

\* A read raises because the handle was closed under it or the cable pulled.
ReadRaises(i) ==
    /\ readers[i].st = "running"
    /\ readers[i].handle \notin opened \/ "unplug" \in WireFaults
    /\ readers' = [readers EXCEPT ![i].st = "over"]
    /\ port' = [port EXCEPT !.error = @ \/ readers[i].gen = port.gen]
    /\ UNCHANGED <<opened, stopped, repair, closing, callVars>>

\* The loop's tests: stopped, or superseded.
ReaderLeaves(i) ==
    /\ readers[i].st = "running"
    /\ readers[i].handle \in stopped \/ readers[i].gen # port.gen
    /\ readers' = [readers EXCEPT ![i].st = "over"]
    /\ UNCHANGED <<port, opened, stopped, repair, closing, callVars>>

ReplyLost(a) ==
    /\ "reply_lost" \in WireFaults /\ a \in line
    /\ line' = line \ {a}
    /\ UNCHANGED <<portVars, wire, listed, call, asked>>

-----------------------------------------------------------------------------
(* reconnect.                                                              *)

Alive == readers[port.reader].st = "running" /\ ~port.error

\* A dead reader: stop it, close the handle it had.  The join is bounded, so
\* the reader may still run when it ends.
Reconnect(r) ==
    /\ repair[r] = "idle" /\ ~port.closed /\ ~Alive
    /\ stopped' = stopped \cup {port.handle}
    /\ opened' = opened \ {port.handle}
    /\ repair' = [repair EXCEPT ![r] = "joining"]
    /\ UNCHANGED <<port, readers, closing, callVars>>

\* The tty is claimed exclusively: to open it twice is EBUSY.
ReopenRaises(r) ==
    /\ repair[r] = "joining"
    /\ repair' = [repair EXCEPT ![r] = "idle"]
    /\ UNCHANGED <<port, opened, stopped, readers, closing, callVars>>

\* The new handle, generation and stop event, under _cond; the waiters of the
\* old generation are dropped from the list.
Installs(r) ==
    /\ repair[r] = "joining" /\ opened = {} /\ port.gen < MaxHandles
    /\ port' = [port EXCEPT !.gen = @ + 1, !.handle = port.gen + 1, !.error = FALSE]
    /\ opened' = {port.gen + 1}
    /\ listed' = {}
    /\ repair' = [repair EXCEPT ![r] = "spawning"]
    /\ UNCHANGED <<stopped, readers, closing, wire, call, line, asked>>

Spawns(r) ==
    /\ repair[r] = "spawning"
    /\ LET i == Cardinality(Spawned) + 1 IN
       /\ readers' = [readers EXCEPT ![i] =
             [gen |-> port.gen, handle |-> port.handle, st |-> "running"]]
       /\ port' = [port EXCEPT !.reader = i]
    /\ repair' = [repair EXCEPT ![r] = "idle"]
    /\ UNCHANGED <<opened, stopped, closing, callVars>>

-----------------------------------------------------------------------------
(* close.                                                                  *)

CloseBegins ==
    /\ closing = "no"
    /\ (\A r \in Repairers : repair[r] = "idle") \/ "close_in_reconnect" \in WireFaults
    /\ port' = [port EXCEPT !.closed = TRUE]
    /\ closing' = "flagged"
    /\ UNCHANGED <<opened, stopped, readers, repair, callVars>>

CloseStops ==
    /\ closing = "flagged"
    /\ stopped' = stopped \cup {port.handle}
    /\ closing' = "stopped"
    /\ UNCHANGED <<port, opened, readers, repair, callVars>>

\* After a bounded join.
CloseEnds ==
    /\ closing = "stopped"
    /\ opened' = opened \ {port.handle}
    /\ closing' = "done"
    /\ UNCHANGED <<port, stopped, readers, repair, callVars>>

-----------------------------------------------------------------------------
CallSteps(c) ==
    \/ GivesUp(c) \/ Takes(c) \/ Sends(c) \/ SendRaises(c)
    \/ Answered(c) \/ WaitRaises(c) \/ ProbesAgain(c)

Next ==
    \/ \E c \in Callers, reg \in Registers : Wants(c, reg)
    \/ \E c \in Callers : CallSteps(c)
    \/ \E i \in Handles, a \in line : Reads(i, a)
    \/ \E i \in Handles : ReadRaises(i) \/ ReaderLeaves(i)
    \/ \E a \in line : ReplyLost(a)
    \/ \E r \in Repairers : Reconnect(r) \/ ReopenRaises(r) \/ Installs(r) \/ Spawns(r)
    \/ CloseBegins \/ CloseStops \/ CloseEnds

Spec == Init /\ [][Next]_vars

\* A caller's own steps are timed: no wait of it is longer than its deadline.
Fairness == \A c \in Callers : WF_vars(CallSteps(c))
FairSpec == Spec /\ Fairness

-----------------------------------------------------------------------------
TypeOK ==
    /\ port \in [closed : BOOLEAN, error : BOOLEAN, gen : Handles, handle : Handles,
                 reader : Handles]
    /\ opened \subseteq Handles /\ stopped \subseteq Handles
    /\ readers \in [Handles -> [gen : Handles \cup {0}, handle : Handles \cup {0},
                                st : {"unborn", "running", "over"}]]
    /\ wire \in Callers \cup {NoCaller}
    /\ listed \subseteq Callers
    /\ call \in [Callers -> [pc : {"idle", "wanting", "sending", "waiting"},
                             register : Registers \cup {NoCaller},
                             question : 0 .. MaxAsked,
                             got : Answers \cup {NoAnswer}]]
    /\ line \subseteq Answers
    /\ asked \in 0 .. MaxAsked
    /\ repair \in [Repairers -> {"idle", "joining", "spawning"}]
    /\ closing \in {"no", "flagged", "stopped", "done"}

\* A reader that a reconnect has superseded is harmless: no waiter is served
\* from a handle that is not the current one, and the stored error is the death
\* of a reader of the current generation (_dispatch, _fail).
StragglersAreShed ==
    /\ \A c \in listed : call[c].got # NoAnswer => call[c].got.handle = port.handle
    /\ port.error => \E i \in Spawned : readers[i].gen = port.gen /\ readers[i].st = "over"

\* Whatever reconnect and close did in turn, at most one reader takes bytes off
\* the current handle, and after a close no tty is left open.
TtyHasOneOwner ==
    /\ Cardinality({i \in Spawned : readers[i].st = "running" /\ readers[i].gen = port.gen}) <= 1
    /\ Cardinality(opened) <= 1
    /\ closing = "done" => opened = {}

\* Only the holder of the wire has a frame outstanding, and every call gives it
\* back: by an answer, the stored error, the closing or the deadline.
WireHolderAsks ==
    /\ \A c \in Callers : call[c].pc \in {"sending", "waiting"} <=> wire = c
    /\ listed \subseteq {wire}
InCall(c) == call[c].pc # "idle"
CallsEnd == \A c \in Callers : InCall(c) ~> ~InCall(c)

\* What request's docstring says: a reply can only reach the caller that asked
\* for it.  It does not hold: the match cannot tell a late answer.
ReplyReachesItsAsker ==
    \A c \in Callers : call[c].got # NoAnswer =>
        call[c].got.question = call[c].question

-----------------------------------------------------------------------------
(* For any callers, repairers and faults: the number of a handle is the    *)
(* generation it belongs to, a call that holds no wire has nothing, and    *)
(* readers are spawned in order.                                           *)
Replies == [register : Registers \cup {NoCaller}, question : Nat, handle : Nat]

TypedPort ==
    /\ port \in [closed : BOOLEAN, error : BOOLEAN, gen : Handles, handle : Handles, reader : Nat]
    /\ readers \in [Handles -> [gen : Nat, handle : Nat, st : {"unborn", "running", "over"}]]
    /\ repair \in [Repairers -> {"idle", "joining", "spawning"}]

TypedCalls ==
    /\ call \in [Callers -> [pc : {"idle", "wanting", "sending", "waiting"},
                             register : Registers \cup {NoCaller},
                             question : Nat, got : Replies \cup {NoAnswer}]]
    /\ line \subseteq Replies /\ asked \in Nat
    /\ wire \in Callers \cup {NoCaller} /\ listed \subseteq Callers

Numbered ==
    /\ port.gen = port.handle
    /\ \A i \in Spawned : readers[i].gen = readers[i].handle /\ readers[i].gen <= port.gen

InOrder == \E k \in 0 .. MaxHandles : Spawned = 1 .. k

Clean == \A c \in Callers : call[c].pc \in {"idle", "wanting"} => call[c].got = NoAnswer

Calls == TypedCalls /\ Clean /\ WireHolderAsks
Port == TypedPort /\ Numbered /\ InOrder
IInv == Calls /\ Port /\ StragglersAreShed

\* Who serves whom: the half of StragglersAreShed that callers can disturb.
Current == \A c \in listed : call[c].got # NoAnswer => call[c].got.handle = port.handle
Blamed == port.error => \E i \in Spawned : readers[i].gen = port.gen /\ readers[i].st = "over"

-----------------------------------------------------------------------------
(* Reconnects one at a time, and close not beside one.                     *)
Owned ==
    /\ opened \subseteq {port.handle}
    /\ \A i, j \in Spawned : readers[i].gen = port.gen /\ readers[j].gen = port.gen => i = j
    /\ \A r \in Repairers : repair[r] = "spawning" =>
          \A i \in Spawned : readers[i].gen # port.gen
    /\ closing # "no" => port.closed /\ \A r \in Repairers : repair[r] = "idle"
    /\ closing = "done" => opened = {}
=============================================================================
