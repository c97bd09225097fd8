----------------------------- MODULE DstarLink ------------------------------
(***************************************************************************)
(* The D-STAR link: connect and disconnect of dstar/manager.py, awaited by *)
(* POST /dstar/link, POST /dstar/unlink and the lifespan, over the start,  *)
(* stop and teardown of the one bridge (dstar/bridge.py), which holds the  *)
(* DV Dongle, the gateway's socket, its tasks and the receive demand.      *)
(***************************************************************************)
EXTENDS Naturals, FiniteSets

CONSTANTS
    Reflectors, NoReflector,
    Requests,      \* requests in flight
    MaxCalls,      \* bound on the requests made
    MaxOvers,      \* bound on the overs
    LinkFaults,    \* {"no_dongle", "start_fails"}
    Overlaps       \* requests overlap

VARIABLES
    running,  \* _running
    mode,     \* _mode: "idle" or an over
    has,      \* what the bridge holds: dongle, handlers, socket, tasks, receive
    active,   \* the manager's _active
    linked,   \* the reflector the gateway was last told
    call,     \* the request of each requester
    calls, overs

vars == <<running, mode, has, active, linked, call, calls, overs>>

Parts == {"dongle", "handlers", "socket", "tasks", "receive"}
Idle == [pc |-> "idle", kind |-> "none"]

Init ==
    /\ running = FALSE /\ mode = "idle" /\ has = {}
    /\ active = NoReflector /\ linked = NoReflector
    /\ call = [r \in Requests |-> Idle]
    /\ calls = 0 /\ overs = 0

Free(r) ==
    /\ call[r] = Idle /\ (Overlaps \/ \A q \in Requests : call[q] = Idle)
    /\ calls < MaxCalls /\ calls' = calls + 1

\* start(): the dongle is opened exclusively, so it cannot while a teardown
\* still has it; what is held already is simply taken over.
Starts ==
    /\ ~running /\ "dongle" \notin has
    /\ running' = TRUE /\ has' = Parts /\ UNCHANGED mode

\* connect(): a link command goes out unless an over is on; a bridge that was
\* not running is started for it.
connect(r, to) ==
    /\ Free(r)
    /\ \/ /\ running
          /\ IF mode = "idle" THEN linked' = to /\ active' = to ELSE UNCHANGED <<linked, active>>
          /\ UNCHANGED <<call, running, has, mode>>
       \/ Starts /\ linked' = to /\ active' = to /\ UNCHANGED call
       \/ /\ ~running /\ ("dongle" \in has \/ "no_dongle" \in LinkFaults)
          /\ UNCHANGED <<running, mode, has, active, linked, call>>
       \/ /\ ~running /\ "dongle" \notin has /\ "start_fails" \in LinkFaults
          /\ has' = has \cup {"dongle", "handlers"}     \* the socket's port is taken
          /\ call' = [call EXCEPT ![r] = [pc |-> "close", kind |-> "connect"]]
          /\ UNCHANGED <<running, mode, active, linked>>
    /\ UNCHANGED overs

\* disconnect(): the unlink command if it can be sent, then stop().
disconnect(r) ==
    /\ Free(r)
    /\ IF running
       THEN /\ linked' = IF mode = "idle" THEN NoReflector ELSE linked
            /\ running' = FALSE /\ mode' = "idle"       \* _force_unkey()
            /\ call' = [call EXCEPT ![r] = [pc |-> "close", kind |-> "disconnect"]]
            /\ UNCHANGED active
       ELSE active' = NoReflector /\ UNCHANGED <<running, mode, linked, call>>
    /\ UNCHANGED <<has, overs>>

\* _teardown(): the dongle is closed, the tasks are joined, the rest is let go;
\* after each it waits.
Closes(r) ==
    /\ call[r].pc = "close"
    /\ has' = has \ {"dongle"}
    /\ call' = [call EXCEPT ![r].pc = "join"]
    /\ UNCHANGED <<running, mode, active, linked, calls, overs>>

Joins(r) ==
    /\ call[r].pc = "join"
    /\ has' = has \ {"tasks", "handlers", "receive"}
    /\ call' = [call EXCEPT ![r].pc = "release"]
    /\ UNCHANGED <<running, mode, active, linked, calls, overs>>

Releases(r) ==
    /\ call[r].pc = "release"
    /\ has' = has \ {"socket", "dongle"} /\ mode' = "idle"
    /\ active' = IF call[r].kind = "disconnect" THEN NoReflector ELSE active
    /\ call' = [call EXCEPT ![r] = Idle]
    /\ UNCHANGED <<running, linked, calls, overs>>

\* An over from either side, relayed by the tasks.
Over ==
    /\ running /\ "tasks" \in has /\ mode = "idle" /\ overs < MaxOvers
    /\ mode' = "over" /\ overs' = overs + 1
    /\ UNCHANGED <<running, has, active, linked, call, calls>>
OverEnds ==
    /\ mode = "over" /\ mode' = "idle"
    /\ UNCHANGED <<running, has, active, linked, call, calls, overs>>

Next ==
    \/ \E r \in Requests, to \in Reflectors : connect(r, to)
    \/ \E r \in Requests : disconnect(r) \/ Closes(r) \/ Joins(r) \/ Releases(r)
    \/ Over \/ OverEnds

Spec == Init /\ [][Next]_vars

TypeOK ==
    /\ running \in BOOLEAN /\ mode \in {"idle", "over"} /\ has \subseteq Parts
    /\ {active, linked} \subseteq Reflectors \cup {NoReflector}
    /\ call \in [Requests -> [pc : {"idle", "close", "join", "release"}, kind : {"none", "connect", "disconnect"}]]
    /\ calls \in 0 .. MaxCalls /\ overs \in 0 .. MaxOvers

Quiet == \A r \in Requests : call[r] = Idle

\* A bridge that runs has all its parts: no teardown of the run before takes
\* them from it.
RunningIsWhole == Quiet /\ running => has = Parts

\* One that does not run holds nothing, so that the dongle, which is shared
\* with another instance, can be opened there, and a reflector is shown only
\* while the bridge runs.
StoppedIsReleased == Quiet /\ ~running => has = {} /\ active = NoReflector

\* The reflector shown is the one the gateway was told.
ShownIsLinked == Quiet /\ running => active = linked

-----------------------------------------------------------------------------
(* Why, when requests do not overlap: one at a time is on its way, the      *)
(* bridge does not run meanwhile, and each stage of the teardown has let go *)
(* of what it lets go of.                                                   *)
OneRequest == \A r, q \in Requests : call[r] # Idle /\ call[q] # Idle => r = q

HeldAt(at) ==
    CASE at = "close" -> Parts
      [] at = "join" -> Parts \ {"dongle"}
      [] at = "release" -> {"socket"}
      [] at = "idle" -> Parts
TornDown(r) ==
    call[r] # Idle =>
        /\ call[r].pc \in {"close", "join", "release"} /\ ~running
        /\ has \subseteq HeldAt(call[r].pc)
        /\ call[r].kind # "disconnect" => active = NoReflector

IInv ==
    /\ has \subseteq Parts /\ call \in [Requests -> [pc : {"idle", "close", "join", "release"},
                                                     kind : {"none", "connect", "disconnect"}]]
    /\ OneRequest /\ (\A r \in Requests : TornDown(r))
    /\ RunningIsWhole /\ StoppedIsReleased /\ ShownIsLinked
=============================================================================
