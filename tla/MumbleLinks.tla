---------------------------- MODULE MumbleLinks -----------------------------
(***************************************************************************)
(* The Mumble link: one manager (link/manager.py) whose connect and        *)
(* disconnect are awaited by POST /link, by the DTMF command's task and by *)
(* the lifespan; the bridges it starts and stops (link/bridge.py); and the *)
(* client of each, whose own thread reconnects (link/pymumble_client.py).  *)
(***************************************************************************)
EXTENDS Naturals, FiniteSets

CONSTANTS
    Entries,      \* the slugs of [[mumble.servers]]
    Autoconnect,  \* the entry linked at start-up, or NoEntry
    NoEntry,
    Requests,     \* requests and DTMF tasks in flight
    MaxBridges,   \* bound on the bridges made
    MaxDrops,     \* bound on the connections the servers lose
    LinkFaults,   \* {"refused", "quick"}
    Overlaps      \* requests overlap each other and the shutdown

VARIABLES
    bridge,   \* the bridges made so far
    handle,   \* _bridge, or NoBridge
    active,   \* _active
    request,  \* what each request waits for
    listeners,\* the receive demand
    drops,
    down      \* the lifespan has passed its disconnect

vars == <<bridge, handle, active, request, listeners, drops, down>>

NoBridge == 0
Ids == 1 .. MaxBridges
Idle == [pc |-> "idle", want |-> NoEntry, stops |-> NoBridge]
Fresh(b) == IF \E i \in Ids : bridge[i].state = "absent"
            THEN b = CHOOSE i \in Ids : bridge[i].state = "absent" /\ \A j \in 1 .. i - 1 : bridge[j].state # "absent"
            ELSE FALSE
Absent == [state |-> "absent", entry |-> NoEntry, client |-> "none", known |-> FALSE]
Running == {i \in Ids : bridge[i].state = "running"}
Opened(e) == [state |-> "running", entry |-> e, client |-> "dialing", known |-> FALSE]

Init ==
    /\ bridge = [i \in Ids |-> IF i = 1 /\ Autoconnect # NoEntry THEN Opened(Autoconnect) ELSE Absent]
    /\ handle = IF Autoconnect = NoEntry THEN NoBridge ELSE 1
    /\ active = Autoconnect
    /\ request = [r \in Requests |-> Idle]
    /\ listeners = Cardinality(Running)
    /\ drops = 0 /\ down = FALSE

\* What is left of connect() once nothing is linked: the client dials, the
\* bridge listens and runs; a client that cannot be made leaves no link.
Opens(r, e) ==
    \/ \E b \in Ids :
        /\ Fresh(b)
        /\ bridge' = [bridge EXCEPT ![b] = Opened(e)]
        /\ handle' = b /\ active' = e
        /\ listeners' = listeners + 1
        /\ request' = [request EXCEPT ![r] = Idle]
    \/ /\ "refused" \in LinkFaults
       /\ request' = [request EXCEPT ![r] = Idle]
       /\ UNCHANGED <<bridge, handle, active, listeners>>

\* disconnect() takes the handle before it waits for the bridge to stop.
Lets(r, e) ==
    /\ handle' = NoBridge /\ active' = NoEntry
    /\ bridge' = [bridge EXCEPT ![handle].state = "stopping"]
    /\ request' = [request EXCEPT ![r] = [pc |-> "stopping", want |-> e, stops |-> handle]]
    /\ UNCHANGED listeners

\* The loop is not in the middle of a connect().
LoopFree == \A b \in Running : bridge[b].known
Free(r) == request[r] = Idle /\ LoopFree /\ (Overlaps \/ \A q \in Requests : request[q] = Idle)

connect(r, e) ==
    /\ Free(r) /\ ~down
    /\ IF handle = NoBridge THEN Opens(r, e) ELSE Lets(r, e)
    /\ UNCHANGED <<drops, down>>

disconnect(r) ==
    /\ Free(r) /\ handle # NoBridge
    /\ Lets(r, NoEntry)
    /\ UNCHANGED <<drops, down>>

\* The bridge's tasks are joined; it stops listening and its client hangs up.
Stopped(r) ==
    /\ request[r].pc = "stopping" /\ LoopFree
    /\ bridge' = [bridge EXCEPT ![request[r].stops].state = "stopped",
                                ![request[r].stops].client = "none"]
    /\ listeners' = listeners - 1
    /\ request' = [request EXCEPT ![r] = IF @.want = NoEntry THEN Idle
                                         ELSE [@ EXCEPT !.pc = "opening", !.stops = NoBridge]]
    /\ UNCHANGED <<handle, active, drops, down>>

Switches(r) ==
    /\ request[r].pc = "opening" /\ LoopFree
    /\ Opens(r, request[r].want)
    /\ UNCHANGED <<drops, down>>

\* connect() keeps the client it has started; only then the client's thread
\* finds itself.
Remembers(b) ==
    /\ b \in Running /\ ~bridge[b].known
    /\ bridge' = [bridge EXCEPT ![b].known = TRUE]
    /\ UNCHANGED <<handle, active, request, listeners, drops, down>>

\* The client's thread: on every connection it moves to the channel; lost, it
\* dials again.
Connected(b) ==
    /\ b \in Running /\ bridge[b].client = "dialing"
    /\ bridge[b].known \/ "quick" \in LinkFaults
    /\ bridge' = [bridge EXCEPT ![b].client = IF bridge[b].known THEN "in_channel" ELSE "in_root"]
    /\ UNCHANGED <<handle, active, request, listeners, drops, down>>
Loses(b) ==
    /\ b \in Running /\ bridge[b].client \in {"in_channel", "in_root"} /\ drops < MaxDrops
    /\ bridge' = [bridge EXCEPT ![b].client = "dialing"]
    /\ drops' = drops + 1
    /\ UNCHANGED <<handle, active, request, listeners, down>>

\* The lifespan's disconnect, its wait folded into it: no request is served
\* any more, but a DTMF task may be waiting.
Shutdown ==
    /\ ~down /\ LoopFree /\ (Overlaps \/ \A r \in Requests : request[r] = Idle)
    /\ down' = TRUE
    /\ bridge' = IF handle = NoBridge THEN bridge
                 ELSE [bridge EXCEPT ![handle].state = "stopped", ![handle].client = "none"]
    /\ listeners' = IF handle = NoBridge THEN listeners ELSE listeners - 1
    /\ handle' = NoBridge /\ active' = NoEntry
    /\ UNCHANGED <<request, drops>>

Next ==
    \/ \E r \in Requests, e \in Entries : connect(r, e)
    \/ \E r \in Requests : disconnect(r) \/ Stopped(r) \/ Switches(r)
    \/ \E b \in Ids : Remembers(b) \/ Connected(b) \/ Loses(b)
    \/ Shutdown

Spec == Init /\ [][Next]_vars

Bridges == [Ids -> [state : {"absent", "running", "stopping", "stopped"}, entry : Entries \cup {NoEntry},
                    client : {"none", "dialing", "in_channel", "in_root"}, known : BOOLEAN]]
Asking == [Requests -> [pc : {"idle", "stopping", "opening"}, want : Entries \cup {NoEntry},
                        stops : Ids \cup {NoBridge}]]

TypeOK ==
    /\ bridge \in Bridges /\ request \in Asking
    /\ handle \in Ids \cup {NoBridge} /\ active \in Entries \cup {NoEntry}
    /\ listeners \in 0 .. MaxBridges /\ drops \in 0 .. MaxDrops /\ down \in BOOLEAN

\* One link is active at a time: a bridge that runs is the one the manager can
\* stop, and it is the one that is shown.
OneLinkAtATime ==
    /\ Running \subseteq {handle}
    /\ \A b \in Running : bridge[b].entry = active

\* When nothing is linked and nobody waits, nobody listens, and after the
\* shutdown no link is left running.
UnlinkedIsDeaf ==
    /\ (active = NoEntry /\ \A r \in Requests : request[r] = Idle) => listeners = 0
    /\ (down /\ \A r \in Requests : request[r] = Idle) => Running = {}

\* A connected client is in the entry's channel.
InItsChannel == \A b \in Running : bridge[b].client # "in_root"

-----------------------------------------------------------------------------
(* Why, when requests do not overlap each other or the shutdown: at most    *)
(* one is on its way, nothing is linked meanwhile, and who listens is the   *)
(* link or the bridge that this request stops.                              *)
LinkAssumption ==
    /\ MaxBridges \in Nat \ {0}
    /\ NoEntry \notin Entries /\ Autoconnect \in Entries \cup {NoEntry}

Quiet == \A r \in Requests : request[r] = Idle
OneRequest ==
    \A r \in Requests : request[r] # Idle =>
        /\ handle = NoBridge /\ ~down
        /\ request[r].pc = "stopping" => listeners = 1
        /\ request[r].pc = "opening" => listeners = 0
        /\ \A q \in Requests \ {r} : request[q] = Idle

Linked ==
    /\ handle # NoBridge => bridge[handle].entry = active /\ active # NoEntry /\ ~down
    /\ handle = NoBridge => active = NoEntry
    /\ Quiet => listeners = IF handle = NoBridge THEN 0 ELSE 1

Typed ==
    /\ bridge \in Bridges /\ request \in Asking
    /\ handle \in Ids \cup {NoBridge} /\ active \in Entries \cup {NoEntry}
    /\ \A r \in Requests : /\ request[r].pc = "idle" => request[r] = Idle
                           /\ request[r].pc = "opening" => request[r].want # NoEntry

IInv == Typed /\ OneRequest /\ Linked /\ Running \subseteq {handle} /\ InItsChannel
=============================================================================
