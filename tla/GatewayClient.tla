--------------------------- MODULE GatewayClient ---------------------------
(***************************************************************************)
(* The D-STAR gateway client (dstar/client.py) and its UDP peer.           *)
(*                                                                         *)
(* The bridge starts and closes the client on the event loop; one thread   *)
(* receives, hands packets to the bridge's sinks and services the poll,    *)
(* which is both the registration and the keep-alive.  The network loses   *)
(* packets, and the gateway may restart and forget the endpoint.           *)
(***************************************************************************)
EXTENDS Naturals, Sequences

CONSTANTS Interval,     \* clock steps between two polls
          MaxInFlight,  \* polls and packets under way, a bound
          MaxStarts,    \* starts in a run, a bound
          ClientFaults  \* "sink_raises", "port_taken"

Kinds == {"register", "data", "noise"}

VARIABLES
    sock,       \* the bound socket
    reader,     \* where the reader thread is
    inHand,     \* the packet the thread has received
    stop,       \* the stop event
    registered, \* what status() shows
    sincePoll,  \* clock steps since _last_poll
    polls,      \* polls on their way to the gateway
    inbox,      \* packets in the socket's buffer
    known,      \* the gateway has this endpoint registered
    answered,   \* the gateway has answered this start of the client
    starts

client == <<sock, reader, inHand, stop, registered, sincePoll>>
net == <<polls, inbox, known, answered>>
vars == <<sock, reader, inHand, stop, registered, sincePoll, polls, inbox,
          known, answered, starts>>

Init ==
    /\ sock = FALSE
    /\ reader = "none"
    /\ inHand = "none"
    /\ stop = FALSE
    /\ registered = FALSE
    /\ sincePoll = 0
    /\ polls = 0
    /\ inbox = << >>
    /\ known = FALSE
    /\ answered = FALSE
    /\ starts = 0

\* poll: a send that fails is logged, and one too many under way is lost.
Polled == polls' = IF polls < MaxInFlight THEN polls + 1 ELSE polls

\* start: a new socket, the first poll, a new thread.  A port that is taken
\* raises out of it with nothing changed.
Opened ==
    /\ sock' = TRUE
    /\ reader' = "receiving"
    /\ stop' = FALSE
    /\ sincePoll' = 0
    /\ Polled

Start ==
    /\ ~sock
    /\ reader = "none"
    /\ starts < MaxStarts
    /\ starts' = starts + 1
    /\ \/ Opened
       \/ /\ "port_taken" \in ClientFaults
          /\ UNCHANGED <<sock, reader, stop, sincePoll, polls>>
    /\ inbox' = << >>
    /\ answered' = FALSE
    /\ UNCHANGED <<inHand, registered, known>>

\* close: the event is set, the socket closed and the thread joined.  The
\* thread may still deliver the packet it has in hand while the join waits.
Close ==
    /\ sock
    /\ ~stop
    /\ stop' = TRUE
    /\ sock' = FALSE
    /\ inbox' = << >>
    /\ UNCHANGED <<reader, inHand, registered, sincePoll, polls, known,
                   answered, starts>>

Forgotten == registered' = FALSE

CloseReturns ==
    /\ stop
    /\ reader = "ended"
    /\ reader' = "none"
    /\ stop' = FALSE
    /\ Forgotten
    /\ UNCHANGED <<sock, inHand, sincePoll, starts>>
    /\ UNCHANGED net

\* A pass of the thread: a packet, or the time-out of the read, or the error
\* of a socket that was closed under it.
Receive ==
    /\ reader = "receiving"
    /\ \/ /\ stop
          /\ reader' = "ended"
          /\ UNCHANGED <<inHand, inbox>>
       \/ /\ ~stop
          /\ inbox # << >>
          /\ reader' = "handling"
          /\ inHand' = Head(inbox)
          /\ inbox' = Tail(inbox)
       \/ /\ ~stop
          /\ inbox = << >>
          /\ reader' = "ticking"
          /\ UNCHANGED <<inHand, inbox>>
    /\ UNCHANGED <<sock, stop, registered, sincePoll, polls, known,
                   answered, starts>>

\* Anything well formed is the proof of the registration.  The sink gets a
\* header or a frame, and what it raises is logged.
AfterSink(raised) == "ticking"

HandlePacket ==
    /\ reader = "handling"
    /\ registered' = (registered \/ inHand # "noise")
    /\ inHand' = "none"
    /\ \E raised \in BOOLEAN :
          /\ raised => inHand = "data" /\ "sink_raises" \in ClientFaults
          /\ reader' = AfterSink(raised)
    /\ UNCHANGED <<sock, stop, sincePoll, starts>>
    /\ UNCHANGED net

\* A keep-alive that is only sent until the gateway has answered.
DueUntilRegistered == sincePoll >= Interval /\ ~registered

\* _tick: the poll falls due on the clock, whatever the gateway does.
Due == sincePoll >= Interval

TickPoll ==
    /\ reader = "ticking"
    /\ reader' = "receiving"
    /\ IF Due THEN /\ sincePoll' = 0
                   /\ IF sock THEN Polled ELSE UNCHANGED polls
              ELSE UNCHANGED <<sincePoll, polls>>
    /\ UNCHANGED <<sock, inHand, stop, registered, inbox, known, answered,
                   starts>>

Tick ==
    /\ sincePoll < Interval
    /\ sincePoll' = sincePoll + 1
    /\ UNCHANGED <<sock, reader, inHand, stop, registered, starts>>
    /\ UNCHANGED net

-----------------------------------------------------------------------------
(* The network and the gateway. *)

Sent(kind) ==
    inbox' = IF sock /\ Len(inbox) < MaxInFlight THEN Append(inbox, kind)
             ELSE inbox

PollArrives ==
    /\ polls > 0
    /\ polls' = polls - 1
    /\ known' = TRUE
    /\ Sent("register")
    /\ answered' = TRUE
    /\ UNCHANGED <<starts>>
    /\ UNCHANGED client

\* A registered endpoint is sent overs; noise comes from anywhere.
GatewaySends ==
    /\ sock
    /\ \E kind \in {"data", "noise"} :
          /\ kind = "data" => known
          /\ Sent(kind)
          /\ inbox' # inbox
          /\ answered' = (answered \/ kind = "data")
    /\ UNCHANGED <<polls, known, starts>>
    /\ UNCHANGED client

PollIsLost ==
    /\ polls > 0
    /\ polls' = polls - 1
    /\ UNCHANGED <<inbox, known, answered, starts>>
    /\ UNCHANGED client

GatewayRestarts ==
    /\ known
    /\ known' = FALSE
    /\ UNCHANGED <<polls, inbox, answered, starts>>
    /\ UNCHANGED client

Thread == Receive \/ HandlePacket \/ TickPoll

Next ==
    \/ Start \/ Close \/ CloseReturns
    \/ Receive \/ HandlePacket \/ TickPoll \/ Tick
    \/ PollArrives \/ GatewaySends \/ PollIsLost \/ GatewayRestarts

Spec == Init /\ [][Next]_vars

\* The thread runs, the clock goes on, and of the polls sent again and
\* again one arrives in the end.
FairSpec ==
    /\ Spec
    /\ WF_vars(Thread)
    /\ WF_vars(Tick)
    /\ WF_vars(CloseReturns)
    /\ SF_vars(PollArrives)

-----------------------------------------------------------------------------
TypeOK ==
    /\ sock \in BOOLEAN
    /\ reader \in {"none", "receiving", "handling", "ticking", "ended"}
    /\ inHand \in Kinds \cup {"none"}
    /\ stop \in BOOLEAN
    /\ registered \in BOOLEAN
    /\ sincePoll \in 0..Interval
    /\ polls \in 0..MaxInFlight
    /\ inbox \in UNION {[1..n -> Kinds] : n \in 0..MaxInFlight}
    /\ known \in BOOLEAN
    /\ answered \in BOOLEAN
    /\ starts \in 0..MaxStarts

\* The client shows itself registered only after the gateway has answered
\* this start of it: its own polls prove nothing, and nothing of an earlier
\* session is left.
RegisteredIsAnswered == registered => answered

\* The thread of a running client is alive, whatever the sinks raise.
ReaderLives == sock => reader \notin {"none", "ended"}

\* Why: what is in hand, in the socket's buffer or shown is of this start; a
\* client without a thread shows nothing, and is stopped only when it is closed.
OfThisStart ==
    /\ registered \/ (reader = "handling" /\ inHand # "noise") => answered
    /\ \A i \in DOMAIN inbox : inbox[i] # "noise" => answered
IInv ==
    /\ inbox \in Seq(Kinds)
    /\ registered \in BOOLEAN /\ answered \in BOOLEAN
    /\ OfThisStart
    /\ reader = "none" => ~registered
    /\ stop => ~sock
    /\ ReaderLives

\* A running client is known to the gateway again and again, through lost
\* polls and restarts of the gateway.
KnownOrClosed == known \/ ~sock
KeptRegistered == []<>KnownOrClosed
=============================================================================
