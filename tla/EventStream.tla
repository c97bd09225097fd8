----------------------------- MODULE EventStream -----------------------------
(***************************************************************************)
(* The event hub (api/events.py) with the /events sockets and the watch on *)
(* the serial reader (api/app.py).  A route changes the radio, reads its   *)
(* status and puts it into every subscriber's queue; most routes are plain *)
(* functions, which run on threads of their own while the loop sends, and  *)
(* beside each other, which the hub's docstring excludes ("Loop-thread     *)
(* only"): Overlaps.                                                       *)
(***************************************************************************)
EXTENDS Integers, Sequences, FiniteSets

CONSTANTS
    Clients,    \* sockets, served with DROP_SUBSCRIBER
    Drains,     \* subscribers served with DROP_OLDEST: the ledger, or none
    Routes,     \* routes that may run at a time
    QueueSize,  \* DEFAULT_EVENT_QUEUE_MAXSIZE
    MaxChanges, \* bound on the changes of the radio
    MaxDeaths,  \* bound on the deaths of the serial reader
    Overlaps    \* two of the publishers publish at a time

VARIABLES
    radio,  \* the state of the radio, by its version
    sub,    \* what a subscriber is, has queued, shows and has heard
    pub,    \* where a publisher is
    reader, \* the serial reader and the watcher's last reading of it
    alarms, \* alarms published
    raised  \* publish() raised

vars == <<radio, sub, pub, reader, alarms, raised>>

Subscribers == Clients \cup Drains
Publishers == Routes \cup {"watch"}
Off == [at |-> "off", queue |-> << >>, shown |-> 0, heard |-> 0, base |-> 0]
Status(v) == [kind |-> "status", v |-> v]
Alarm == [kind |-> "alarm", v |-> 0]
Overflow == [kind |-> "overflow", v |-> 0]
Idle == [at |-> "idle", event |-> Status(0), todo |-> {}, who |-> {}]

Init ==
    /\ radio = 0 /\ alarms = 0 /\ raised = FALSE
    /\ sub = [s \in Subscribers |-> IF s \in Drains THEN [Off EXCEPT !.at = "live"] ELSE Off]
    /\ pub = [p \in Publishers |-> Idle]
    /\ reader = [alive |-> TRUE, last |-> TRUE, deaths |-> 0]

Live == {s \in Subscribers : sub[s].at = "live"}

\* The watch runs on the loop: while it publishes nothing else runs there.
LoopFree == pub["watch"].at = "idle"

(***************************************************************************)
(* Publishing.                                                             *)
(***************************************************************************)

Alone == Overlaps \/ \A p \in Publishers : pub[p] = Idle

Changes(r) ==
    /\ Alone /\ pub[r] = Idle /\ radio < MaxChanges /\ radio' = radio + 1
    /\ pub' = [pub EXCEPT ![r].at = "changed"]
    /\ UNCHANGED <<sub, reader, alarms, raised>>

\* status_event(radio), and the list of the subscribers.
status_event(r) ==
    /\ pub[r].at = "changed"
    /\ pub' = [pub EXCEPT ![r] = [at |-> "put", event |-> Status(radio), todo |-> Live, who |-> {}]]
    /\ UNCHANGED <<radio, sub, reader, alarms, raised>>

\* publish(), one subscriber after the other.
publish(p) ==
    /\ pub[p].at = "put" /\ pub[p].who = {}
    /\ \E s \in pub[p].todo :
          IF Len(sub[s].queue) < QueueSize
          THEN /\ sub' = [sub EXCEPT ![s].queue = Append(@, pub[p].event)]
               /\ pub' = [pub EXCEPT ![p].todo = @ \ {s}]
          ELSE /\ pub' = [pub EXCEPT ![p].who = {s}, ![p].todo = @ \ {s}]
               /\ UNCHANGED sub
    /\ UNCHANGED <<radio, reader, alarms, raised>>

\* _overflow(): a socket goes with its backlog.
DropsSubscriber(p) ==
    /\ pub[p].who # {} /\ pub[p].who \subseteq Clients
    /\ sub' = [s \in Subscribers |-> IF s \in pub[p].who
                                    THEN [sub[s] EXCEPT !.at = "cut", !.queue = <<Overflow>>] ELSE sub[s]]
    /\ pub' = [pub EXCEPT ![p].who = {}]
    /\ UNCHANGED <<radio, reader, alarms, raised>>

\* A drain loses its oldest event; if it has emptied its queue meanwhile there
\* is none to lose, and the publisher is told.
DropsOldest(p) ==
    /\ \E s \in pub[p].who \cap Drains :
          IF sub[s].queue = << >>
          THEN raised' = TRUE /\ pub' = [pub EXCEPT ![p] = Idle] /\ UNCHANGED sub
          ELSE /\ sub' = [sub EXCEPT ![s].queue = Append(Tail(@), pub[p].event)]
               /\ pub' = [pub EXCEPT ![p].who = {}] /\ UNCHANGED raised
    /\ UNCHANGED <<radio, reader, alarms>>

Published(p) ==
    /\ pub[p].at = "put" /\ pub[p].todo = {} /\ pub[p].who = {}
    /\ pub' = [pub EXCEPT ![p] = IF @.event = Alarm
                                 THEN [at |-> "put", event |-> Status(radio), todo |-> Live, who |-> {}] ELSE Idle]
    /\ UNCHANGED <<radio, sub, reader, alarms, raised>>

\* TransportWatcher.tick(): a transition is told once, and the status with it.
tick ==
    /\ Alone /\ LoopFree /\ reader.alive # reader.last
    /\ reader' = [reader EXCEPT !.last = reader.alive] /\ alarms' = alarms + 1
    /\ pub' = [pub EXCEPT !["watch"] = [at |-> "put", event |-> Alarm, todo |-> Live, who |-> {}]]
    /\ UNCHANGED <<radio, sub, raised>>

ReaderTurns ==
    /\ reader.alive => reader.deaths < MaxDeaths
    /\ reader' = [reader EXCEPT !.alive = ~@, !.deaths = IF reader.alive THEN @ + 1 ELSE @]
    /\ UNCHANGED <<radio, sub, pub, alarms, raised>>

(***************************************************************************)
(* A subscriber, on the loop.                                              *)
(***************************************************************************)

\* The socket subscribes and is sent the state of the moment.
events(c) ==
    /\ LoopFree /\ sub[c].at = "off"
    /\ sub' = [sub EXCEPT ![c] = [Off EXCEPT !.at = "live", !.shown = radio, !.base = alarms]]
    /\ UNCHANGED <<radio, pub, reader, alarms, raised>>

\* unsubscribe(): a publisher still holds the queue, but nobody reads it.
Forgotten(c) ==
    pub' = [p \in Publishers |-> [pub[p] EXCEPT !.todo = @ \ {c}, !.who = @ \ {c}]]

\* The next event is sent; after an overflow notice the socket is closed.
_send(s) ==
    /\ LoopFree /\ sub[s].at # "off" /\ sub[s].queue # << >>
    /\ LET event == Head(sub[s].queue) IN
       IF event = Overflow THEN sub' = [sub EXCEPT ![s] = Off] /\ Forgotten(s)
       ELSE /\ sub' = [sub EXCEPT ![s].queue = Tail(@),
                                  ![s].shown = IF event = Alarm THEN @ ELSE event.v,
                                  ![s].heard = IF event = Alarm THEN @ + 1 ELSE @]
            /\ UNCHANGED pub
    /\ UNCHANGED <<radio, reader, alarms, raised>>

\* The peer is gone.
Disconnects(c) ==
    /\ LoopFree /\ sub[c].at # "off" /\ sub' = [sub EXCEPT ![c] = Off] /\ Forgotten(c)
    /\ UNCHANGED <<radio, reader, alarms, raised>>

Next ==
    \/ \E r \in Routes : Changes(r) \/ status_event(r)
    \/ \E p \in Publishers : publish(p) \/ DropsSubscriber(p) \/ DropsOldest(p) \/ Published(p)
    \/ tick \/ ReaderTurns
    \/ \E s \in Subscribers : _send(s)
    \/ \E c \in Clients : events(c) \/ Disconnects(c)

Spec == Init /\ [][Next]_vars
FairSpec ==
    /\ Spec /\ WF_vars(tick)
    /\ \A r \in Routes : WF_vars(status_event(r))
    /\ \A p \in Publishers : WF_vars(publish(p)) /\ WF_vars(DropsSubscriber(p)) /\ WF_vars(DropsOldest(p)) /\ WF_vars(Published(p))
    /\ \A s \in Subscribers : SF_vars(_send(s))

TypeOK ==
    /\ radio \in 0 .. MaxChanges /\ raised \in BOOLEAN
    /\ \A s \in Subscribers :
          /\ sub[s].at \in {"off", "live", "cut"} /\ sub[s].shown \in 0 .. MaxChanges
          /\ sub[s].queue \in Seq({Status(v) : v \in 0 .. MaxChanges} \cup {Alarm, Overflow})
          /\ Len(sub[s].queue) <= QueueSize
    /\ \A p \in Publishers : pub[p].todo \subseteq Subscribers /\ pub[p].who \subseteq Subscribers
    /\ reader \in [alive : BOOLEAN, last : BOOLEAN, deaths : 0 .. MaxDeaths]

TakenIn(c) ==
    /\ sub[c].at = "live" /\ sub[c].queue = << >>
    /\ ~raised /\ \A p \in Publishers : pub[p] = Idle

\* A socket that is still served and has taken in what was queued for it shows
\* the radio as it is: it is cut off rather than left with a stale state.
ShownIsCurrent == \A c \in Clients : TakenIn(c) => sub[c].shown = radio

\* It has heard every alarm since it came, too.
AlarmsAreHeard == \A c \in Clients : TakenIn(c) => sub[c].heard = alarms - sub[c].base

\* Why, while one publishes at a time: what is queued ends in the state of the
\* radio, or shows it already, or the status is still on its way; the alarms in
\* the queue come after those heard; and a publisher only has in its list, or
\* finds full, sockets that are served.
Statuses == {Status(v) : v \in Nat}
Deliverable == Statuses \cup {Alarm}
ToCome(c) == \E p \in Publishers :
    \/ pub[p].at = "changed"
    \/ pub[p].event = Status(radio) /\ c \in pub[p].todo \cup pub[p].who
OnItsWay(c) == \E p \in Publishers : pub[p].event = Alarm /\ c \in pub[p].todo \cup pub[p].who
Ends(q, shown, v) ==
    \/ \E i \in DOMAIN q : q[i] = Status(v) /\ \A j \in DOMAIN q : j > i => q[j] = Alarm
    \/ (\A i \in DOMAIN q : q[i] = Alarm) /\ shown = v
Sums(q, heard, n) == \E f \in [0 .. Len(q) -> Int] :
    /\ f[0] = heard /\ f[Len(q)] = n
    /\ \A i \in 1 .. Len(q) : f[i] = IF q[i] = Alarm THEN f[i - 1] + 1 ELSE f[i - 1]

Subscriptions == [at : {"off", "live", "cut"}, queue : Seq(Statuses \cup {Alarm, Overflow}),
                  shown : Nat, heard : Int, base : Int]
Publishings == [at : {"idle", "changed", "put"}, event : Deliverable,
                todo : SUBSET Subscribers, who : SUBSET Subscribers]
Typed ==
    /\ radio \in Nat /\ alarms \in Int
    /\ sub \in [Subscribers -> Subscriptions] /\ pub \in [Publishers -> Publishings]
OneAtATime ==
    /\ \A p, r \in Publishers : pub[p] # Idle /\ pub[r] # Idle => p = r
    /\ \A p \in Publishers :
          /\ pub[p].at = "put" => pub[p].event \in {Alarm, Status(radio)}
          /\ pub[p].at # "put" => pub[p] \in {Idle, [Idle EXCEPT !.at = "changed"]}
          /\ pub[p].todo \cup pub[p].who \subseteq Live
          /\ \A c \in pub[p].who : pub[p].who = {c} /\ c \notin pub[p].todo
Served(c) ==
    /\ \A i \in DOMAIN sub[c].queue : sub[c].queue[i] \in Deliverable
    /\ ToCome(c) \/ Ends(sub[c].queue, sub[c].shown, radio)
    /\ Sums(sub[c].queue, sub[c].heard, alarms - sub[c].base - (IF OnItsWay(c) THEN 1 ELSE 0))
IInv == Typed /\ OneAtATime /\ (~raised => \A c \in Clients : c \in Live => Served(c))

\* publish() never raises into the route or the pump that calls it.
PublishIsTotal == ~raised

\* In the end every socket that stays shows the state of the radio.
UpToDate(c) == sub[c].at = "live" /\ ~raised => sub[c].shown = radio
SocketsCatchUp == \A c \in Clients : <>[]UpToDate(c)
=============================================================================
