----------------------------- MODULE FmCadence ------------------------------
(***************************************************************************)
(* Knowing whether the radio listens to its second receiver, so that the   *)
(* bridges do not relay a broadcast station (activity/broadcast_fm_poll.py,*)
(* POST /broadcast-fm in api/app.py): a thread probes the radio every few  *)
(* seconds while a bridge relays, the route hands over what it measured,   *)
(* and holds the mute while its own exchange is on the wire.               *)
(***************************************************************************)
EXTENDS Naturals, FiniteSets

CONSTANTS
    Bridges,    \* relay loops that use the cadence
    Routes,     \* threads serving POST /broadcast-fm
    Pollers,    \* cadence threads that may exist at once
    MaxFaults,  \* bound on lost answers and on hands on the radio
    LateAnswers \* a probe's answer may be recorded after a later measurement

VARIABLES
    fm,        \* the radio's second receiver is on
    fallback,  \* the tuner's own last reading: broadcast_fm of the radio
    reading,   \* _reading
    assumed,   \* _assumed_on
    using,     \* the bridges that have started the cadence: _users
    thread,    \* the cadence threads: off, polling, told to stop; their answer
    current,   \* _thread
    route,     \* where a request is
    keyed,     \* the station transmits: the pause hook
    asked,     \* the server switched it on and nobody has touched it since
    faults

vars == <<fm, fallback, reading, assumed, using, thread, current, route, keyed, asked, faults>>

Told == {"unknown", "on", "off"}
NoPoller == "none"
Off == [on |-> FALSE, stop |-> FALSE, pc |-> "wait", answer |-> "unknown"]
Says(is) == IF is THEN "on" ELSE "off"
Fault == faults < MaxFaults /\ faults' = faults + 1

Init ==
    /\ fm \in BOOLEAN /\ fallback \in {"unknown", Says(fm)}
    /\ reading = "unknown" /\ assumed = 0 /\ using = {}
    /\ thread = [p \in Pollers |-> Off] /\ current = NoPoller
    /\ route = [r \in Routes |-> "idle"]
    /\ keyed = FALSE /\ asked = FALSE /\ faults = 0

\* What the bridges ask before each frame; unknown does not mute.
Reported == IF assumed > 0 THEN "on" ELSE IF reading # "unknown" THEN reading ELSE fallback
Muted == Reported = "on"

\* ---- the life of the cadence ----
Starts(b) ==
    /\ b \notin using
    /\ using' = using \cup {b}
    /\ IF current # NoPoller THEN UNCHANGED <<thread, current>>
       ELSE \E p \in Pollers :
               /\ ~thread[p].on
               /\ thread' = [thread EXCEPT ![p] = [Off EXCEPT !.on = TRUE]]
               /\ current' = p
    /\ UNCHANGED <<fm, fallback, reading, assumed, route, keyed, asked, faults>>

\* The last one out tells the thread; joining it may time out.
Stops(b) ==
    /\ b \in using
    /\ using' = using \ {b}
    /\ IF using # {b} \/ current = NoPoller THEN UNCHANGED <<thread, current>>
       ELSE thread' = [thread EXCEPT ![current].stop = TRUE] /\ current' = NoPoller
    /\ UNCHANGED <<fm, fallback, reading, assumed, route, keyed, asked, faults>>

\* The loop: leave when told, skip while the station transmits, or probe.
Polls(p) ==
    /\ thread[p].on /\ thread[p].pc = "wait"
    /\ \/ thread[p].stop /\ thread' = [thread EXCEPT ![p] = Off] /\ UNCHANGED faults
       \/ /\ ~thread[p].stop /\ ~keyed
          /\ LateAnswers \/ \A r \in Routes : route[r] = "idle"
          /\ \/ thread' = [thread EXCEPT ![p].pc = "record", ![p].answer = Says(fm)] /\ UNCHANGED faults
             \/ Fault /\ thread' = [thread EXCEPT ![p].pc = "record", ![p].answer = "unknown"]
    /\ UNCHANGED <<fm, fallback, reading, assumed, using, current, route, keyed, asked>>

\* Every failure holds the previous reading.
Records(p) ==
    /\ thread[p].pc = "record"
    /\ reading' = IF thread[p].answer = "unknown" THEN reading ELSE thread[p].answer
    /\ thread' = [thread EXCEPT ![p].pc = "wait", ![p].answer = "unknown"]
    /\ UNCHANGED <<fm, fallback, assumed, using, current, route, keyed, asked, faults>>

\* ---- POST /broadcast-fm: on is refused in an over, off never is ----
Free(r) == route[r] = "idle" /\ (LateAnswers \/ \A p \in Pollers : thread[p].pc = "wait")

AsksOn(r) ==
    /\ Free(r) /\ ~keyed
    /\ assumed' = assumed + 1
    /\ route' = [route EXCEPT ![r] = "on"]
    /\ UNCHANGED <<fm, fallback, reading, using, thread, current, keyed, asked, faults>>

\* The exchange: answered, declined or lost; what the tuner then knows.
SwitchesOn(r) ==
    /\ route[r] = "on"
    /\ \/ /\ ~keyed /\ fm' = TRUE /\ fallback' = "on" /\ asked' = TRUE
          /\ route' = [route EXCEPT ![r] = "observe"] /\ UNCHANGED faults
       \/ /\ keyed /\ route' = [route EXCEPT ![r] = "release"]
          /\ UNCHANGED <<fm, fallback, asked, faults>>
       \/ /\ Fault /\ fm' \in {fm, TRUE} /\ fallback' = "unknown"
          /\ route' = [route EXCEPT ![r] = "release"] /\ UNCHANGED asked
    /\ UNCHANGED <<reading, assumed, using, thread, current, keyed>>

\* A hold that is given up by the observation and by the end of the route.
ObservesAndReleases(r) ==
    /\ route[r] = "observe"
    /\ reading' = fallback /\ assumed' = assumed - 1
    /\ route' = [route EXCEPT ![r] = "release"]
    /\ UNCHANGED <<fm, fallback, using, thread, current, keyed, asked, faults>>

Observes(r) ==
    /\ route[r] \in {"observe", "observe_off"}
    /\ reading' = fallback
    /\ route' = [route EXCEPT ![r] = IF @ = "observe" THEN "release" ELSE "idle"]
    /\ UNCHANGED <<fm, fallback, assumed, using, thread, current, keyed, asked, faults>>

Releases(r) ==
    /\ route[r] = "release"
    /\ assumed' = assumed - 1
    /\ route' = [route EXCEPT ![r] = "idle"]
    /\ UNCHANGED <<fm, fallback, reading, using, thread, current, keyed, asked, faults>>

\* Not answered, it raises, and what the cadence knew stands.
SwitchesOff(r) ==
    /\ Free(r) /\ ~keyed
    /\ \/ /\ fm' = FALSE /\ fallback' = "off" /\ asked' = FALSE
          /\ route' = [route EXCEPT ![r] = "observe_off"] /\ UNCHANGED faults
       \/ /\ Fault /\ fm' \in {fm, FALSE} /\ fallback' = "unknown" /\ asked' = FALSE
          /\ UNCHANGED route
    /\ UNCHANGED <<reading, assumed, using, thread, current, keyed>>

\* A key-up clears the second receiver and tells only the tuner.
KeyUp ==
    /\ ~keyed
    /\ keyed' = TRUE /\ fm' = FALSE /\ fallback' = "off" /\ asked' = FALSE
    /\ UNCHANGED <<reading, assumed, using, thread, current, route, faults>>

KeyOff ==
    /\ keyed /\ keyed' = FALSE
    /\ UNCHANGED <<fm, fallback, reading, assumed, using, thread, current, route, asked, faults>>

\* F+0 at the radio.
ByHand ==
    /\ ~keyed /\ Fault
    /\ fm' = ~fm /\ asked' = FALSE
    /\ UNCHANGED <<fallback, reading, assumed, using, thread, current, route, keyed>>

Next ==
    \/ \E b \in Bridges : Starts(b) \/ Stops(b)
    \/ \E p \in Pollers : Polls(p) \/ Records(p)
    \/ \E r \in Routes : AsksOn(r) \/ SwitchesOn(r) \/ Observes(r) \/ Releases(r) \/ SwitchesOff(r)
    \/ KeyUp \/ KeyOff \/ ByHand

Spec == Init /\ [][Next]_vars

\* The thread's loop goes on, and overs end.
Fairness ==
    /\ \A p \in Pollers : SF_vars(Polls(p)) /\ WF_vars(Records(p))
    /\ \A r \in Routes : WF_vars(SwitchesOn(r) \/ Observes(r) \/ Releases(r))
    /\ WF_vars(KeyOff)
FairSpec == Spec /\ Fairness

TypeOK ==
    /\ fm \in BOOLEAN /\ fallback \in Told /\ reading \in Told
    /\ assumed \in 0 .. Cardinality(Routes) /\ using \subseteq Bridges
    /\ thread \in [Pollers -> [on : BOOLEAN, stop : BOOLEAN, pc : {"wait", "record"}, answer : Told]]
    /\ current \in Pollers \cup {NoPoller}
    /\ route \in [Routes -> {"idle", "on", "observe", "observe_off", "release"}]
    /\ keyed \in BOOLEAN /\ asked \in BOOLEAN /\ faults \in 0 .. MaxFaults

\* A broadcast station that the server itself switched on is not relayed: the
\* mute holds from before the request is on the wire for as long as nobody
\* turns it off, whatever the cadence thread was about to record.
AskedForIsMuted == asked => Muted

Holding == {r \in Routes : route[r] \in {"on", "observe", "release"}}

\* One live cadence while anybody relays, and none that nobody asked for.
OneCadence ==
    /\ \A p \in Pollers : thread[p].on /\ ~thread[p].stop <=> p = current
    /\ (current # NoPoller) = (using # {})
    /\ assumed = Cardinality(Holding)

\* While bridges relay, a radio left alone is known for what it is: the mute
\* comes and goes with the second receiver.
LeftAloneAt(state) == using # {} /\ fm = state /\ \A r \in Routes : route[r] = "idle"
MutedIf(state) == Muted = state
MuteCatchesUp ==
    \A state \in BOOLEAN : <>[]LeftAloneAt(state) => <>[]MutedIf(state)

-----------------------------------------------------------------------------
(* For any bridges and pollers, one route at a time and no late answer: a  *)
(* probe and a request measure one after the other, so that what is still  *)
(* to be recorded is what was measured last.                               *)
Typed ==
    /\ fm \in BOOLEAN /\ fallback \in Told /\ reading \in Told
    /\ thread \in [Pollers -> [on : BOOLEAN, stop : BOOLEAN, pc : {"wait", "record"}, answer : Told]]
    /\ current \in Pollers \cup {NoPoller}
    /\ route \in [Routes -> {"idle", "on", "observe", "observe_off", "release"}]

InTurn == \A p \in Pollers, r \in Routes : thread[p].pc = "record" => route[r] = "idle"

AskedStands ==
    asked =>
        /\ fm
        /\ \A p \in Pollers : thread[p].pc = "record" => thread[p].answer # "off"
        /\ \A r \in Routes : route[r] # "observe_off" /\ (route[r] = "observe" => fallback = "on")
        /\ reading = "on" \/ \E r \in Routes : route[r] = "observe"

IInv == Typed /\ InTurn /\ AskedStands /\ OneCadence
=============================================================================
