------------------------------ MODULE DockTuner -----------------------------
(***************************************************************************)
(* A UV-K5 tuned over its dock and keyed by a line of the AIOC cable       *)
(* (backends/aioc_baofeng.py, backends/uvk5/tuner.py): the channel lives   *)
(* in the radio, where its knobs and its power switch can change it, and   *)
(* every exchange may lose its answer.  Tuning routes run on threads of    *)
(* their own beside the thread that keys.                                  *)
(***************************************************************************)
EXTENDS Naturals, FiniteSets

CONSTANTS
    Freqs, Tones,   \* what a VFO image is made of
    NoImage,        \* None
    Routes,         \* threads serving tuning requests
    MaxFaults,      \* bound on lost exchanges and on hands on the radio
    DockFaults,     \* {"lost", "store_fails", "knob", "power", "fm", "held"}
    Overlaps        \* a tuning request may run while the radio is being keyed

Images == [hz : Freqs, tone : Tones]
Maybe == Images \cup {NoImage}
KeySteps == {"clear", "channel", "vfo", "lockout"}

VARIABLES
    radio,    \* the radio: its channels, FM receiver, AM, mute, held button
    host,     \* _tuned, _pending, persist, what the tuner has learnt, the timer
    line,     \* _transmitting: the PTT line is asserted
    key,      \* where _key_on is
    route,    \* the image each tuning thread is applying, and its step
    touched,  \* hands and late requests since the key-up looked
    faults

vars == <<radio, host, line, key, route, touched, faults>>

Parked == [pc |-> "idle", image |-> NoImage]
Fault(kind) == kind \in DockFaults /\ faults < MaxFaults /\ faults' = faults + 1
Keying == key # "idle" \/ line
Touch(what) == touched' = IF Keying THEN touched \cup {what} ELSE {}

Init ==
    /\ radio \in [vfo : {NoImage}, boot : {NoImage}, fm : BOOLEAN, am : BOOLEAN, mute : {"no"},
                  held : {FALSE}]
    /\ host \in [tuned : {NoImage}, pending : {NoImage}, persist : BOOLEAN, mod : {"none"},
                 txOk : {TRUE}, bfm : {"unknown"},
                 earned : {FALSE}, lockout : {FALSE}]
    /\ line = FALSE /\ key = "idle"
    /\ route = [t \in Routes |-> Parked]
    /\ touched = {} /\ faults = 0

\* One exchange: the radio acts and answers, or the request or the answer is lost.
Answered(act) == radio' = act /\ UNCHANGED faults
Lost(act) == Fault("lost") /\ radio' \in {radio, act}

Transmits == line /\ radio.mute = "no" /\ ~radio.am
FmOff == [radio EXCEPT !.fm = FALSE]
\* The radio will not touch its second receiver while it transmits or monitors.
Declines == Transmits \/ radio.held

\* ---- ClearBroadcastFm: ask and repair in one frame ----
Cleared(h) == [h EXCEPT !.bfm = "off", !.earned = TRUE]

\* Boot: the second receiver and the modulation are stated; failures are logged.
BootClears ==
    /\ host.mod = "none" /\ host.bfm = "unknown" /\ ~host.earned
    /\ \/ Answered(FmOff) /\ host' = Cleared(host)
       \/ Lost(FmOff) /\ UNCHANGED host
    /\ UNCHANGED <<line, key, route, touched>>

StatesModulation(m) ==
    /\ key = "idle" \/ Overlaps
    /\ LET act == [radio EXCEPT !.am = (m = "AM")] IN
       \/ Answered(act) /\ host' = [host EXCEPT !.mod = m, !.txOk = (m # "AM")]
       \/ Lost(act) /\ UNCHANGED host
    /\ Touch("modulation")
    /\ UNCHANGED <<line, key, route>>

\* ---- the tuning routes: stage, and commit what is staged ----
Free(t) == route[t] = Parked /\ (Overlaps \/ key = "idle")
Staged == IF host.pending # NoImage THEN host.pending ELSE host.tuned

Stages(t, image) ==
    /\ Free(t)
    /\ host' = [host EXCEPT !.pending = image]
    /\ route' = [route EXCEPT ![t] = [pc |-> "commit", image |-> image]]
    /\ UNCHANGED <<radio, line, key, touched, faults>>

SetFrequency(t, hz) ==
    Stages(t, IF Staged = NoImage THEN [hz |-> hz, tone |-> CHOOSE o \in Tones : TRUE]
              ELSE [Staged EXCEPT !.hz = hz])

SetTone(t, tone) == Staged # NoImage /\ Stages(t, [Staged EXCEPT !.tone = tone])

Leaves(t) == route' = [route EXCEPT ![t] = Parked]

\* Nothing to do, refused while transmitting (what is staged stays), or applied.
Commit(t) ==
    /\ route[t].pc = "commit"
    /\ \/ /\ host.pending \in {NoImage, host.tuned}
          /\ host' = [host EXCEPT !.pending = NoImage] /\ Leaves(t)
       \/ /\ host.pending \notin {NoImage, host.tuned} /\ line
          /\ Leaves(t) /\ UNCHANGED host
       \/ /\ host.pending \notin {NoImage, host.tuned} /\ ~line
          /\ route' = [route EXCEPT ![t] = [pc |-> "apply", image |-> host.pending]]
          /\ UNCHANGED host
    /\ UNCHANGED <<radio, line, key, touched, faults>>

Done(t, h) ==
    /\ host' = [h EXCEPT !.tuned = route[t].image, !.pending = NoImage]
    /\ Leaves(t)

\* SetVfo with its read-back; with storage on, the channel is then stored.
Apply(t) ==
    /\ route[t].pc = "apply"
    /\ Touch("retuned")
    /\ LET act == [radio EXCEPT !.vfo = route[t].image] IN
       \/ Answered(act) /\ ~host.persist /\ Done(t, host)
       \/ /\ Answered(act) /\ host.persist
          /\ route' = [route EXCEPT ![t].pc = "store"] /\ UNCHANGED <<host>>
       \/ Lost(act) /\ Leaves(t) /\ UNCHANGED <<host>>
    /\ UNCHANGED <<line, key>>

\* Every conversation with the storage mutes the radio; the host's own timer
\* is started after it, and not at all when it raises.
Store(t) ==
    /\ route[t].pc = "store"
    /\ \/ /\ Answered([radio EXCEPT !.boot = route[t].image, !.mute = "told"])
          /\ Done(t, [host EXCEPT !.lockout = TRUE])
       \/ /\ Fault("store_fails")
          /\ \E boot \in {radio.boot, route[t].image} :
                radio' = [radio EXCEPT !.boot = boot, !.mute = "untold"]
          /\ Leaves(t) /\ UNCHANGED <<host>>
    /\ UNCHANGED <<line, key, touched>>

\* Turning storage on stores the channel the radio is on, after the switch.
SetTunePersist(t, on) ==
    /\ Free(t) /\ ~line
    /\ host' = [host EXCEPT !.persist = on]
    /\ route' = IF on /\ ~host.persist /\ host.tuned # NoImage
                THEN [route EXCEPT ![t] = [pc |-> "restore", image |-> host.tuned]] ELSE route
    /\ UNCHANGED <<radio, line, key, touched, faults>>

Restore(t) ==
    /\ route[t].pc = "restore"
    /\ \/ /\ Answered([radio EXCEPT !.boot = route[t].image, !.mute = "told"])
          /\ host' = [host EXCEPT !.lockout = TRUE]
       \/ /\ Fault("store_fails")
          /\ radio' = [radio EXCEPT !.mute = "untold"] /\ UNCHANGED host
    /\ Leaves(t)
    /\ UNCHANGED <<line, key, touched>>

\* ---- the second receiver on demand ----
ClearsOnDemand(t) ==
    /\ Free(t) /\ host.earned /\ ~Declines
    /\ \/ Answered(FmOff) /\ host' = Cleared(host)
       \/ Lost(FmOff) /\ host' = [host EXCEPT !.bfm = "unknown"]
    /\ UNCHANGED <<line, key, route, touched>>

SwitchesOn(t) ==
    /\ Free(t) /\ host.earned /\ ~Declines
    /\ LET act == [radio EXCEPT !.fm = TRUE] IN
       \/ Answered(act) /\ host' = [host EXCEPT !.bfm = "on"]
       \/ Lost(act) /\ host' = [host EXCEPT !.bfm = "unknown"]
    /\ Touch("fm")
    /\ UNCHANGED <<line, key, route>>

\* ---- keying: three frames, the lockout, then the line ----
KeyUp ==
    /\ key = "idle" /\ ~line
    /\ Overlaps \/ \A t \in Routes : route[t] = Parked
    /\ key' = IF host.earned THEN "clear" ELSE "channel"
    /\ touched' = {}
    /\ UNCHANGED <<radio, host, line, route, faults>>

\* Declined: the last measurement is used, and it refuses only a receiver
\* known to be on.  Unanswered: the key-up is refused.
KeyClears ==
    /\ key = "clear"
    /\ \/ Declines /\ key' = (IF host.bfm = "on" THEN "idle" ELSE "channel")
          /\ Touch("declined") /\ UNCHANGED <<radio, host, faults>>
       \/ /\ ~Declines /\ UNCHANGED touched
          /\ \/ Answered(FmOff) /\ host' = Cleared(host) /\ key' = "channel"
             \/ Lost(FmOff) /\ host' = [host EXCEPT !.bfm = "unknown"] /\ key' = "idle"
    /\ UNCHANGED <<line, route>>

\* What lives in the radio's memory alone is stated again before every over.
KeyStates ==
    /\ key = "channel"
    /\ \/ /\ host.persist \/ host.tuned = NoImage \/ host.mod = "none"
          /\ key' = "vfo" /\ UNCHANGED <<radio, host, faults>>
       \/ /\ ~host.persist /\ host.tuned # NoImage /\ host.mod # "none"
          /\ LET act == [radio EXCEPT !.am = (host.mod = "AM")] IN
             \/ Answered(act) /\ key' = "vfo" /\ host' = [host EXCEPT !.txOk = (host.mod # "AM")]
             \/ Lost(act) /\ key' = "idle" /\ UNCHANGED host
    /\ touched' = touched \ {"modulation"}
    /\ UNCHANGED <<line, route>>

KeyReasserts ==
    /\ key = "vfo"
    /\ \/ /\ host.persist \/ host.tuned = NoImage
          /\ key' = "lockout" /\ UNCHANGED <<radio, faults, touched>>
       \/ /\ ~host.persist /\ host.tuned # NoImage
          /\ LET act == [radio EXCEPT !.vfo = host.tuned] IN
             \/ Answered(act) /\ key' = "lockout"
             \/ Lost(act) /\ key' = "idle"
          /\ touched' = touched \ {"retuned", "knob", "power"}
    /\ UNCHANGED <<host, line, route>>

\* The AM refusal, the wait for the mute to pass, and the line.
KeyAsserts ==
    /\ key = "lockout"
    /\ \/ ~host.txOk /\ UNCHANGED line
       \/ host.txOk /\ ~host.lockout /\ line' = TRUE
    /\ key' = "idle"
    /\ UNCHANGED <<radio, host, route, touched, faults>>

KeyOff ==
    /\ line /\ line' = FALSE /\ touched' = {}
    /\ UNCHANGED <<radio, host, key, route, faults>>

\* The mute passes, and then the timer that the host started after it.
MutePasses ==
    /\ radio.mute # "no" \/ host.lockout
    /\ radio' = [radio EXCEPT !.mute = "no"]
    /\ host' = IF radio.mute # "no" THEN host ELSE [host EXCEPT !.lockout = FALSE]
    /\ UNCHANGED <<line, key, route, touched, faults>>

\* ---- somebody at the radio ----
Knob(image) ==
    /\ Fault("knob") /\ radio' = [radio EXCEPT !.vfo = image] /\ Touch("knob")
    /\ UNCHANGED <<host, line, key, route>>

PowerCycle ==
    /\ Fault("power")
    /\ radio' = [radio EXCEPT !.vfo = radio.boot, !.fm = FALSE, !.am = FALSE, !.mute = "no"]
    /\ Touch("power")
    /\ UNCHANGED <<host, line, key, route>>

FmAtTheRadio ==
    /\ Fault("fm") /\ radio' = [radio EXCEPT !.fm = TRUE] /\ Touch("fm")
    /\ UNCHANGED <<host, line, key, route>>

Monitors ==
    /\ IF radio.held THEN UNCHANGED faults ELSE Fault("held")
    /\ radio' = [radio EXCEPT !.held = ~@]
    /\ UNCHANGED <<host, line, key, route, touched>>

Next ==
    \/ BootClears \/ \E m \in {"FM", "AM"} : StatesModulation(m)
    \/ \E t \in Routes :
          \/ \E hz \in Freqs : SetFrequency(t, hz)
          \/ \E tone \in Tones : SetTone(t, tone)
          \/ \E on \in BOOLEAN : SetTunePersist(t, on)
          \/ Commit(t) \/ Apply(t) \/ Store(t) \/ Restore(t) \/ ClearsOnDemand(t) \/ SwitchesOn(t)
    \/ KeyUp \/ KeyClears \/ KeyStates \/ KeyReasserts \/ KeyAsserts \/ KeyOff
    \/ MutePasses
    \/ (\E image \in Images : Knob(image)) \/ PowerCycle \/ FmAtTheRadio \/ Monitors

Spec == Init /\ [][Next]_vars

TypeOK ==
    /\ radio \in [vfo : Maybe, boot : Maybe, fm : BOOLEAN, am : BOOLEAN, mute : {"no", "told", "untold"},
                  held : BOOLEAN]
    /\ host \in [tuned : Maybe, pending : Maybe, persist : BOOLEAN, mod : {"none", "FM", "AM"},
                 txOk : BOOLEAN, bfm : {"unknown", "on", "off"},
                 earned : BOOLEAN, lockout : BOOLEAN]
    /\ line \in BOOLEAN
    /\ key \in KeySteps \cup {"idle"}
    /\ route \in [Routes -> [pc : {"idle", "commit", "apply", "store", "restore"}, image : Maybe]]
    /\ touched \subseteq {"modulation", "retuned", "knob", "power", "fm", "declined"}
    /\ faults \in 0 .. MaxFaults

\* An over of a station that was tuned goes out on the channel it was tuned to,
\* wherever hands or a lost answer had left the radio before the key-up, unless
\* the radio was changed again after the key-up had put it right.
KeyedOnItsChannel ==
    line /\ host.tuned # NoImage /\ ~host.persist /\ touched \cap {"retuned", "knob", "power"} = {}
        => radio.vfo = host.tuned

\* No over goes out from a radio listening to its second receiver, if the radio
\* can be asked: only one that declined, or was switched after it was asked.
DeafOversAreAskedFor ==
    line /\ radio.fm /\ host.earned => touched \cap {"fm", "declined"} # {}

\* When the line is up the radio transmits: it is not muted by a completed conversation
\* with its storage, nor in AM once the modulation has been stated.
LineMeansCarrier ==
    line =>
        /\ radio.mute # "told"
        /\ "modulation" \notin touched /\ host.mod # "none" /\ host.tuned # NoImage /\ ~host.persist
               => ~radio.am

\* And not by one that failed half way: it muted the radio too, and nobody waits.
FailedStoreIsWaitedFor == line => radio.mute = "no"

\* A caller whose change is answered with nothing left to do is on the channel
\* it asked for: its change was not swept away by another caller's.
AcceptsTheTuned ==
    \A t \in Routes :
        route[t].pc = "commit" /\ route'[t] = Parked /\ ~line => host.tuned = route[t].image
AcceptedIsTuned == [][AcceptsTheTuned]_vars

\* No request moves the carrier out from under the audio.
KeepsTheCarrier == line => radio'.vfo = radio.vfo \/ faults' > faults
CarrierStaysPut == [][KeepsTheCarrier]_vars

-----------------------------------------------------------------------------
(* For any channels and any number of tuning threads, when a request waits *)
(* for the key-up and the key-up for requests: what holds on the way to    *)
(* the line.                                                               *)
TypedRadio ==
    radio \in [vfo : Maybe, boot : Maybe, fm : BOOLEAN, am : BOOLEAN,
               mute : {"no", "told", "untold"}, held : BOOLEAN]
TypedHost ==
    host \in [tuned : Maybe, pending : Maybe, persist : BOOLEAN, mod : {"none", "FM", "AM"},
              txOk : BOOLEAN, bfm : {"unknown", "on", "off"}, earned : BOOLEAN, lockout : BOOLEAN]
TypedRoutes ==
    route \in [Routes -> [pc : {"idle", "commit", "apply", "store", "restore"}, image : Maybe]]
Typed ==
    /\ TypedRadio /\ TypedHost /\ TypedRoutes
    /\ line \in BOOLEAN /\ key \in KeySteps \cup {"idle"}

\* No conversation of a tuning thread is under way from the key-up to the
\* key-off: what is left is a request that will be told that it is refused.
RoutesWait ==
    /\ key # "idle" => ~line /\ \A t \in Routes : route[t].pc = "idle"
    /\ line => \A t \in Routes : route[t].pc \in {"idle", "commit"}

Awaited == (radio.mute = "told" => host.lockout) /\ (line => radio.mute # "told")

\* What each frame of the key-up has put right stays so, but for what touches it.
OnChannel ==
    /\ line \/ key = "lockout"
    /\ host.tuned # NoImage /\ ~host.persist /\ touched \cap {"retuned", "knob", "power"} = {}
    => radio.vfo = host.tuned
Listened ==
    /\ line \/ key \in {"channel", "vfo", "lockout"}
    /\ radio.fm /\ host.earned
    => "fm" \in touched \/ "declined" \in touched
Modulated ==
    /\ line \/ key \in {"vfo", "lockout"}
    /\ "modulation" \notin touched /\ host.mod # "none"
    /\ host.tuned # NoImage /\ ~host.persist /\ radio.am
    => ~line /\ ~host.txOk

IInv == Typed /\ RoutesWait /\ Awaited /\ OnChannel /\ Listened /\ Modulated

\* A request on its way to its answer is what is staged, with one tuning thread.
Pends ==
    /\ faults \in Nat
    /\ \A t \in Routes :
          route[t].pc = "commit" => route[t].image \in Images /\ host.pending = route[t].image
=============================================================================
