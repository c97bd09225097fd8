------------------------------ MODULE TxKeying ------------------------------
(***************************************************************************)
(* Who may key the one transmitter of a radio-server station.              *)
(*                                                                         *)
(* Three kinds of talker stream audio to RF: browsers on the websocket     *)
(* /audio/tx, the Mumble relay (link/bridge.py) and the D-STAR reflector   *)
(* relay (dstar/bridge.py).  They share                                    *)
(*   - the TxSlot, a flag claimed by whoever talks,                        *)
(*   - the RadioArbiter latch `transmitting`, which tells the receive side *)
(*     to stand down,                                                      *)
(*   - the PTT line of the radio, which POST /ptt and the time-out timer   *)
(*     also drive.                                                         *)
(* Each of them owns a TxSession while it talks.  All of it runs on one    *)
(* asyncio loop: a step of this module is the code between two awaits, and *)
(* other talkers, a cancellation or a fault come in at the awaits.         *)
(***************************************************************************)
CONSTANTS Browsers,   \* connections of /audio/tx
          Relays,     \* Mumble bridges
          Dstars,     \* D-STAR bridges
          NoTalker,   \* the slot is free
          Faults      \* the radio calls that may raise

Talkers == Browsers \cup Relays \cup Dstars

ASSUME TalkersAssumption ==
    /\ Browsers \cap Relays = {}
    /\ Browsers \cap Dstars = {}
    /\ Relays \cap Dstars = {}
    /\ NoTalker \notin Talkers
ASSUME FaultsAssumption == Faults \subseteq {"ptt_on", "ptt_off", "transmit"}

VARIABLES
    slot,          \* TxSlot: its holder, or NoTalker
    transmitting,  \* RadioArbiter._transmitting
    keyed,         \* the talkers whose live TxSession has _keyed set
    line,          \* the PTT line: low, or who raised it
    pc,            \* where each talker's coroutine is parked
    held           \* the D-STAR bridges with _rx_slot_held set

vars == <<slot, transmitting, keyed, line, pc, held>>
radioVars == <<transmitting, keyed, line>>

-----------------------------------------------------------------------------
(* The keying state a TxSession call changes, as a value, so that calls    *)
(* made one after the other without an await compose into one step.        *)

Radio == [keyed |-> keyed, tx |-> transmitting, line |-> line]

Becomes(r) ==
    /\ keyed' = r.keyed
    /\ transmitting' = r.tx
    /\ line' = r.line

RadioErrors == {"refused", "fault"}     \* RadioUnavailable, any other Exception

\* Mutants of close: one that trusts the caller and lets the arbiter go for a
\* session that never keyed, one that loses ptt(False) when the sign-off ID
\* raises, and one that forgets the arbiter.
CloseUnguarded(r, t) ==
    {[keyed |-> r.keyed \ {t}, tx |-> FALSE, line |-> "low"]}

CloseSkipsPtt(r, t) ==
    IF t \notin r.keyed THEN {r}
    ELSE {[keyed |-> r.keyed \ {t}, tx |-> FALSE, line |-> l] :
             l \in {"low"} \cup {x \in {r.line} : "transmit" \in Faults}}

CloseKeepsLatch(r, t) ==
    IF t \notin r.keyed THEN {r}
    ELSE {[keyed |-> r.keyed \ {t}, tx |-> TRUE, line |-> "low"]}

\* TxSession.close: the sign-off ID is guarded, ptt(False) is not.  When it
\* raises, neither _keyed nor the arbiter has been touched.
CloseOutcomes(r, t) ==
    IF t \notin r.keyed THEN {r}
    ELSE {[keyed |-> r.keyed \ {t}, tx |-> FALSE, line |-> "low"]}
         \cup {x \in {[r EXCEPT !.line = l] : l \in {r.line, "low"}} :
                  "ptt_off" \in Faults}

\* close, and then the session object is dropped whatever close did.
EndOutcomes(r, t) ==
    {[c EXCEPT !.keyed = @ \ {t}] : c \in CloseOutcomes(r, t)}

\* Mutants of _key_up: one that does not ask the arbiter, one whose unwind
\* also covers the refusal by the arbiter, and one without an unwind for a
\* ptt(True) that raises.
KeyUpUnasked(r, t) ==
    {[radio |-> [keyed |-> r.keyed \cup {t}, tx |-> TRUE, line |-> "talker"],
      exc |-> "none"]}

KeyUpUnwindsAll(r, t) ==
    {[radio |-> IF r.tx THEN [r EXCEPT !.tx = FALSE]
                ELSE [keyed |-> r.keyed \cup {t}, tx |-> TRUE, line |-> "talker"],
      exc |-> IF r.tx THEN "arbiter" ELSE "none"]}

KeyUpKeepsClaim(r, t) ==
    IF r.tx THEN {[radio |-> r, exc |-> "arbiter"]}
    ELSE {[radio |-> [keyed |-> r.keyed \cup {t}, tx |-> TRUE, line |-> "talker"],
           exc |-> "none"]}
         \cup {o \in [radio : {[r EXCEPT !.tx = TRUE]}, exc : RadioErrors] :
                  "ptt_on" \in Faults}

\* TxSession._key_up followed by the first transmit.  The claim of the
\* arbiter is undone when ptt(True) raises, and close is the unwind when the
\* key-up ID cannot be sent (its own failure is suppressed there).
KeyUpOutcomes(r, t) ==
    LET up == [keyed |-> r.keyed \cup {t}, tx |-> TRUE, line |-> "talker"]
    IN  IF r.tx THEN {[radio |-> r, exc |-> "arbiter"]}
        ELSE {[radio |-> up, exc |-> "none"]}
             \cup {o \in [radio : {r}, exc : RadioErrors] : "ptt_on" \in Faults}
             \cup {o \in [radio : CloseOutcomes(up, t) \cup {up},
                          exc : RadioErrors] : "transmit" \in Faults}

\* Mutant of feed: an empty frame ends the over.
FeedEndsOnEmpty(r, t) ==
    {[radio |-> c, exc |-> "none"] : c \in CloseOutcomes(r, t)}
    \cup IF t \in r.keyed THEN {[radio |-> r, exc |-> "none"]}
         ELSE KeyUpOutcomes(r, t)

\* TxSession.feed: a partial frame raises before anything is touched, an
\* empty one is skipped, a real one keys up first when needed.
FeedOutcomes(r, t) ==
    {[radio |-> r, exc |-> "format"], [radio |-> r, exc |-> "none"]}
    \cup IF t \in r.keyed
         THEN {o \in [radio : {r}, exc : RadioErrors] : "transmit" \in Faults}
         ELSE KeyUpOutcomes(r, t)

-----------------------------------------------------------------------------
Init ==
    /\ slot = NoTalker
    /\ transmitting = FALSE
    /\ keyed = {}
    /\ line = "low"
    /\ pc = [t \in Talkers |-> "off"]
    /\ held = {}

Goto(t, p) == pc' = [pc EXCEPT ![t] = p]

\* TxSlot.try_acquire and TxSlot.release: release asks nobody who holds it.
TryAcquire(t) == slot = NoTalker /\ slot' = t
Release == slot' = NoTalker

-----------------------------------------------------------------------------
(* The browser endpoint /audio/tx inside its talker_slot scope.            *)

\* The claim, made before the first await.
Connect(b) ==
    /\ pc[b] = "off"
    /\ \/ TryAcquire(b) /\ Goto(b, "handshake")
       \/ slot # NoTalker /\ Goto(b, "busy") /\ UNCHANGED slot
    /\ UNCHANGED <<radioVars, held>>

\* Mutant: the scope releases whatever it did not acquire.
RefusedReleases(b) ==
    /\ pc[b] = "busy"
    /\ Release
    /\ Goto(b, "off")
    /\ UNCHANGED <<radioVars, held>>

\* A refused talker is accepted, told "busy" and closed: the scope exit
\* releases only what was acquired.
RefusedLeaves(b) ==
    /\ pc[b] = "busy"
    /\ Goto(b, "off")
    /\ UNCHANGED <<slot, radioVars, held>>

\* The format declaration was received and "ready" sent.
Ready(b) ==
    /\ pc[b] = "handshake"
    /\ Goto(b, "frames")
    /\ UNCHANGED <<slot, radioVars, held>>

\* Mutant: the handshake fails outside the scope that would release.
HandshakeLeaks(b) ==
    /\ pc[b] = "handshake"
    /\ Goto(b, "off")
    /\ UNCHANGED <<slot, radioVars, held>>

\* Time-out, bad format, disconnection or cancellation in the handshake.
HandshakeFails(b) ==
    /\ pc[b] = "handshake"
    /\ Release
    /\ Goto(b, "off")
    /\ UNCHANGED <<radioVars, held>>

\* The `finally` of the endpoint and the exit of its talker_slot scope,
\* entered with the keying state r.
BrowserExit(b, r) ==
    /\ \E e \in EndOutcomes(r, b) : Becomes(e)
    /\ Release
    /\ Goto(b, "off")
    /\ UNCHANGED held

\* One payload was received and is fed.  RadioUnavailable and a bad frame
\* are reported to the client over the socket (an await) before the exit;
\* any other exception goes straight to it.
BrowserFeeds(b) ==
    /\ pc[b] = "lockout" \/ (pc[b] = "frames" /\ b \in keyed)
    /\ \E o \in FeedOutcomes(Radio, b) :
          \/ /\ o.exc = "none"
             /\ Becomes(o.radio) /\ Goto(b, "frames") /\ UNCHANGED <<slot, held>>
          \/ /\ o.exc \in {"format", "refused"}
             /\ Becomes(o.radio) /\ Goto(b, "closing") /\ UNCHANGED <<slot, held>>
          \/ /\ o.exc \in {"arbiter", "fault"}
             /\ BrowserExit(b, o.radio)

\* The idle window passed without a payload.
BrowserIdles(b) == pc[b] = "stalled" /\ BrowserExit(b, Radio)

\* The last message of a refusal or a bad frame is out.
BrowserFinishes(b) == pc[b] = "closing" /\ BrowserExit(b, Radio)

\* The peer disconnects, or shutdown cancels the endpoint at an await.
BrowserHangsUp(b) ==
    /\ pc[b] \in {"frames", "lockout"}
    /\ BrowserExit(b, Radio)

-----------------------------------------------------------------------------
(* The Mumble relay, MumbleBridge._mumble_to_rf.                           *)

RelayStarts(m) ==
    /\ pc[m] = "off"
    /\ Goto(m, "idle")
    /\ UNCHANGED <<slot, radioVars, held>>

\* A frame arrives with no session open: claim the slot, or drop the frame.
RelayClaims(m) ==
    /\ pc[m] = "idle"
    /\ TryAcquire(m)
    /\ Goto(m, "lockout")
    /\ UNCHANGED <<radioVars, held>>

\* MumbleBridge._end_session, entered with the keying state r.
RelayEndSession(m, r, next) ==
    /\ \E e \in EndOutcomes(r, m) : Becomes(e)
    /\ Release
    /\ Goto(m, next)
    /\ UNCHANGED held

\* Mutant: a relay that parks on its way out, as a browser does.
RelayFeedsReports(m) ==
    /\ pc[m] = "lockout" \/ (pc[m] = "frames" /\ m \in keyed)
    /\ \E o \in FeedOutcomes(Radio, m) :
          /\ Becomes(o.radio)
          /\ Goto(m, IF o.exc = "none" THEN "frames" ELSE "closing")
    /\ UNCHANGED <<slot, held>>

RelayFeeds(m) ==
    /\ pc[m] = "lockout" \/ (pc[m] = "frames" /\ m \in keyed)
    /\ \E o \in FeedOutcomes(Radio, m) :
          \/ /\ o.exc = "none"
             /\ Becomes(o.radio) /\ Goto(m, "frames") /\ UNCHANGED <<slot, held>>
          \/ /\ o.exc # "none"
             /\ RelayEndSession(m, o.radio, "idle")

\* Mumble was quiet for tx_hang, or a frame came during a DTMF command.
RelayHangs(m) ==
    /\ pc[m] = "stalled"
    /\ RelayEndSession(m, Radio, "idle")

RelayYields(m) ==
    /\ pc[m] = "frames"
    /\ RelayEndSession(m, Radio, "idle")

\* stop() cancels the task at whichever await it is parked on.
RelayStops(m) ==
    \/ /\ pc[m] = "idle"
       /\ Goto(m, "off")
       /\ UNCHANGED <<slot, radioVars, held>>
    \/ /\ pc[m] \in {"lockout", "frames", "stalled"}
       /\ RelayEndSession(m, Radio, "off")

-----------------------------------------------------------------------------
(* A browser or relay that waits for a payload.                            *)

\* Mutant: the lockout is awaited by a talker that is keyed already.
AwaitWhileKeyed(t) ==
    /\ t \in Browsers \cup Relays
    /\ pc[t] = "frames"
    /\ Goto(t, "lockout")
    /\ UNCHANGED <<slot, radioVars, held>>

\* A payload arrives on a session that is not keyed: await_tx_ready first.
AwaitTxReady(t) ==
    /\ t \in Browsers \cup Relays
    /\ pc[t] = "frames"
    /\ t \notin keyed
    /\ Goto(t, "lockout")
    /\ UNCHANGED <<slot, radioVars, held>>

\* The source of the audio falls silent for the talker's idle window.
Stalls(t) ==
    /\ pc[t] = "frames"
    /\ Goto(t, "stalled")
    /\ UNCHANGED <<slot, radioVars, held>>

-----------------------------------------------------------------------------
(* The D-STAR reflector relay.  Its session is opened lazily on the first  *)
(* decoded frame, with the slot when it is free and without it otherwise.  *)

DstarStarts(d) ==
    /\ pc[d] = "off"
    /\ Goto(d, "idle")
    /\ UNCHANGED <<slot, radioVars, held>>

\* DStarBridge._end_rx: close is suppressed, the slot is released if owned.
DstarEndRx(d, r, owned) ==
    /\ \E e \in EndOutcomes(r, d) : Becomes(e)
    /\ slot' = IF owned THEN NoTalker ELSE slot
    /\ held' = held \ {d}
    /\ Goto(d, "idle")

\* DStarBridge._emit_rx_pcm of one frame that passes the gate.
DstarFeeds(d) ==
    /\ pc[d] \in {"idle", "frames"}
    /\ LET claims == pc[d] = "idle" /\ slot = NoTalker
           owned  == claims \/ d \in held
       IN  \E o \in FeedOutcomes(Radio, d) :
              \/ /\ o.exc \in {"none", "format", "arbiter"}
                 /\ Becomes(o.radio)
                 /\ slot' = IF claims THEN d ELSE slot
                 /\ held' = IF claims THEN held \cup {d} ELSE held
                 /\ Goto(d, "frames")
              \/ /\ o.exc \in RadioErrors
                 /\ DstarEndRx(d, o.radio, owned)

\* Mutant: no watchdog for an over whose stream just stops.
DstarEndsOnHeaderOnly(d) ==
    /\ pc[d] = "frames"
    /\ DstarEndRx(d, Radio, d \in held)

\* The stream ends, or one of the bridge's cuts (idle, dead air, over-cap,
\* stream quiet, the watchdog task) closes the over.
DstarEnds(d) ==
    /\ pc[d] \in {"frames", "stalled"}
    /\ DstarEndRx(d, Radio, d \in held)

\* stop(): _force_unkey closes the session and then drops PTT directly,
\* whoever keyed it.
DstarStops(d) ==
    /\ pc[d] # "off"
    /\ \E e \in EndOutcomes(Radio, d), l \in {"low", line} :
          /\ l = "low" \/ "ptt_off" \in Faults
          /\ Becomes([e EXCEPT !.line = IF l = "low" THEN "low" ELSE e.line])
    /\ slot' = IF d \in held THEN NoTalker ELSE slot
    /\ held' = held \ {d}
    /\ Goto(d, "off")

-----------------------------------------------------------------------------
(* The drivers of the PTT line that hold neither slot nor arbiter.         *)

\* POST /ptt.
RestPtt(on) ==
    /\ line' = IF ~on THEN "low" ELSE IF line = "low" THEN "rest" ELSE line
    /\ UNCHANGED <<slot, transmitting, keyed, pc, held>>

\* The time-out timer drops the line under whoever holds it.
TimeOutTimer ==
    /\ line # "low"
    /\ line' = "low"
    /\ UNCHANGED <<slot, transmitting, keyed, pc, held>>

-----------------------------------------------------------------------------
BrowserStep(b) ==
    \/ Connect(b) \/ RefusedLeaves(b) \/ Ready(b) \/ HandshakeFails(b)
    \/ BrowserFeeds(b) \/ BrowserIdles(b) \/ BrowserFinishes(b)
    \/ BrowserHangsUp(b)

RelayStep(m) ==
    \/ RelayStarts(m) \/ RelayClaims(m) \/ RelayFeeds(m) \/ RelayHangs(m)
    \/ RelayYields(m) \/ RelayStops(m)

DstarStep(d) ==
    \/ DstarStarts(d) \/ DstarFeeds(d) \/ DstarEnds(d) \/ DstarStops(d)

Next ==
    \/ \E b \in Browsers : BrowserStep(b)
    \/ \E m \in Relays : RelayStep(m)
    \/ \E d \in Dstars : DstarStep(d)
    \/ \E t \in Talkers : AwaitTxReady(t) \/ Stalls(t)
    \/ \E on \in BOOLEAN : RestPtt(on)
    \/ TimeOutTimer

Spec == Init /\ [][Next]_vars

\* Every timed wait of the code ends (the handshake and idle wait_for, the
\* bounded lockout sleep, the last message to a client, tx_hang and the
\* D-STAR watchdog), and nobody talks for ever.
Fairness ==
    /\ \A b \in Browsers :
          /\ WF_vars(RefusedLeaves(b))
          /\ WF_vars(Ready(b) \/ HandshakeFails(b))
          /\ WF_vars(pc[b] = "lockout" /\ BrowserFeeds(b))
          /\ WF_vars(BrowserIdles(b))
          /\ WF_vars(BrowserFinishes(b))
    /\ \A m \in Relays :
          /\ WF_vars(pc[m] = "lockout" /\ RelayFeeds(m))
          /\ WF_vars(RelayHangs(m))
    /\ \A d \in Dstars : WF_vars(pc[d] = "stalled" /\ DstarEnds(d))
    /\ \A t \in Talkers : SF_vars(Stalls(t))

FairSpec == Spec /\ Fairness

-----------------------------------------------------------------------------
InScope == {"handshake", "frames", "stalled", "lockout", "closing"}

\* The talker's scope owns the slot: what TxSlot.release relies on.
Holds(t) ==
    IF t \in Dstars THEN t \in held ELSE pc[t] \in InScope

BrowserPc == InScope \cup {"off", "busy"}
RelayPc == {"off", "idle", "lockout", "frames", "stalled"}
DstarPc == {"off", "idle", "frames", "stalled"}

(* Every variable has its type; each talker only reaches its own states.   *)
TypeOK ==
    /\ slot \in Talkers \cup {NoTalker}
    /\ transmitting \in BOOLEAN
    /\ keyed \subseteq Talkers
    /\ line \in {"low", "talker", "rest"}
    /\ pc \in [Talkers -> BrowserPc \cup RelayPc \cup DstarPc]
    /\ \A b \in Browsers : pc[b] \in BrowserPc
    /\ \A m \in Relays : pc[m] \in RelayPc
    /\ \A d \in Dstars : pc[d] \in DstarPc
    /\ held \subseteq Dstars

(* No claim is leaked and none is stolen: the slot belongs to a talker     *)
(* exactly while that talker is inside the scope that will release it,     *)
(* whatever raised, was refused or was cancelled on the way.               *)
SlotMatchesScopes == \A t \in Talkers : slot = t <=> Holds(t)

(* Two streams are never keyed at once, not even a D-STAR over (which does *)
(* without the slot) and a browser that holds it.                          *)
OneKeyedTalker == \A t, u \in keyed : t = u

(* While a live session is keyed the arbiter says so: the pump and the     *)
(* scan never read under a transmission, whoever else tried to key, was    *)
(* refused or gave up meanwhile.                                           *)
LatchCoversKeyed == keyed # {} => transmitting

(* A browser or the Mumble relay keys only inside its slot scope, and none *)
(* of them is keyed while it waits out the serial TX lockout, so that a    *)
(* cancellation there strands nothing.                                     *)
KeyedInsideScope ==
    \A t \in keyed :
        /\ pc[t] \in {"frames", "stalled", "closing"}
        /\ t \notin Dstars => slot = t

(* The receiver is never silenced for nobody: when the latch is set, a     *)
(* live session is keyed and will clear it.  Needs a ptt(False) that does  *)
(* not raise.                                                              *)
LatchHasKeyer == transmitting => keyed # {}

(* A carrier raised by a stream has a live session that will drop it.      *)
(* Needs a ptt(False) that does not raise.                                 *)
CarrierHasKeyer == line = "talker" => keyed # {}

(* What the code's comments say of TxSlot, for every claimant: nobody is   *)
(* keyed without the slot.  The D-STAR relay is.                           *)
KeyedHoldsSlot == \A t \in keyed : slot = t

(* An over is ended by its own talker only: no step of another talker, of  *)
(* POST /ptt or of the timer takes a keyed session away.                   *)
OversEndThemselves ==
    [][\A t \in keyed \ keyed' : pc'[t] # pc[t]]_vars

(* Whoever takes the slot lets go of it, through every refusal, fault and  *)
(* stalled client.                                                         *)
SlotComesBack == \A t \in Talkers : slot = t ~> slot # t

(* The receiver always gets the radio back.  Needs a ptt(False) that does  *)
(* not raise.                                                              *)
ReceiverResumes == transmitting ~> ~transmitting

-----------------------------------------------------------------------------
(* The talker that is keyed, as the abstract transmitter sees it.          *)
Owner == IF keyed = {} THEN NoTalker ELSE CHOOSE t \in Talkers : t \in keyed

T == INSTANCE Transmitter WITH owner <- Owner,
                               receiverDown <- transmitting,
                               MayStrand <- "ptt_off" \in Faults

(* Slot, arbiter and sessions implement the one-over transmitter: every    *)
(* step of every talker, fault or hang-up starts an over from a quiet      *)
(* station, ends the one that is on, or changes neither.                   *)
ImplementsTransmitter == T!Spec

(* And every over ends, as long as ptt(False) does not raise.              *)
ImplementsFairTransmitter == T!FairSpec
=============================================================================
