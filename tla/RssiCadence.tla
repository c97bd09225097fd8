---------------------------- MODULE RssiCadence ----------------------------
(***************************************************************************)
(* The signal-strength cadence (activity/rssi_poll.py) and the key-ups of  *)
(* the AIOC backend that must keep it off the dock wire: on this cable an  *)
(* exchange in flight while the PTT line goes up costs the transmission.   *)
(*                                                                         *)
(* The poller is a thread.  It asks whether a key-up is under way, and     *)
(* then takes the wire if nobody has it.  A key-up raises a counter, waits *)
(* for the wire to fall quiet, sends its own frames, samples the wire for  *)
(* the record and asserts the line.                                        *)
(***************************************************************************)
EXTENDS Integers, FiniteSets

CONSTANTS Keyers,      \* the threads that key
          Stale,       \* intervals after which a reading is no longer shown
          Levels,      \* what the receiver may report; 0 is no reading
          Stalls,      \* "poller": the thread may be suspended between its
                       \* check and the wire for a whole drain;
                       \* "drain": the wait for a quiet wire may time out
          OutlastsPoll,\* no over is shorter than an exchange
          MaxPolls, MaxTime

Nobody == "nobody"
NoReading == 0
NotOpen == 0 - 1

VARIABLES
    poller,    \* where the cadence thread is
    asked,     \* when the exchange in flight was sent
    stopping,  \* its stop event
    wire,      \* who holds the transport's wire lock
    exchanges, \* round trips completed
    reading,   \* _reading, with the time of its question and of its answer
    pc,        \* where each keying thread is
    keying,    \* _keying: key-ups under way
    transmitting, \* the flag that goes up before the line
    line,      \* the PTT line
    record,    \* _key_up_exchanges and the wire_busy sample of each key-up
    straddles, \* an exchange was in flight at the assert of this over
    missed,    \* such an over has ended and neither counter moved
    now

cadence == <<poller, asked, stopping, reading>>
keyup == <<pc, keying, transmitting, line, record, straddles, missed>>
vars == <<poller, asked, stopping, wire, exchanges, reading, pc, keying,
          transmitting, line, record, straddles, missed, now>>

NoRecord == [opened |-> NotOpen, busy |-> FALSE]

Init ==
    /\ poller = "waiting"
    /\ asked = 0
    /\ stopping = FALSE
    /\ wire = Nobody
    /\ exchanges = 0
    /\ reading = [value |-> NoReading, sent |-> 0, at |-> 0]
    /\ pc = [k \in Keyers |-> "idle"]
    /\ keying = 0
    /\ transmitting = FALSE
    /\ line = FALSE
    /\ record = NoRecord
    /\ straddles = FALSE
    /\ missed = FALSE
    /\ now = 0

-----------------------------------------------------------------------------
(* The cadence. *)

Paused == transmitting \/ keying > 0

\* The top of a round: the loop ends at the stop event, and a paused round
\* is skipped.
Round ==
    /\ poller = "waiting"
    /\ poller' = IF stopping THEN "ended"
                 ELSE IF Paused THEN "waiting" ELSE "checked"
    /\ poller' # "waiting"
    /\ UNCHANGED <<asked, stopping, wire, exchanges, reading, now>>
    /\ UNCHANGED keyup

\* The probe takes the wire without waiting: a busy wire is a round without
\* a reading.
Probe ==
    /\ poller = "checked"
    /\ exchanges < MaxPolls
    /\ \/ /\ wire = Nobody
          /\ wire' = "poller"
          /\ poller' = "exchange"
          /\ asked' = now
       \/ /\ wire # Nobody
          /\ poller' = "waiting"
          /\ UNCHANGED <<wire, asked>>
    /\ UNCHANGED <<stopping, exchanges, reading, now>>
    /\ UNCHANGED keyup

\* The round trip ends with a level, with zero (no reading) or with nothing:
\* only a level changes what is held.
Answer(level) ==
    [value |-> level, sent |-> asked, at |-> now]

ProbeEnds ==
    /\ poller = "exchange"
    /\ wire' = Nobody
    /\ exchanges' = exchanges + 1
    /\ poller' = "waiting"
    /\ \E level \in Levels :
          reading' = IF level = NoReading THEN reading ELSE Answer(level)
    /\ UNCHANGED <<asked, stopping, now>>
    /\ UNCHANGED keyup

Stop ==
    /\ ~stopping
    /\ stopping' = TRUE
    /\ UNCHANGED <<poller, asked, wire, exchanges, reading, now>>
    /\ UNCHANGED keyup

\* A status that shows the last reading for as long as it is held.
ShownForEver == IF transmitting THEN NoReading ELSE reading.value

\* reading(), as status() shows it: none while transmitting, none once it is
\* older than the window.
Shown ==
    IF transmitting \/ now - reading.at > Stale THEN NoReading ELSE reading.value

-----------------------------------------------------------------------------
(* A key-up of the AIOC backend. *)

Goto(k, p) == pc' = [pc EXCEPT ![k] = p]

\* Of two key-ups one drives the line at a time: the second is refused by
\* the slot or finds the radio keyed.
LineIsFree == \A k \in Keyers : pc[k] \in {"idle", "reserved", "quiet"}

\* _reserve_the_wire, first half: no poll may start from here on.
Reserve(k) ==
    /\ pc[k] = "idle"
    /\ Goto(k, "reserved")
    /\ keying' = keying + 1
    /\ UNCHANGED <<transmitting, line, record, straddles, missed, wire,
                   exchanges, now>>
    /\ UNCHANGED cadence

\* wait_for_quiet: it takes the wire and gives it back, or times out.
Drain(k) ==
    /\ pc[k] = "reserved"
    /\ wire = Nobody \/ "drain" \in Stalls
    /\ "poller" \notin Stalls => poller # "checked"
    /\ Goto(k, "quiet")
    /\ UNCHANGED <<keying, transmitting, line, record, straddles, missed,
                   wire, exchanges, now>>
    /\ UNCHANGED cadence

\* The frames of the pre-flight: each holds the wire for its round trip.
PreflightSends(k) ==
    /\ pc[k] = "quiet"
    /\ wire = Nobody
    /\ exchanges < MaxPolls
    /\ wire' = k
    /\ UNCHANGED <<exchanges, now>>
    /\ UNCHANGED keyup
    /\ UNCHANGED cadence

\* A finally that a refusal jumps over.
ReleasedUnlessRefused(k) ==
    keying' = IF pc'[k] = "idle" /\ ~transmitting THEN keying ELSE keying - 1

Released(k) == keying' = keying - 1

\* The frame is answered, or the radio refuses the key-up.
PreflightEnds(k) ==
    /\ pc[k] = "quiet"
    /\ wire = k
    /\ wire' = Nobody
    /\ exchanges' = exchanges + 1
    /\ \/ UNCHANGED <<pc, keying>>
       \/ Goto(k, "idle") /\ Released(k)
    /\ UNCHANGED <<transmitting, line, record, straddles, missed, now>>
    /\ UNCHANGED cadence

SampleWire == [opened |-> exchanges, busy |-> wire # Nobody]

\* _key_on_locked: the wire is sampled and the playback stream is opened.
Sample(k) ==
    /\ pc[k] = "quiet"
    /\ wire # k
    /\ LineIsFree
    /\ Goto(k, "sampled")
    /\ record' = SampleWire
    /\ UNCHANGED <<keying, transmitting, line, straddles, missed, wire,
                   exchanges, now>>
    /\ UNCHANGED cadence

\* The flag, then the line.  A write that raises undoes both.
Assert(k) ==
    /\ pc[k] = "sampled"
    /\ \/ /\ Goto(k, "on")
          /\ transmitting' = TRUE
          /\ line' = TRUE
          /\ straddles' = (wire # Nobody)
          /\ UNCHANGED record
       \/ /\ Goto(k, "idle")
          /\ record' = NoRecord
          /\ UNCHANGED <<transmitting, line, straddles>>
    /\ Released(k)
    /\ UNCHANGED <<missed, wire, exchanges, now>>
    /\ UNCHANGED cadence

\* _key_off: the line drops and the interval closes.  The over is on record
\* if the wire was busy at its sample or an exchange has ended since.
Counted == record.busy \/ exchanges > record.opened

KeyOff(k) ==
    /\ pc[k] = "on"
    /\ OutlastsPoll => poller # "exchange"
    /\ Goto(k, "idle")
    /\ transmitting' = FALSE
    /\ line' = FALSE
    /\ missed' = (straddles /\ ~Counted)
    /\ record' = NoRecord
    /\ straddles' = FALSE
    /\ UNCHANGED <<keying, wire, exchanges, now>>
    /\ UNCHANGED cadence

Tick ==
    /\ now < MaxTime
    /\ now' = now + 1
    /\ UNCHANGED <<wire, exchanges>>
    /\ UNCHANGED cadence
    /\ UNCHANGED keyup

Next ==
    \/ Round \/ Probe \/ ProbeEnds \/ Stop \/ Tick
    \/ \E k \in Keyers :
          \/ Reserve(k) \/ Drain(k) \/ PreflightSends(k) \/ PreflightEnds(k)
          \/ Sample(k) \/ Assert(k) \/ KeyOff(k)

Spec == Init /\ [][Next]_vars

-----------------------------------------------------------------------------
TypeOK ==
    /\ poller \in {"waiting", "checked", "exchange", "ended"}
    /\ asked \in 0..MaxTime
    /\ stopping \in BOOLEAN
    /\ wire \in Keyers \cup {"poller", Nobody}
    /\ exchanges \in 0..MaxPolls + 1
    /\ reading \in [value : Levels, sent : 0..MaxTime, at : 0..MaxTime]
    /\ pc \in [Keyers -> {"idle", "reserved", "quiet", "sampled", "on"}]
    /\ keying \in Int
    /\ transmitting \in BOOLEAN
    /\ line \in BOOLEAN
    /\ record \in [opened : 0 - 1..MaxPolls + 1, busy : BOOLEAN]
    /\ straddles \in BOOLEAN
    /\ missed \in BOOLEAN
    /\ now \in 0..MaxTime

\* What status() shows was asked of the radio within the window and one
\* exchange: a cadence that the wire has starved goes quiet.
ShownIsFresh ==
    Shown # NoReading =>
        now - reading.sent <= Stale + (reading.at - reading.sent)

\* The cadence is held off exactly while a key-up or an over is under way:
\* no refusal strands it.
PausesEnd == (\A k \in Keyers : pc[k] = "idle") => ~Paused

\* No exchange is in flight when the line goes up: the counter keeps new
\* polls off, and the drain waits for the one under way.
AssertIsQuiet == ~straddles

\* An over whose assert an exchange straddled is on the record, by the
\* sample or by the count of exchanges.
TornAssertIsCounted == ~missed

-----------------------------------------------------------------------------
(* For any keying threads, levels and stalls, when no over is shorter than *)
(* an exchange.  What is on record is for the one thread that keys.        *)
KeyersAssumption ==
    /\ IsFiniteSet(Keyers)
    /\ {"poller", Nobody} \cap Keyers = {}
    /\ Stale \in Int

Typed ==
    /\ poller \in {"waiting", "checked", "exchange", "ended"}
    /\ pc \in [Keyers -> {"idle", "reserved", "quiet", "sampled", "on"}]
    /\ record \in [opened : Int, busy : BOOLEAN]
    /\ reading \in [value : Levels \cup {NoReading}, sent : Int, at : Int]
    /\ keying \in Int /\ exchanges \in Nat /\ now \in Int /\ asked \in Int

\* The counter counts the key-ups under way, and the flag is up for the one
\* thread that is keyed.
Keys(k) == pc[k] \in {"reserved", "quiet", "sampled"}
KeyUpsCounted == keying = Cardinality({k \in Keyers : Keys(k)})
OneKeys == \A j, k \in Keyers : {pc[j], pc[k]} \subseteq {"sampled", "on"} => j = k
Flagged == transmitting <=> \E k \in Keyers : pc[k] = "on"

\* The wire is the poller's while it exchanges, or of a key-up that has drained.
Held ==
    /\ wire = "poller" <=> poller = "exchange"
    /\ wire \in Keyers \cup {"poller", Nobody}
    /\ \A k \in Keyers : wire = k => pc[k] = "quiet"

\* With one thread that keys, what straddled its assert is the exchange that is
\* in flight, or is counted.
OneThread == \A j, k \in Keyers : j = k
InFlight ==
    /\ record.opened <= exchanges
    /\ straddles => transmitting
    /\ OneThread => (straddles => Counted \/ poller = "exchange") /\ ~missed

IInv == Typed /\ KeyUpsCounted /\ OneKeys /\ Flagged /\ Held /\ InFlight
=============================================================================
