----------------------------- MODULE Uvk5Radio ------------------------------
(***************************************************************************)
(* Driving a UV-K5 by register writes (backends/uvk5/radio.py): key-up is  *)
(* a burst of writes that is confirmed by reading back, key-off puts the   *)
(* receiver and, after a split over, its frequency back.  Key-off also     *)
(* runs on the playout writer's thread when the sound card fails.          *)
(***************************************************************************)
EXTENDS Naturals, FiniteSets

CONSTANTS
    Freqs,        \* frequencies in Hz, as model values
    NoFreq,       \* None
    KeyAttempts,  \* _KEY_ATTEMPTS
    Retunes,      \* attempts of _restore_rx_frequency
    MaxFaults,    \* bound on the faults of a run
    ChipFaults,   \* {"reads_fail", "key_lost", "drop_lost", "retune_lost", "card"}
    PacerOverlaps  \* the writer's key-off may run beside the worker's calls

Threads == {"worker", "pacer"}
Leaving == {"drop", "retune", "check", "clear"}

VARIABLES
    chip,    \* the radio: its mode, its synthesiser, the rail that is on
    host,    \* _keyed, _frequency, _tx_frequency, _closed
    stream,  \* _playback with _pacer: none, live, or failed under its writer
    at,      \* the place of each thread in _key_on and _key_off, and its tries
    deaf,    \* the last _restore_rx_frequency gave up
    faults   \* faults so far

vars == <<chip, host, stream, at, deaf, faults>>

Idle == [pc |-> "idle", tries |-> 0, then |-> "idle"]
Goes(t, pc) == at' = [at EXCEPT ![t].pc = pc]
Fault(kind) == kind \in ChipFaults /\ faults < MaxFaults /\ faults' = faults + 1
TxHz == IF host.tx # NoFreq THEN host.tx ELSE host.hz

\* The server starts on a radio that may be anywhere, keyed included.
Init ==
    /\ chip \in [mode : {"rx", "off", "tx"}, hz : Freqs, rail : {"rx", "pa"}]
    /\ host = [keyed |-> FALSE, hz |-> NoFreq, tx |-> NoFreq, open |-> FALSE]
    /\ stream = "none"
    /\ at = [t \in Threads |-> Idle]
    /\ deaf = FALSE
    /\ faults = 0

\* Seeding: a receiving mode is adopted, any other is overwritten with the
\* stock one; the frequency is taken from the synthesiser, if it is in band.
Connects(hz) ==
    /\ ~host.open /\ at["worker"] = Idle
    /\ hz \in {chip.hz, NoFreq}
    /\ chip' = [chip EXCEPT !.mode = "rx"]
    /\ host' = [host EXCEPT !.open = TRUE, !.hz = hz]
    /\ UNCHANGED <<stream, at, deaf, faults>>

Alone(t) == PacerOverlaps \/ at[t] = Idle
Free == host.open /\ at["worker"] = Idle /\ Alone("pacer")

SetFrequency(hz) ==
    /\ Free /\ ~host.keyed
    /\ chip' = [mode |-> "rx", hz |-> hz, rail |-> "rx"]
    /\ host' = [host EXCEPT !.hz = hz, !.tx = NoFreq]
    /\ deaf' = FALSE
    /\ UNCHANGED <<stream, at, faults>>

SetSplit(tx) ==
    /\ Free /\ ~host.keyed
    /\ tx # NoFreq => host.hz # NoFreq
    /\ host' = [host EXCEPT !.tx = tx]
    /\ UNCHANGED <<chip, stream, at, deaf, faults>>

\* The stream and its writer come before the carrier.
KeyOn ==
    /\ Free /\ ~host.keyed /\ host.hz # NoFreq
    /\ stream' = "live"
    /\ at' = [at EXCEPT !["worker"] = [pc |-> "burst", tries |-> 0, then |-> "idle"]]
    /\ UNCHANGED <<chip, host, deaf, faults>>

\* One burst tunes to the transmit leg, if there is one, and enables TX.
Burst ==
    /\ at["worker"].pc = "burst"
    /\ \/ /\ chip' = [chip EXCEPT !.mode = "tx", !.hz = IF host.tx = NoFreq THEN @ ELSE host.tx]
          /\ UNCHANGED faults
       \/ Fault("key_lost") /\ UNCHANGED chip
    /\ at' = [at EXCEPT !["worker"].pc = "confirm", !["worker"].tries = @ + 1]
    /\ UNCHANGED <<host, stream, deaf>>

\* Reading back until it says TX; too many failures end in key-off.
Confirm ==
    /\ at["worker"].pc = "confirm"
    /\ \/ chip.mode = "tx" /\ Goes("worker", "band") /\ UNCHANGED faults
       \/ /\ chip.mode # "tx" /\ UNCHANGED faults
          /\ Goes("worker", IF at["worker"].tries < KeyAttempts THEN "burst" ELSE "drop")
       \/ /\ Fault("reads_fail")
          /\ Goes("worker", IF at["worker"].tries < KeyAttempts THEN "burst" ELSE "drop")
    /\ UNCHANGED <<chip, host, stream, deaf>>

\* The PA rail, and the gain of the band transmitted in; left to the firmware
\* when its setup cannot be read.
CorrectTxBand ==
    /\ at["worker"].pc = "band"
    /\ \/ chip' = [chip EXCEPT !.rail = "pa"] /\ UNCHANGED faults
       \/ Fault("reads_fail") /\ UNCHANGED chip
    /\ host' = [host EXCEPT !.keyed = TRUE]
    /\ at' = [at EXCEPT !["worker"] = Idle]
    /\ UNCHANGED <<stream, deaf>>

\* ptt(False) and the end of a one-shot transmit, held or not; close, when held.
KeyOff(then) ==
    /\ Free /\ (then = "close" => host.keyed)
    /\ at' = [at EXCEPT !["worker"] = [pc |-> "drop", tries |-> 0, then |-> then]]
    /\ UNCHANGED <<chip, host, stream, deaf, faults>>

Close ==
    /\ Free /\ ~host.keyed
    /\ host' = [host EXCEPT !.open = FALSE]
    /\ UNCHANGED <<chip, stream, at, deaf, faults>>

\* The card fails under the writer, which has something to write only once the
\* radio is keyed, and keys off from its own thread.
CardFails ==
    /\ stream = "live" /\ host.keyed /\ at["pacer"] = Idle /\ Alone("worker")
    /\ Fault("card")
    /\ stream' = "failed"
    /\ at' = [at EXCEPT !["pacer"] = [Idle EXCEPT !.pc = "drop"]]
    /\ UNCHANGED <<chip, host, deaf>>

Drop(t) ==
    /\ at[t].pc = "drop"
    /\ \/ chip' = [chip EXCEPT !.mode = "rx", !.rail = "rx"] /\ UNCHANGED faults
       \/ Fault("drop_lost") /\ UNCHANGED chip
    /\ at' = [at EXCEPT ![t].pc = IF host.tx = NoFreq \/ host.hz = NoFreq
                                  THEN "clear" ELSE "retune",
                           ![t].tries = 0]
    /\ UNCHANGED <<host, stream, deaf>>

Retune(t) ==
    /\ at[t].pc = "retune"
    /\ \/ chip' = [chip EXCEPT !.mode = "rx", !.rail = "rx", !.hz = host.hz] /\ UNCHANGED faults
       \/ Fault("retune_lost") /\ UNCHANGED chip
    /\ at' = [at EXCEPT ![t].pc = "check", ![t].tries = @ + 1]
    /\ UNCHANGED <<host, stream, deaf>>

\* The synthesiser is read back; what it cannot mend is logged.
Check(t) ==
    /\ at[t].pc = "check"
    /\ \/ chip.hz = host.hz /\ Goes(t, "clear") /\ deaf' = FALSE /\ UNCHANGED faults
       \/ /\ chip.hz # host.hz /\ UNCHANGED faults
          /\ Goes(t, IF at[t].tries < Retunes THEN "retune" ELSE "clear")
          /\ deaf' = (at[t].tries >= Retunes)
       \/ Fault("reads_fail") /\ Goes(t, "clear") /\ deaf' = TRUE
    /\ UNCHANGED <<chip, host, stream>>

Clear(t) ==
    /\ at[t].pc = "clear"
    /\ host' = [host EXCEPT !.keyed = FALSE, !.open = @ /\ at[t].then # "close"]
    /\ stream' = "none"
    /\ at' = [at EXCEPT ![t] = Idle]
    /\ UNCHANGED <<chip, deaf, faults>>

Next ==
    \/ \E hz \in Freqs \cup {NoFreq} : Connects(hz) \/ SetSplit(hz)
    \/ \E hz \in Freqs : SetFrequency(hz)
    \/ KeyOn \/ Burst \/ Confirm \/ CorrectTxBand
    \/ \E then \in {"idle", "close"} : KeyOff(then)
    \/ Close \/ CardFails
    \/ \E t \in Threads : Drop(t) \/ Retune(t) \/ Check(t) \/ Clear(t)

Spec == Init /\ [][Next]_vars

TypeOK ==
    /\ chip \in [mode : {"rx", "off", "tx"}, hz : Freqs, rail : {"rx", "pa"}]
    /\ host \in [keyed : BOOLEAN, hz : Freqs \cup {NoFreq}, tx : Freqs \cup {NoFreq}, open : BOOLEAN]
    /\ stream \in {"none", "live", "failed"}
    /\ at \in [Threads -> [pc : {"idle", "burst", "confirm", "band"} \cup Leaving,
                           tries : 0 .. KeyAttempts + Retunes, then : {"idle", "close"}]]
    /\ deaf \in BOOLEAN /\ faults \in 0 .. MaxFaults

Quiet == \A t \in Threads : at[t] = Idle

\* A carrier is up only for an over somebody holds or is ending: between calls
\* the radio transmits exactly when the host says so, on the leg it was told,
\* and after the server has left it does not transmit.
CarrierIsHeld == Quiet /\ host.hz # NoFreq => (chip.mode = "tx") = (host.keyed /\ host.open)

\* Unless it said that it is not, the station is where it was told to be: on
\* the transmit leg while it is keyed, back on the receive frequency after.
StationIsWhereTold ==
    Quiet /\ host.open /\ host.hz # NoFreq /\ ~deaf =>
        chip.hz = IF host.keyed THEN TxHz ELSE host.hz

\* An over goes out where the station was last told to transmit.  Not so when
\* the retune after a split over was lost and the split then cleared.
KeyedWhereTold == Quiet /\ host.keyed => chip.hz = TxHz

-----------------------------------------------------------------------------
(* For any frequencies, budgets and other faults: what each thread on its  *)
(* way through _key_on and _key_off may rely on about the carrier.         *)
Typed ==
    /\ chip \in [mode : {"rx", "off", "tx"}, hz : Freqs, rail : {"rx", "pa"}]
    /\ host \in [keyed : BOOLEAN, hz : Freqs \cup {NoFreq}, tx : Freqs \cup {NoFreq}, open : BOOLEAN]
    /\ at \in [Threads -> [pc : {"idle", "burst", "confirm", "band"} \cup Leaving,
                           tries : Nat, then : {"idle", "close"}]]

\* The writer keys off beside nobody.
Apart == at["worker"] = Idle \/ at["pacer"] = Idle

\* Past the drop the carrier is down; confirmed, it is up; and a server that is
\* connected, or has been and knows its frequency, left it as its key says.
Follows ==
    /\ at["pacer"].pc \in Leaving \cup {"idle"}
    /\ at["worker"].pc \in {"burst", "confirm"} => ~host.keyed
    /\ at["worker"].pc = "band" => ~host.keyed /\ chip.mode = "tx"
    /\ \A t \in Threads : at[t].pc \in Leaving \ {"drop"} => chip.mode # "tx"
    /\ ~host.open => ~host.keyed /\ Quiet
    /\ Quiet /\ (host.open \/ host.hz # NoFreq) =>
          (chip.mode = "tx") = (host.keyed /\ host.open)

IInv == Typed /\ Apart /\ Follows

\* Where the synthesiser is while a thread is on its way, unless it was said
\* that the receive frequency is lost: a burst that got through has it on the
\* transmit leg, and from there the retune, read back, takes it off again.
Placed ==
    ~deaf /\ host.hz # NoFreq =>
        /\ Quiet /\ host.open => chip.hz = IF host.keyed THEN TxHz ELSE host.hz
        /\ at["worker"].pc \in {"burst", "confirm"} =>
              chip.hz = IF chip.mode = "tx" THEN TxHz ELSE host.hz
        /\ at["worker"].pc = "band" => chip.hz = TxHz
        /\ \A t \in Threads :
              at[t].pc = "clear" \/ (at[t].pc = "drop" /\ host.tx = NoFreq) => chip.hz = host.hz
=============================================================================
