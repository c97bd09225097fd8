-------------------------------- MODULE Scan --------------------------------
(***************************************************************************)
(* The software scan (scan/engine.py): tune, let the reading settle, poll  *)
(* the squelch, stay on activity or go on; and the task that ticks it and  *)
(* the routes that start and stop that task (scan/runner.py).              *)
(***************************************************************************)
EXTENDS Naturals, Sequences, FiniteSets

CONSTANTS
    Channels,       \* the plan, a sequence of frequencies
    Lockout,        \* the frequencies of the plan that are skipped
    Priority,       \* the priority channel, or NoFreq
    NoFreq,
    Mode,           \* ResumeMode: "carrier", "timed" or "hold"
    Settle, Dwell,  \* in ticks
    Tasks,          \* scan tasks that may exist at once
    MaxMoves,       \* bound on carriers coming and going, and on faults
    StartsInStop    \* a start may come while a stop joins the task

VARIABLES
    radio,    \* its frequency and what its squelch says
    air,      \* the frequencies with a carrier
    tx,       \* the arbiter: transmitting
    engine,   \* the engine of the runner, or None
    running,  \* _running
    task,     \* each task: absent, new, asleep, cancelled, dead
    current,  \* _task
    stopping, \* stop() is joining this task
    moves

vars == <<radio, air, tx, engine, running, task, current, stopping, moves>>

Freqs == {Channels[i] : i \in 1 .. Len(Channels)}
None == "none"
Active == SelectSeq(Channels, LAMBDA c : c \notin Lockout)
NoEngine == [state |-> "none", i |-> 1, freq |-> NoFreq, age |-> 0, left |-> 0]

Init ==
    /\ radio = [at |-> Channels[1], says |-> FALSE]
    /\ air \in SUBSET Freqs /\ tx = FALSE
    /\ engine = NoEngine /\ running = FALSE
    /\ task = [t \in Tasks |-> "absent"]
    /\ current = None /\ stopping = None
    /\ moves = 0

\* ---- ScanEngine ----
\* A reading taken right after a tune is still that of the channel left.
Tuned(r, freq) == [r EXCEPT !.at = freq]

Listen(e, i) == [e EXCEPT !.state = "listening", !.i = i, !.freq = Active[i], !.age = 0]

Stay(e, freq) ==
    [e EXCEPT !.freq = freq, !.state = IF Mode = "hold" THEN "held" ELSE "dwelling",
              !.left = IF Mode = "timed" THEN Dwell ELSE @]

\* The next channel; before it a peek at the priority channel, which is not
\* given the time to settle.
Advance(e, r, fresh) ==
    IF Priority # NoFreq /\ IF fresh THEN Priority \in air ELSE r.says
    THEN [engine |-> Stay(e, Priority), radio |-> Tuned(r, Priority)]
    ELSE LET i == (e.i % Len(Active)) + 1
         IN [engine |-> Listen(e, i), radio |-> Tuned(r, Active[i])]
Still(e, r) == [engine |-> e, radio |-> r]

\* What a tick does to the engine and the radio: nothing in an over.
Tick(e, r, fresh) ==
    CASE tx \/ e.state \in {"held", "done"} -> Still(e, r)
      [] ~tx /\ e.state = "idle" ->
            IF Active = <<>> THEN Still([e EXCEPT !.state = "done"], r)
            ELSE [engine |-> Listen(e, 1), radio |-> Tuned(r, Active[1])]
      [] ~tx /\ e.state = "listening" ->
            IF e.age < Settle THEN Still(e, r)
            ELSE IF r.says THEN Still(Stay(e, e.freq), r) ELSE Advance(e, r, fresh)
      [] ~tx /\ e.state = "dwelling" ->
            IF IF Mode = "carrier" THEN r.says ELSE e.left > 0 THEN Still(e, r) ELSE Advance(e, r, fresh)

\* ---- ScanRunner ----
Starts(t) ==
    /\ current = None /\ (StartsInStop \/ stopping = None)
    /\ task[t] = "absent"
    /\ engine' = [NoEngine EXCEPT !.state = "idle"]
    /\ running' = TRUE
    /\ task' = [task EXCEPT ![t] = "new"] /\ current' = t
    /\ UNCHANGED <<radio, air, tx, stopping, moves>>

\* One round of run(): the loop's own end, a tick, or a tick that raises; a
\* runner without an engine raises too.
Runs(t) ==
    /\ task[t] \in {"new", "asleep"}
    /\ \/ /\ task[t] = "asleep" /\ ~running
          /\ task' = [task EXCEPT ![t] = "dead"] /\ running' = FALSE
          /\ UNCHANGED <<engine, radio, moves>>
       \/ /\ task[t] = "new" \/ running
          /\ engine # NoEngine
          /\ \E fresh \in BOOLEAN :
                LET next == Tick(engine, radio, fresh) IN engine' = next.engine /\ radio' = next.radio
          /\ task' = [task EXCEPT ![t] = "asleep"] /\ running' = TRUE /\ UNCHANGED moves
       \/ /\ task[t] = "new" \/ running
          /\ engine = NoEngine \/ moves < MaxMoves
          /\ moves' = IF engine = NoEngine THEN moves ELSE moves + 1
          /\ task' = [task EXCEPT ![t] = "dead"] /\ running' = FALSE
          /\ UNCHANGED <<engine, radio>>
    /\ UNCHANGED <<air, tx, current, stopping>>

\* stop(): cleared before the join, and once more after it.
Stops ==
    /\ current # None /\ stopping = None
    /\ stopping' = current /\ current' = None /\ running' = FALSE
    /\ task' = IF task[current] = "dead" THEN task ELSE [task EXCEPT ![current] = "cancelled"]
    /\ UNCHANGED <<radio, air, tx, engine, moves>>

Cancelled(t) ==
    /\ task[t] = "cancelled"
    /\ task' = [task EXCEPT ![t] = "dead"] /\ running' = FALSE
    /\ UNCHANGED <<radio, air, tx, engine, current, stopping, moves>>

\* The join ends with the task; one stalled in the radio is left behind.
StopEnds ==
    /\ stopping # None
    /\ task[stopping] = "dead"
    /\ engine' = NoEngine
    /\ task' = [task EXCEPT ![stopping] = "absent"]
    /\ stopping' = None
    /\ UNCHANGED <<radio, air, tx, running, current, moves>>

\* ---- around it ----
Passes ==
    /\ \/ engine.age < Settle \/ engine.left > 0
       \/ radio.says # (radio.at \in air)
    /\ engine' = [engine EXCEPT !.age = IF engine # NoEngine /\ @ < Settle THEN @ + 1 ELSE @,
                                !.left = IF @ > 0 THEN @ - 1 ELSE @]
    /\ radio' = [radio EXCEPT !.says = (radio.at \in air)]
    /\ UNCHANGED <<air, tx, running, task, current, stopping, moves>>

Carrier(freq) ==
    /\ moves < MaxMoves /\ moves' = moves + 1
    /\ air' = IF freq \in air THEN air \ {freq} ELSE air \cup {freq}
    /\ radio' = IF engine.age >= Settle THEN [radio EXCEPT !.says = (radio.at \in air')] ELSE radio
    /\ UNCHANGED <<tx, engine, running, task, current, stopping>>

Over ==
    /\ moves < MaxMoves \/ tx
    /\ moves' = IF tx THEN moves ELSE moves + 1
    /\ tx' = ~tx
    /\ UNCHANGED <<radio, air, engine, running, task, current, stopping>>

Next ==
    \/ \E t \in Tasks : Starts(t) \/ Runs(t) \/ Cancelled(t)
    \/ Stops \/ StopEnds \/ Passes \/ Over
    \/ \E freq \in Freqs : Carrier(freq)

Spec == Init /\ [][Next]_vars

\* The loop runs its tasks, time passes, and overs end.
OverEnds == tx /\ Over
Fairness ==
    /\ \A t \in Tasks : WF_vars(Runs(t)) /\ WF_vars(Cancelled(t))
    /\ WF_vars(StopEnds) /\ WF_vars(Passes) /\ WF_vars(OverEnds)
FairSpec == Spec /\ Fairness

TypeOK ==
    /\ radio \in [at : Freqs \cup {Priority}, says : BOOLEAN] /\ air \subseteq Freqs /\ tx \in BOOLEAN
    /\ engine \in [state : {"none", "idle", "listening", "dwelling", "held", "done"}, i : 1 .. Len(Channels),
                   freq : Freqs \cup {NoFreq, Priority}, age : 0 .. Settle, left : 0 .. Dwell]
    /\ running \in BOOLEAN /\ task \in [Tasks -> {"absent", "new", "asleep", "cancelled", "dead"}]
    /\ {current, stopping} \subseteq Tasks \cup {None} /\ moves \in 0 .. MaxMoves

\* A scan that has been started and not stopped has its engine: nothing that
\* ends pulls it from under the task, and what is reported is where it is.
ScanKeepsItsEngine ==
    current # None => engine # NoEngine /\ (engine.freq # NoFreq => radio.at = engine.freq)

\* The scan only stays where there was a carrier when it looked.
HoldsACarrier ==
    engine'.state \in {"dwelling", "held"} /\ engine.state \notin {"dwelling", "held"} =>
        engine'.freq \in air
StaysOnCarriers == [][HoldsACarrier]_vars

\* An over is never retuned, and a locked out channel never listened to.
LeavesOversTuned ==
    /\ tx => radio'.at = radio.at
    /\ radio'.at # radio.at => radio'.at \notin Lockout \/ radio'.at = Priority
OversStayTuned == [][LeavesOversTuned]_vars

\* While the band stays quiet and nobody fails, every channel is listened to
\* again and again.
ScansQuietBand ==
    air = {} /\ running /\ current # None /\ task[current] \in {"new", "asleep"} /\ ~tx
ListensTo(freq) == radio.at = freq
EveryChannelIsHeard ==
    \A freq \in Freqs \ Lockout : <>[]ScansQuietBand => []<>ListensTo(freq)

-----------------------------------------------------------------------------
(* Why, when no start comes while a stop joins the task: the task that      *)
(* ticks is the one a start made, the radio is where the engine listens,    *)
(* and once the settle time is over the reading is that of this channel.    *)
PlanAssumption ==
    /\ Settle \in Nat \ {0} /\ Dwell \in Nat
    /\ NoFreq \notin Freqs
    /\ Active \in Seq(Freqs \ Lockout)  \* what SelectSeq gives
    /\ \A t \in Tasks : t # None

EngineStates == {"none", "idle", "listening", "dwelling", "held", "done"}
Tunable == Freqs \cup {Priority, NoFreq, Channels[1]}
EngineOf(e) == e \in [state : EngineStates, i : Nat, freq : Tunable, age : Nat, left : Nat]
RadioOf(r) == r \in [at : Tunable, says : BOOLEAN]

Typed ==
    /\ EngineOf(engine) /\ RadioOf(radio)
    /\ engine.state = "none" => engine = NoEngine
    /\ task \in [Tasks -> {"absent", "new", "asleep", "cancelled", "dead"}]

OneTicks ==
    /\ stopping # None => current = None
    /\ current # None => current \in Tasks /\ engine.state # "none"
    /\ \A t \in Tasks : task[t] \in {"new", "asleep"} => t = current

Listens ==
    /\ engine.state \in {"none", "idle", "done"} => engine.freq = NoFreq
    /\ engine.state \in {"listening", "dwelling", "held"} => radio.at = engine.freq /\ Active # << >>
    /\ engine.age >= Settle => radio.says = (radio.at \in air)

IInv == Typed /\ OneTicks /\ Listens
=============================================================================
