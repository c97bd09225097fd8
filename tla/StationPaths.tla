---------------------------- MODULE StationPaths ----------------------------
(***************************************************************************)
(* The parts of the station beside the radios, and what is proved of each  *)
(* one, for every value of its constants: what listens, decodes and scans, *)
(* the links, the stop.                                                    *)
(*                                                                         *)
(* A sentinel (nobody, none) and a switch between two sources of the model *)
(* (Overlaps, StartsInStop) is a value here, no constant.                  *)
(***************************************************************************)
EXTENDS Station, TLAPS, FiniteSetTheorems

-----------------------------------------------------------------------------
(* MultimonPipe: the decoder process behind the writer thread. *)

CONSTANTS
    PipeQueueSize, PipeMaxProcs, PipeMaxWrites, PipeFaults

Pipe == INSTANCE MultimonPipe WITH
    QueueSize <- PipeQueueSize, MaxProcs <- PipeMaxProcs,
    MaxWrites <- PipeMaxWrites, PipeFaults <- PipeFaults,
    procs <- c1, proc <- c2, writer <- c3, queue <- c4, closed <- c5, closing <- c6,
    writes <- c7

\* One decoder lives at a time, whatever dies, stalls or is replaced under the
\* writer thread, and none outlives the close.
THEOREM OneDecoderLives == Pipe!Spec => []Pipe!OneDecoder
<1>1. Pipe!Init => Pipe!IInv
  BY DEF Pipe!Init, Pipe!IInv, Pipe!OneDecoder
<1>2. Pipe!IInv /\ [Pipe!Next]_(Pipe!vars) => Pipe!IInv'
  <2> SUFFICES ASSUME Pipe!IInv, [Pipe!Next]_(Pipe!vars)
               PROVE  Pipe!IInv'
    OBVIOUS
  <2>1. CASE Pipe!write
    <3>1. CASE c2 = 0 \/ Pipe!Dead(c2)
      <4>1. c1' = Append(c1, "up") /\ c2' = Len(c1) + 1 /\ ~c5'
        BY <2>1, <3>1 DEF Pipe!write
      <4>2. \A n \in DOMAIN c1 : Pipe!Dead(n)
        BY <3>1 DEF Pipe!IInv, Pipe!OneDecoder
      <4>3. c1' \in Seq({"up", "stalled", "gone"}) /\ c2' \in 0 .. Len(c1')
        BY <4>1 DEF Pipe!IInv
      <4>4. ASSUME NEW n \in DOMAIN c1', ~Pipe!Dead(n)'
            PROVE  n = c2'
        BY <4>1, <4>2, <4>4 DEF Pipe!IInv, Pipe!Dead
      <4> QED
        BY <4>1, <4>3, <4>4 DEF Pipe!IInv, Pipe!OneDecoder
    <3>2. CASE c2 # 0 /\ ~Pipe!Dead(c2)
      BY <2>1, <3>2 DEF Pipe!write, Pipe!IInv, Pipe!OneDecoder, Pipe!Dead
    <3> QED
      BY <3>1, <3>2
  <2>2. CASE Pipe!Writes
    BY <2>2 DEF Pipe!Writes, Pipe!IInv, Pipe!OneDecoder, Pipe!Dead
  <2>3. CASE Pipe!Dies
    BY <2>3 DEF Pipe!Dies, Pipe!IInv, Pipe!OneDecoder, Pipe!Dead
  <2>4. CASE Pipe!Stalls
    BY <2>4 DEF Pipe!Stalls, Pipe!IInv, Pipe!OneDecoder, Pipe!Dead
  <2>5. CASE Pipe!close
    BY <2>5 DEF Pipe!close, Pipe!IInv, Pipe!OneDecoder, Pipe!Dead
  <2>6. CASE Pipe!Takes \/ Pipe!Joined \/ UNCHANGED Pipe!vars
    BY <2>6 DEF Pipe!Takes, Pipe!Joined, Pipe!vars, Pipe!IInv, Pipe!OneDecoder, Pipe!Dead
  <2> QED
    BY <2>1, <2>2, <2>3, <2>4, <2>5, <2>6 DEF Pipe!Next
<1>3. Pipe!IInv => Pipe!OneDecoder
  BY DEF Pipe!IInv
<1> QED
  BY <1>1, <1>2, <1>3, PTL DEF Pipe!Spec

-----------------------------------------------------------------------------
(* DstarLink: the D-STAR bridge and its reflector link. *)

CONSTANTS
    Reflectors, ReflRequests, ReflMaxCalls, ReflMaxOvers, ReflLinkFaults

Refl == INSTANCE DstarLink WITH
    Reflectors <- Reflectors, NoReflector <- "none", Requests <- ReflRequests,
    MaxCalls <- ReflMaxCalls, MaxOvers <- ReflMaxOvers,
    LinkFaults <- ReflLinkFaults, Overlaps <- FALSE,
    running <- c1, mode <- c2, has <- c3, active <- c4, linked <- c5, call <- c6,
    calls <- c7, overs <- c8

\* A step of the teardown moves the request that is on its way.
LEMMA ReflTeardown ==
    ASSUME Refl!IInv, NEW r \in ReflRequests, c6[r] # Refl!Idle,
           c6' = [c6 EXCEPT ![r].pc = "join"] \/ c6' = [c6 EXCEPT ![r].pc = "release"]
                   \/ c6' = [c6 EXCEPT ![r] = Refl!Idle]
    PROVE  \A q \in ReflRequests \ {r} : c6[q] = Refl!Idle /\ c6'[q] = Refl!Idle
BY DEF Refl!IInv, Refl!OneRequest

\* While requests do not overlap, a bridge that runs has all its parts and shows
\* the reflector the gateway was told, and one that does not run holds nothing.
THEOREM ReflectorLinkIsWhole ==
    Refl!Spec => [](Refl!RunningIsWhole /\ Refl!StoppedIsReleased /\ Refl!ShownIsLinked)
<1>1. Refl!Init => Refl!IInv
  BY DEF Refl!Init, Refl!IInv, Refl!OneRequest, Refl!TornDown, Refl!RunningIsWhole, Refl!StoppedIsReleased, Refl!ShownIsLinked, Refl!Idle
<1>2. Refl!IInv /\ [Refl!Next]_(Refl!vars) => Refl!IInv'
  <2> SUFFICES ASSUME Refl!IInv, [Refl!Next]_(Refl!vars)
               PROVE  Refl!IInv'
    OBVIOUS
  <2>1. ASSUME NEW r \in ReflRequests, NEW to \in Reflectors, Refl!connect(r, to)
        PROVE  Refl!IInv'
    <3>1. Refl!Quiet
      BY <2>1 DEF Refl!connect, Refl!Free, Refl!Quiet
    <3>2. CASE c6' = c6
      <4>1. c6[r] = Refl!Idle /\ c6 \in [ReflRequests -> [pc : {"idle", "close", "join", "release"},
                                                   kind : {"none", "connect", "disconnect"}]]
        BY <3>1 DEF Refl!Quiet, Refl!IInv
      <4>2. \/ c1' /\ c3' = Refl!Parts /\ c4' = c5'
            \/ c1' = c1 /\ c3' = c3 /\ ((c4' = c4 /\ c5' = c5) \/ (c1 /\ c4' = c5'))
        BY <2>1, <3>2, <4>1 DEF Refl!connect, Refl!Starts, Refl!Idle
      <4> QED
        BY <3>1, <3>2, <4>2 DEF Refl!IInv, Refl!OneRequest, Refl!TornDown, Refl!RunningIsWhole, Refl!StoppedIsReleased, Refl!ShownIsLinked, Refl!Quiet
    <3>3. CASE c6' # c6
      <4>1. /\ ~c1 /\ c1' = c1 /\ c4' = c4
            /\ c3' = c3 \cup {"dongle", "handlers"}
            /\ c6' = [c6 EXCEPT ![r] = [pc |-> "close", kind |-> "connect"]]
        BY <2>1, <3>3 DEF Refl!connect, Refl!Starts
      <4> QED
        BY <3>1, <4>1 DEF Refl!IInv, Refl!OneRequest, Refl!TornDown, Refl!HeldAt, Refl!RunningIsWhole, Refl!StoppedIsReleased, Refl!ShownIsLinked, Refl!Quiet, Refl!Parts, Refl!Idle
    <3> QED
      BY <3>2, <3>3
  <2>2. ASSUME NEW r \in ReflRequests, Refl!disconnect(r)
        PROVE  Refl!IInv'
    <3>1. Refl!Quiet
      BY <2>2 DEF Refl!disconnect, Refl!Free, Refl!Quiet
    <3>2. CASE c1
      BY <2>2, <3>1, <3>2 DEF Refl!disconnect, Refl!IInv, Refl!OneRequest, Refl!TornDown, Refl!HeldAt, Refl!RunningIsWhole, Refl!StoppedIsReleased, Refl!ShownIsLinked, Refl!Quiet, Refl!Parts, Refl!Idle
    <3>3. CASE ~c1
      BY <2>2, <3>1, <3>3 DEF Refl!disconnect, Refl!IInv, Refl!OneRequest, Refl!TornDown, Refl!RunningIsWhole, Refl!StoppedIsReleased, Refl!ShownIsLinked, Refl!Quiet
    <3> QED
      BY <3>2, <3>3
  <2>3. ASSUME NEW r \in ReflRequests, Refl!Closes(r) \/ Refl!Joins(r) \/ Refl!Releases(r)
        PROVE  Refl!IInv'
    <3>1. c6[r] # Refl!Idle /\ Refl!TornDown(r)
      BY <2>3 DEF Refl!Closes, Refl!Joins, Refl!Releases, Refl!Idle, Refl!IInv
    <3>2. \A q \in ReflRequests \ {r} : c6[q] = Refl!Idle /\ c6'[q] = Refl!Idle
      BY <2>3, <3>1, ReflTeardown DEF Refl!Closes, Refl!Joins, Refl!Releases
    <3>3. CASE Refl!Closes(r)
      BY <3>1, <3>2, <3>3 DEF Refl!Closes, Refl!IInv, Refl!OneRequest, Refl!TornDown, Refl!HeldAt, Refl!RunningIsWhole, Refl!StoppedIsReleased, Refl!ShownIsLinked, Refl!Quiet, Refl!Parts, Refl!Idle
    <3>4. CASE Refl!Joins(r)
      BY <3>1, <3>2, <3>4 DEF Refl!Joins, Refl!IInv, Refl!OneRequest, Refl!TornDown, Refl!HeldAt, Refl!RunningIsWhole, Refl!StoppedIsReleased, Refl!ShownIsLinked, Refl!Quiet, Refl!Parts, Refl!Idle
    <3>5. CASE Refl!Releases(r)
      BY <3>1, <3>2, <3>5 DEF Refl!Releases, Refl!IInv, Refl!OneRequest, Refl!TornDown, Refl!HeldAt, Refl!RunningIsWhole, Refl!StoppedIsReleased, Refl!ShownIsLinked, Refl!Quiet, Refl!Parts, Refl!Idle
    <3> QED
      BY <2>3, <3>3, <3>4, <3>5
  <2>4. CASE Refl!Over \/ Refl!OverEnds
    BY <2>4 DEF Refl!Over, Refl!OverEnds, Refl!IInv, Refl!OneRequest, Refl!TornDown, Refl!RunningIsWhole, Refl!StoppedIsReleased, Refl!ShownIsLinked, Refl!Quiet
  <2>5. CASE UNCHANGED Refl!vars
    BY <2>5 DEF Refl!vars, Refl!IInv, Refl!OneRequest, Refl!TornDown, Refl!RunningIsWhole, Refl!StoppedIsReleased, Refl!ShownIsLinked, Refl!Quiet
  <2> QED
    BY <2>1, <2>2, <2>3, <2>4, <2>5 DEF Refl!Next
<1>3. Refl!IInv => Refl!RunningIsWhole /\ Refl!StoppedIsReleased /\ Refl!ShownIsLinked
  BY DEF Refl!IInv
<1> QED
  BY <1>1, <1>2, <1>3, PTL DEF Refl!Spec

-----------------------------------------------------------------------------
(* StreamingId: the identification of a talker's overs. *)

CONSTANTS
    IdentInterval, IdentMaxTime, IdentMaxOvers, IdentMaxFaults, IdentIdFaults

Ident == INSTANCE StreamingId WITH
    Interval <- IdentInterval, MaxTime <- IdentMaxTime, MaxOvers <- IdentMaxOvers,
    MaxFaults <- IdentMaxFaults, IdFaults <- IdentIdFaults,
    now <- c1, last_id <- c2, sent <- c3, content <- c4, unidentified <- c5,
    keyed <- c6, overs <- c7, faults <- c8

\* Whoever asks the timer first, and sends what it hands out, is in time.
LEMMA AskedIsInTime ==
    ASSUME IdentInterval \in Nat \ {0}, IdentMaxTime \in Nat, Ident!StampIsTrue,
           IF Ident!Due THEN Ident!Identified ELSE UNCHANGED <<c2, c3>>
    PROVE  Ident!InTime(c3') /\ c2' = c3' /\ c2' \in 0..Ident!Never
<1>1. CASE Ident!Due
  BY <1>1 DEF Ident!StampIsTrue, Ident!Identified, Ident!InTime, Ident!Never
<1>2. CASE ~Ident!Due
  BY <1>2 DEF Ident!StampIsTrue, Ident!Due, Ident!InTime, Ident!Never
<1> QED
  BY <1>1, <1>2

\* So a frame that is sent after asking leaves the books in order.
LEMMA AskedKeepsInv ==
    ASSUME IdentInterval \in Nat \ {0}, IdentMaxTime \in Nat, Ident!IInv, c1' = c1,
           IF Ident!Due THEN Ident!Identified ELSE UNCHANGED <<c2, c3>>,
           Ident!Content \/ UNCHANGED <<c4, c5>>
    PROVE  Ident!IInv'
<1>1. Ident!StampIsTrue /\ ~c5
  BY DEF Ident!IInv
<1>2. Ident!InTime(c3') /\ c2' = c3' /\ c2' \in 0..Ident!Never
  BY <1>1, AskedIsInTime
<1>3. ~c5'
  BY <1>1, <1>2 DEF Ident!Content
<1>4. Ident!StampIsTrue'
  BY <1>1, <1>2 DEF Ident!StampIsTrue, Ident!Never
<1> QED
  BY <1>3, <1>4 DEF Ident!IInv

(* No content of any talker goes out an interval or more after the last *)
(* identification: the ten-minute rule over all overs of all talkers, when *)
(* no audio that the timer hands out is lost.                               *)
THEOREM OversAreIdentifiedInTime ==
    ASSUME IdentInterval \in Nat \ {0}, IdentMaxTime \in Nat,
           IdentIdFaults \cap {"id_fails", "closing_fails"} = {}
    PROVE  Ident!Spec => []Ident!ContentIsIdentified
<1>1. Ident!Init => Ident!IInv
  BY DEF Ident!Init, Ident!IInv, Ident!StampIsTrue, Ident!Never
<1>2. Ident!IInv /\ [Ident!Next]_(Ident!vars) => Ident!IInv'
  <2> SUFFICES ASSUME Ident!IInv, [Ident!Next]_(Ident!vars)
               PROVE  Ident!IInv'
    OBVIOUS
  <2>1. CASE Ident!KeyUp
    <3>1. c1' = c1
      BY <2>1 DEF Ident!KeyUp
    <3>2. CASE Ident!Refused /\ UNCHANGED <<c2, c3>>
      BY <3>1, <3>2 DEF Ident!Refused, Ident!IInv, Ident!StampIsTrue
    <3>3. CASE /\ IF Ident!Due THEN Ident!Identified ELSE UNCHANGED <<c2, c3>>
               /\ Ident!Content \/ UNCHANGED <<c4, c5>>
      BY <3>1, <3>3, AskedKeepsInv
    <3> QED
      BY <2>1, <3>2, <3>3 DEF Ident!KeyUp, Ident!Fault
  <2>2. CASE Ident!Feed
    <3>1. /\ c1' = c1
          /\ IF Ident!Due THEN Ident!Identified ELSE UNCHANGED <<c2, c3>>
          /\ Ident!Content \/ UNCHANGED <<c4, c5>>
      BY <2>2 DEF Ident!Feed, Ident!Fault
    <3> QED
      BY <3>1, AskedKeepsInv
  <2>3. CASE Ident!Close
    <3>1. /\ c1' = c1 /\ c5' = c5
          /\ Ident!Identified \/ UNCHANGED <<c2, c3>>
      BY <2>3 DEF Ident!Close, Ident!Fault
    <3> QED
      BY <3>1 DEF Ident!IInv, Ident!StampIsTrue, Ident!Identified, Ident!Never
  <2>4. CASE Ident!Tick
    BY <2>4 DEF Ident!Tick, Ident!IInv, Ident!StampIsTrue
  <2>5. CASE UNCHANGED Ident!vars
    BY <2>5 DEF Ident!vars, Ident!IInv, Ident!StampIsTrue
  <2> QED
    BY <2>1, <2>2, <2>3, <2>4, <2>5 DEF Ident!Next
<1>3. Ident!IInv => Ident!ContentIsIdentified
  BY DEF Ident!IInv, Ident!ContentIsIdentified
<1> QED
  BY <1>1, <1>2, <1>3, PTL DEF Ident!Spec

-----------------------------------------------------------------------------
(* PresetTuning: a preset applied field by field. *)

CONSTANTS
    TuneTables, TuneScanned, TuneCaps, TuneAppliers, TuneInBand, TuneMaxRequests

Tune == INSTANCE PresetTuning WITH
    Tables <- TuneTables, Scanned <- TuneScanned, Caps <- TuneCaps,
    Appliers <- TuneAppliers, Overlaps <- FALSE, InBand <- TuneInBand,
    MaxRequests <- TuneMaxRequests,
    radio <- c1, job <- c2, scan <- c3, keyed <- c4, requests <- c5

\* What a preset asks for are numbers.
LEMMA PresetsAreNumbers ==
    ASSUME Tune!TablesAssumption, NEW p \in Tune!Presets
    PROVE  {p.freq, p.tx, p.tone, p.power} \subseteq Nat
BY DEF Tune!TablesAssumption, Tune!Presets, Tune!resolve_presets

\* Setting one field of the radio.
LEMMA TunedSets ==
    ASSUME c1 \in [freq : Nat, tx : Nat, tone : Nat, power : Nat], NEW v \in Nat,
           NEW field \in {"freq", "tx", "tone", "power"}
    PROVE  LET r == Tune!Tuned(c1, field, v)
           IN  /\ r \in [freq : Nat, tx : Nat, tone : Nat, power : Nat]
               /\ r.freq = IF field = "freq" THEN v ELSE c1.freq
               /\ field = "tx" => r.tx = v
               /\ field \in {"tone", "power"} => r.tx = c1.tx
               /\ r.tone = IF field = "tone" THEN v ELSE c1.tone
               /\ r.power = IF field = "power" THEN v ELSE c1.power
BY DEF Tune!Tuned, Tune!None

\* A step that leaves the jobs alone keeps the books if no preset is in hand.
LEMMA NobodyApplies ==
    ASSUME Tune!IInv, ~Tune!Applying, c2' = c2, c1' \in [freq : Nat, tx : Nat, tone : Nat, power : Nat]
    PROVE  Tune!IInv'
BY DEF Tune!IInv, Tune!Typed, Tune!OneApplies, Tune!InHand, Tune!Applying

\* While nothing else is asked of it, what was answered as applied is what the
\* radio is tuned to, and the scan is stopped before the first field is set; and
\* no preset moves a carrier.
THEOREM PresetsAreTuned ==
    ASSUME Tune!TablesAssumption
    PROVE  Tune!Spec => [](Tune!AppliedIsTuned /\ Tune!ScanAndPresetApart) /\ Tune!PresetsMoveNoCarrier
<1>1. Tune!Init => Tune!IInv
  <2> SUFFICES ASSUME Tune!Init
               PROVE  Tune!IInv
    OBVIOUS
  <2>1. c1 \in [freq : Nat, tx : Nat, tone : Nat, power : Nat]
    <3>1. PICK f \in TuneScanned : c1 = [freq |-> f, tx |-> 0, tone |-> 0, power |-> 0]
      BY DEF Tune!Init, Tune!None
    <3>2. f \in Nat
      BY Zenon DEF Tune!TablesAssumption
    <3> QED
      BY <3>1, <3>2
  <2>2. \A j \in TuneAppliers : c2[j] = [at |-> "idle", preset |-> Tune!None, field |-> 1]
    BY DEF Tune!Init
  <2>3. c2 = [j \in TuneAppliers |-> c2[j]]
    BY DEF Tune!Init
  <2> QED
    BY <2>1, <2>2, <2>3 DEF Tune!IInv, Tune!Typed, Tune!OneApplies, Tune!InHand
<1>2. Tune!IInv /\ [Tune!Next]_(Tune!vars) => Tune!IInv'
  <2> SUFFICES ASSUME Tune!IInv, [Tune!Next]_(Tune!vars)
               PROVE  Tune!IInv'
    OBVIOUS
  <2>1. ASSUME NEW j \in TuneAppliers, Tune!apply_preset_route(j)
        PROVE  Tune!IInv'
    <3>1. PICK p \in Tune!Presets :
             c2' = [c2 EXCEPT ![j] =
                     [at |-> IF c4 # Tune!None THEN "refused" ELSE IF c3 THEN "stopping" ELSE "fields",
                      preset |-> p, field |-> 1]]
      BY <2>1 DEF Tune!apply_preset_route
    <3>2. ~Tune!Applying /\ UNCHANGED <<c1, c3, c4>>
      BY <2>1 DEF Tune!apply_preset_route, Tune!MayAsk
    <3>3. Tune!Typed'
      BY <3>1, <3>2 DEF Tune!IInv, Tune!Typed
    <3>4. \A i \in TuneAppliers : Tune!InHand(i)' => i = j
      BY <3>1, <3>2 DEF Tune!Applying, Tune!InHand, Tune!IInv, Tune!Typed
    <3>5. Tune!InHand(j)' => Tune!SetSoFar(j)'
      BY <3>1, <3>2 DEF Tune!InHand, Tune!SetSoFar, Tune!IInv, Tune!Typed
    <3> QED
      BY <3>3, <3>4, <3>5 DEF Tune!IInv, Tune!OneApplies
  <2>2. ASSUME NEW j \in TuneAppliers, Tune!Stopped(j)
        PROVE  Tune!IInv'
    <3>1. /\ c2' = [c2 EXCEPT ![j].at = "fields"] /\ c3' = FALSE /\ UNCHANGED <<c1, c4>>
          /\ Tune!InHand(j) /\ c2[j].at = "stopping"
      BY <2>2 DEF Tune!Stopped, Tune!InHand
    <3>2. Tune!Typed'
      BY <3>1 DEF Tune!IInv, Tune!Typed
    <3>3. Tune!OneApplies' /\ \A i \in TuneAppliers : Tune!InHand(i)' => i = j
      BY <3>1 DEF Tune!IInv, Tune!Typed, Tune!OneApplies, Tune!InHand
    <3>4. Tune!SetSoFar(j)'
      BY <3>1 DEF Tune!IInv, Tune!Typed, Tune!SetSoFar, Tune!InHand
    <3> QED
      BY <3>2, <3>3, <3>4 DEF Tune!IInv
  <2>3. ASSUME NEW j \in TuneAppliers, Tune!_apply_fields(j)
        PROVE  Tune!IInv'
    <3> DEFINE p == c2[j].preset
               k == c2[j].field
    <3>1. Tune!InHand(j) /\ Tune!SetSoFar(j) /\ c2[j].at = "fields" /\ k \in 1 .. 4 /\ UNCHANGED <<c3, c4>>
      BY <2>3 DEF Tune!_apply_fields, Tune!IInv, Tune!Typed, Tune!InHand, Tune!Fields
    <3>2. p \in Tune!Presets /\ {p.freq, p.tx, p.tone, p.power} \subseteq Nat
      BY <3>1, PresetsAreNumbers DEF Tune!SetSoFar
    <3>3. Tune!Fields[k] \in {"freq", "tx", "tone", "power"} /\ p[Tune!Fields[k]] \in Nat
      BY <3>1, <3>2 DEF Tune!Fields
    <3>4. CASE c2' = [c2 EXCEPT ![j].at = "invalid"] /\ c1' = c1
      <4>1. Tune!Typed'
        BY <3>4 DEF Tune!IInv, Tune!Typed
      <4>2. \A i \in TuneAppliers : ~Tune!InHand(i)'
        BY <3>1, <3>4 DEF Tune!IInv, Tune!Typed, Tune!OneApplies, Tune!InHand
      <4> QED
        BY <4>1, <4>2 DEF Tune!IInv, Tune!OneApplies
    <3>5. CASE /\ c2' = [c2 EXCEPT ![j].field = @ + 1]
               /\ \/ ~Tune!Calls(p, Tune!Fields[k]) /\ c1' = c1
                  \/ c1' = Tune!Tuned(c1, Tune!Fields[k], p[Tune!Fields[k]])
      <4>1. c1' \in [freq : Nat, tx : Nat, tone : Nat, power : Nat]
        BY <3>3, <3>5, TunedSets DEF Tune!IInv, Tune!Typed
      <4>2. /\ c2' = [i \in TuneAppliers |-> c2'[i]]
            /\ \A i \in TuneAppliers :
                  c2'[i] \in [at : {"idle", "stopping", "fields", "applied", "refused", "invalid"},
                              preset : {c2'[i].preset}, field : 1 .. 5]
        BY <3>1, <3>5 DEF Tune!IInv, Tune!Typed
      <4>3. c2'[j].at = "fields" /\ c2'[j].preset = p /\ c2'[j].field = k + 1
        BY <3>1, <3>5 DEF Tune!IInv, Tune!Typed
      <4>4. \A i \in TuneAppliers : Tune!InHand(i)' => i = j
        BY <3>1, <3>5 DEF Tune!IInv, Tune!Typed, Tune!OneApplies, Tune!InHand
      <4>5. /\ k + 1 > 1 => c1'.freq = p.freq
            /\ k + 1 > 2 /\ "split" \in TuneCaps => c1'.tx = p.tx
            /\ k + 1 > 3 /\ "tone" \in TuneCaps => c1'.tone = p.tone
            /\ k + 1 > 4 /\ "power" \in TuneCaps /\ p.power # Tune!None => c1'.power = p.power
        <5>1. CASE ~Tune!Calls(p, Tune!Fields[k]) /\ c1' = c1
          BY <3>1, <5>1 DEF Tune!Calls, Tune!CapOf, Tune!Fields, Tune!SetSoFar
        <5>2. CASE c1' = Tune!Tuned(c1, Tune!Fields[k], p[Tune!Fields[k]])
          <6>1. /\ c1'.freq = IF Tune!Fields[k] = "freq" THEN p[Tune!Fields[k]] ELSE c1.freq
                /\ Tune!Fields[k] = "tx" => c1'.tx = p[Tune!Fields[k]]
                /\ Tune!Fields[k] \in {"tone", "power"} => c1'.tx = c1.tx
                /\ c1'.tone = IF Tune!Fields[k] = "tone" THEN p[Tune!Fields[k]] ELSE c1.tone
                /\ c1'.power = IF Tune!Fields[k] = "power" THEN p[Tune!Fields[k]] ELSE c1.power
            BY <3>3, <5>2, TunedSets DEF Tune!IInv, Tune!Typed
          <6> QED
            BY <3>1, <6>1 DEF Tune!Fields, Tune!SetSoFar
        <5> QED
          BY <3>5, <5>1, <5>2
      <4>6. Tune!SetSoFar(j)'
        BY <3>1, <3>2, <4>3, <4>5 DEF Tune!SetSoFar
      <4> QED
        BY <4>1, <4>2, <4>4, <4>6 DEF Tune!IInv, Tune!Typed, Tune!OneApplies
    <3> QED
      BY <2>3, <3>4, <3>5 DEF Tune!_apply_fields
  <2>4. ASSUME NEW j \in TuneAppliers, Tune!Applied(j)
        PROVE  Tune!IInv'
    <3>1. /\ c2' = [c2 EXCEPT ![j].at = "applied"] /\ UNCHANGED <<c1, c3, c4>>
          /\ Tune!InHand(j) /\ c2[j].at = "fields" /\ c2[j].field = 5
      BY <2>4 DEF Tune!Applied, Tune!InHand, Tune!IInv, Tune!Typed, Tune!Fields
    <3>2. Tune!Typed'
      BY <3>1 DEF Tune!IInv, Tune!Typed
    <3>3. Tune!OneApplies' /\ \A i \in TuneAppliers : Tune!InHand(i)' => i = j
      BY <3>1 DEF Tune!IInv, Tune!Typed, Tune!OneApplies, Tune!InHand
    <3>4. Tune!SetSoFar(j)'
      BY <3>1 DEF Tune!IInv, Tune!Typed, Tune!SetSoFar, Tune!InHand
    <3> QED
      BY <3>2, <3>3, <3>4 DEF Tune!IInv
  <2>5. ASSUME NEW j \in TuneAppliers, Tune!Answered(j)
        PROVE  Tune!IInv'
    <3>1. c2' = [c2 EXCEPT ![j] = [at |-> "idle", preset |-> Tune!None, field |-> 1]]
          /\ UNCHANGED <<c1, c3, c4>>
      BY <2>5 DEF Tune!Answered
    <3>2. Tune!Typed'
      BY <3>1 DEF Tune!IInv, Tune!Typed
    <3>3. \A i \in TuneAppliers : Tune!InHand(i)' => i # j /\ Tune!InHand(i) /\ c2'[i] = c2[i]
      BY <3>1 DEF Tune!IInv, Tune!Typed, Tune!InHand
    <3> QED
      BY <3>1, <3>2, <3>3 DEF Tune!IInv, Tune!OneApplies, Tune!SetSoFar
  <2>6. CASE Tune!Sets
    <3>1. ~Tune!Applying /\ c2' = c2
      BY <2>6 DEF Tune!Sets, Tune!MayAsk
    <3>2. c1' \in [freq : Nat, tx : Nat, tone : Nat, power : Nat]
      <4>1. PICK p \in Tune!Presets, field \in {"freq", "tx", "tone", "power"} :
               c1' = Tune!Tuned(c1, field, p[field]) \/ c1' = c1
        BY <2>6 DEF Tune!Sets
      <4>2. p[field] \in Nat
        BY PresetsAreNumbers
      <4> QED
        BY <4>1, <4>2, TunedSets DEF Tune!IInv, Tune!Typed
    <3> QED
      BY <3>1, <3>2, NobodyApplies
  <2>7. CASE Tune!scan_route \/ Tune!Keys
    BY <2>7, NobodyApplies DEF Tune!scan_route, Tune!Keys, Tune!MayAsk, Tune!IInv, Tune!Typed
  <2>8. CASE Tune!Hops
    <3>1. PICK f \in TuneScanned : c1' = Tune!Tuned(c1, "freq", f)
      BY <2>8 DEF Tune!Hops
    <3>2. c1' \in [freq : Nat, tx : Nat, tone : Nat, power : Nat]
      BY <3>1, TunedSets DEF Tune!IInv, Tune!Typed, Tune!TablesAssumption
    <3>3. c3 /\ UNCHANGED <<c2, c3, c4>>
      BY <2>8 DEF Tune!Hops
    <3> QED
      BY <3>2, <3>3 DEF Tune!IInv, Tune!Typed, Tune!OneApplies, Tune!InHand, Tune!SetSoFar
  <2>9. CASE Tune!scan_stop \/ Tune!Unkeys \/ UNCHANGED Tune!vars
    BY <2>9 DEF Tune!scan_stop, Tune!Unkeys, Tune!vars, Tune!IInv, Tune!Typed, Tune!OneApplies, Tune!InHand, Tune!SetSoFar
  <2> QED
    BY <2>1, <2>2, <2>3, <2>4, <2>5, <2>6, <2>7, <2>8, <2>9 DEF Tune!Next
<1>3. Tune!IInv => Tune!AppliedIsTuned /\ Tune!ScanAndPresetApart
  BY DEF Tune!IInv, Tune!InHand, Tune!SetSoFar, Tune!AppliedIsTuned, Tune!ScanAndPresetApart
<1>4. Tune!IInv => Tune!RetunesOffTheAir
  BY DEF Tune!IInv, Tune!InHand, Tune!SetSoFar, Tune!RetunesOffTheAir
<1> QED
  BY <1>1, <1>2, <1>3, <1>4, PTL DEF Tune!Spec, Tune!PresetsMoveNoCarrier

-----------------------------------------------------------------------------
(* MumbleLinks: the one Mumble link. *)

CONSTANTS
    MumbleEntries, MumbleAutoconnect, MumbleRequests, MumbleMaxBridges,
    MumbleMaxDrops, MumbleLinkFaults

Mumble == INSTANCE MumbleLinks WITH
    Entries <- MumbleEntries, Autoconnect <- MumbleAutoconnect, NoEntry <- "none",
    Requests <- MumbleRequests, MaxBridges <- MumbleMaxBridges,
    MaxDrops <- MumbleMaxDrops, LinkFaults <- MumbleLinkFaults, Overlaps <- FALSE,
    bridge <- c1, handle <- c2, active <- c3, request <- c4, listeners <- c5,
    drops <- c6, down <- c7

LEMMA LinksCountAlike == \A S : Mumble!Cardinality(S) = Cardinality(S)
  BY DEF Mumble!Cardinality, Cardinality

\* A connect that finds nothing linked leaves one link or none.
LEMMA MumbleOpens ==
    ASSUME Mumble!LinkAssumption, Mumble!IInv, NEW r \in MumbleRequests, NEW e \in MumbleEntries, Mumble!Opens(r, e),
           c2 = Mumble!NoBridge, ~c7, c7' = c7, c5 = 0,
           \A q \in MumbleRequests \ {r} : c4[q] = Mumble!Idle
    PROVE  Mumble!IInv'
<1>1. Mumble!Running = {} /\ c3 = "none"
  BY DEF Mumble!IInv, Mumble!Linked, Mumble!Typed, Mumble!Bridges, Mumble!Asking, Mumble!Ids, Mumble!NoBridge, Mumble!Running
<1>2. \A q \in MumbleRequests : c4'[q] = Mumble!Idle
  BY DEF Mumble!Opens, Mumble!IInv, Mumble!Typed, Mumble!Bridges, Mumble!Asking
<1>3. CASE UNCHANGED <<c1, c2, c3, c5>>
  <2>1. c4' \in Mumble!Asking
    BY DEF Mumble!Opens, Mumble!IInv, Mumble!Typed, Mumble!Bridges, Mumble!Asking, Mumble!Idle
  <2>2. Mumble!Typed'
    BY <1>2, <1>3, <2>1 DEF Mumble!IInv, Mumble!Typed, Mumble!Bridges, Mumble!Asking, Mumble!Idle
  <2> QED
    BY <1>1, <1>2, <1>3, <2>2 DEF Mumble!IInv, Mumble!OneRequest, Mumble!Linked, Mumble!Running, Mumble!InItsChannel, Mumble!Quiet, Mumble!Ids, Mumble!NoBridge, Mumble!Idle
<1>4. CASE ~UNCHANGED <<c1, c2, c3, c5>>
  <2>1. PICK b \in Mumble!Ids : /\ c1' = [c1 EXCEPT ![b] = Mumble!Opened(e)]
                         /\ c2' = b /\ c3' = e
                         /\ c5' = c5 + 1
                         /\ c4' = [c4 EXCEPT ![r] = Mumble!Idle]
    BY <1>4 DEF Mumble!Opens
  <2>2. c1' \in Mumble!Bridges
    BY <2>1 DEF Mumble!IInv, Mumble!Typed, Mumble!Bridges, Mumble!Asking, Mumble!Opened
  <2>3. Mumble!Typed'
    BY <1>2, <2>1, <2>2 DEF Mumble!IInv, Mumble!Typed, Mumble!Bridges, Mumble!Asking, Mumble!Idle
  <2>4. Mumble!Running' = {b}
    BY <1>1, <2>1 DEF Mumble!Running, Mumble!IInv, Mumble!Typed, Mumble!Bridges, Mumble!Asking, Mumble!Opened
  <2>5. Mumble!Linked' /\ Mumble!OneRequest'
    BY <1>2, <2>1 DEF Mumble!IInv, Mumble!Typed, Mumble!Bridges, Mumble!Asking, Mumble!Linked, Mumble!OneRequest, Mumble!Opened, Mumble!Ids, Mumble!NoBridge, Mumble!LinkAssumption
  <2>6. Mumble!InItsChannel'
    BY <2>1, <2>4 DEF Mumble!InItsChannel, Mumble!Opened, Mumble!IInv, Mumble!Typed, Mumble!Bridges, Mumble!Asking
  <2> QED
    BY <2>1, <2>3, <2>4, <2>5, <2>6 DEF Mumble!IInv
<1> QED
  BY <1>3, <1>4

\* A disconnect takes the handle and waits for the bridge.
LEMMA MumbleLets ==
    ASSUME Mumble!IInv, NEW r \in MumbleRequests, NEW e \in MumbleEntries \cup {"none"}, Mumble!Lets(r, e),
           c2 # Mumble!NoBridge, Mumble!Quiet, c7' = c7
    PROVE  Mumble!IInv'
<1>1. /\ c1[c2].entry = c3 /\ ~c7 /\ c5 = 1 /\ c2 \in Mumble!Ids
  BY DEF Mumble!IInv, Mumble!Linked, Mumble!Typed, Mumble!Bridges, Mumble!Asking
<1>2. Mumble!Typed'
  <2>1. c1' \in Mumble!Bridges
    BY <1>1 DEF Mumble!Lets, Mumble!IInv, Mumble!Typed, Mumble!Bridges, Mumble!Asking
  <2>2. c4' \in Mumble!Asking
    BY <1>1 DEF Mumble!Lets, Mumble!IInv, Mumble!Typed, Mumble!Bridges, Mumble!Asking
  <2> QED
    BY <2>1, <2>2 DEF Mumble!Lets, Mumble!IInv, Mumble!Typed, Mumble!Bridges, Mumble!Asking, Mumble!NoBridge, Mumble!Idle
<1>3. Mumble!Running' = {}
  BY <1>1 DEF Mumble!Lets, Mumble!IInv, Mumble!Typed, Mumble!Bridges, Mumble!Asking, Mumble!Running
<1>4. Mumble!OneRequest' /\ Mumble!Linked'
  BY <1>1 DEF Mumble!Lets, Mumble!Quiet, Mumble!OneRequest, Mumble!Linked, Mumble!IInv, Mumble!Typed, Mumble!Bridges, Mumble!Asking, Mumble!Idle
<1>5. Mumble!InItsChannel'
  BY <1>3 DEF Mumble!InItsChannel
<1> QED
  BY <1>2, <1>3, <1>4, <1>5 DEF Mumble!IInv

\* While requests do not overlap, what runs is the link that the manager can
\* stop and shows, nobody listens when nothing is linked, nothing runs after
\* the shutdown, and a client that knows itself is in the entry's channel.
THEOREM MumbleHasOneLink ==
    ASSUME Mumble!LinkAssumption, "quick" \notin MumbleLinkFaults
    PROVE  Mumble!Spec => [](Mumble!OneLinkAtATime /\ Mumble!UnlinkedIsDeaf /\ Mumble!InItsChannel)
<1>1. Mumble!Init => Mumble!IInv
  <2> SUFFICES ASSUME Mumble!Init
               PROVE  Mumble!IInv
    OBVIOUS
  <2>1. Mumble!Typed
    BY DEF Mumble!Init, Mumble!Typed, Mumble!Bridges, Mumble!Asking, Mumble!LinkAssumption, Mumble!Ids, Mumble!NoBridge, Mumble!Opened, Mumble!Absent, Mumble!Idle
  <2>2. CASE MumbleAutoconnect = "none"
    <3>1. Mumble!Running = {}
      BY <2>2 DEF Mumble!Init, Mumble!Running, Mumble!Absent, Mumble!Ids
    <3>2. c5 = 0
      BY <3>1, LinksCountAlike, FS_EmptySet DEF Mumble!Init
    <3> QED
      BY <2>1, <2>2, <3>1, <3>2 DEF Mumble!Init, Mumble!IInv, Mumble!OneRequest, Mumble!Linked, Mumble!InItsChannel, Mumble!NoBridge
  <2>3. CASE MumbleAutoconnect # "none"
    <3>1. Mumble!Running = {1}
      BY <2>3 DEF Mumble!Init, Mumble!Running, Mumble!Absent, Mumble!Opened, Mumble!Ids, Mumble!LinkAssumption
    <3>2. c5 = 1
      BY <3>1, LinksCountAlike, FS_Singleton DEF Mumble!Init
    <3> QED
      BY <2>1, <2>3, <3>1, <3>2 DEF Mumble!Init, Mumble!IInv, Mumble!OneRequest, Mumble!Linked, Mumble!InItsChannel, Mumble!NoBridge, Mumble!Opened, Mumble!Ids, Mumble!LinkAssumption
  <2> QED
    BY <2>2, <2>3
<1>2. Mumble!IInv /\ [Mumble!Next]_(Mumble!vars) => Mumble!IInv'
  <2> SUFFICES ASSUME Mumble!IInv, [Mumble!Next]_(Mumble!vars)
               PROVE  Mumble!IInv'
    OBVIOUS
  <2>1. ASSUME NEW r \in MumbleRequests, NEW e \in MumbleEntries, Mumble!connect(r, e)
        PROVE  Mumble!IInv'
    <3>1. Mumble!Quiet /\ ~c7 /\ c7' = c7
      BY <2>1 DEF Mumble!connect, Mumble!Free, Mumble!Quiet
    <3>2. CASE c2 = Mumble!NoBridge
      <4>1. c5 = 0
        BY <3>1, <3>2 DEF Mumble!IInv, Mumble!Linked
      <4> QED
        BY <2>1, <3>1, <3>2, <4>1, MumbleOpens DEF Mumble!connect, Mumble!Quiet
    <3>3. CASE c2 # Mumble!NoBridge
      BY <2>1, <3>1, <3>3, MumbleLets DEF Mumble!connect
    <3> QED
      BY <3>2, <3>3
  <2>2. ASSUME NEW r \in MumbleRequests, Mumble!disconnect(r)
        PROVE  Mumble!IInv'
    <3>1. Mumble!Quiet /\ c7' = c7 /\ c2 # Mumble!NoBridge /\ Mumble!Lets(r, "none")
      BY <2>2 DEF Mumble!disconnect, Mumble!Free, Mumble!Quiet
    <3> QED
      BY <3>1, MumbleLets
  <2>3. ASSUME NEW r \in MumbleRequests, Mumble!Stopped(r)
        PROVE  Mumble!IInv'
    <3>1. /\ c2 = Mumble!NoBridge /\ ~c7 /\ c5 = 1 /\ c3 = "none"
          /\ \A q \in MumbleRequests \ {r} : c4[q] = Mumble!Idle
      BY <2>3 DEF Mumble!Stopped, Mumble!IInv, Mumble!OneRequest, Mumble!Linked, Mumble!Idle
    <3>2. /\ UNCHANGED <<c2, c3, c7>> /\ c5' = 0
      BY <2>3, <3>1 DEF Mumble!Stopped
    <3> DEFINE i == c4[r].stops
    <3>a. c1 \in Mumble!Bridges /\ c1' = [c1 EXCEPT ![i].state = "stopped", ![i].client = "none"]
      BY <2>3 DEF Mumble!Stopped, Mumble!IInv, Mumble!Typed
    <3> HIDE DEF i
    <3>3. c1' \in Mumble!Bridges
      <4> DEFINE R == [state : {"absent", "running", "stopping", "stopped"},
                       entry : MumbleEntries \cup {"none"},
                       client : {"none", "dialing", "in_channel", "in_root"}, known : BOOLEAN]
      <4>1. ASSUME NEW b \in R
            PROVE  [b EXCEPT !.state = "stopped", !.client = "none"] \in R
        OBVIOUS
      <4>2. c1 \in [Mumble!Ids -> R]
        BY <3>a DEF Mumble!Bridges
      <4> HIDE DEF R
      <4>3. c1' \in [Mumble!Ids -> R]
        BY <3>a, <4>1, <4>2
      <4> QED
        BY <4>3 DEF Mumble!Bridges, R
    <3>4. Mumble!Running' \subseteq Mumble!Running
      BY <3>a DEF Mumble!Bridges, Mumble!Running
    <3>5. \/ c4' = [c4 EXCEPT ![r] = Mumble!Idle]
          \/ \E e \in MumbleEntries :
                c4' = [c4 EXCEPT ![r] = [pc |-> "opening", want |-> e, stops |-> Mumble!NoBridge]]
      <4>1. c4[r] \in [pc : {"idle", "stopping", "opening"}, want : MumbleEntries \cup {"none"},
                            stops : Mumble!Ids \cup {Mumble!NoBridge}]
        BY DEF Mumble!IInv, Mumble!Typed, Mumble!Asking
      <4> DEFINE next == IF c4[r].want = "none" THEN Mumble!Idle
                         ELSE [c4[r] EXCEPT !.pc = "opening", !.stops = Mumble!NoBridge]
      <4>2. c4' = [c4 EXCEPT ![r] = next]
        BY <2>3 DEF Mumble!Stopped
      <4>3. \/ next = Mumble!Idle
            \/ \E e \in MumbleEntries : next = [pc |-> "opening", want |-> e, stops |-> Mumble!NoBridge]
        BY <4>1
      <4> QED
        BY <4>2, <4>3
    <3>6. Mumble!Typed' /\ Mumble!OneRequest'
      <4>1. c4 \in Mumble!Asking
        BY DEF Mumble!IInv, Mumble!Typed, Mumble!Bridges, Mumble!Asking
      <4>2. c4' \in Mumble!Asking
        BY <3>5, <4>1 DEF Mumble!Idle, Mumble!NoBridge, Mumble!Asking
      <4>3. \A q \in MumbleRequests \ {r} : c4'[q] = Mumble!Idle
        BY <3>1, <3>5, <4>1 DEF Mumble!Bridges, Mumble!Asking
      <4>4. c4'[r] = Mumble!Idle \/ (c4'[r].pc = "opening" /\ c4'[r].want # "none")
        <5>1. c4'[r] = Mumble!Idle
              \/ \E e \in MumbleEntries : c4'[r] = [pc |-> "opening", want |-> e, stops |-> Mumble!NoBridge]
          BY <3>5, <4>1 DEF Mumble!Asking
        <5>2. ASSUME NEW e \in MumbleEntries, c4'[r] = [pc |-> "opening", want |-> e, stops |-> Mumble!NoBridge]
              PROVE  c4'[r].pc = "opening" /\ c4'[r].want # "none"
          BY <5>2 DEF Mumble!LinkAssumption
        <5> QED
          BY <5>1, <5>2
      <4>5. Mumble!Typed'
        BY <3>2, <3>3, <4>2, <4>3, <4>4 DEF Mumble!IInv, Mumble!Typed, Mumble!Bridges, Mumble!Asking, Mumble!Idle
      <4>6. Mumble!OneRequest'
        BY <3>1, <3>2, <4>3, <4>4 DEF Mumble!OneRequest, Mumble!Idle
      <4> QED
        BY <4>5, <4>6
    <3>7. Mumble!Linked'
      BY <3>1, <3>2 DEF Mumble!Linked, Mumble!NoBridge
    <3>8. Mumble!Running = {}
      BY <3>1 DEF Mumble!IInv, Mumble!Running, Mumble!Ids, Mumble!NoBridge
    <3> QED
      BY <3>4, <3>6, <3>7, <3>8 DEF Mumble!IInv, Mumble!InItsChannel
  <2>4. ASSUME NEW r \in MumbleRequests, Mumble!Switches(r)
        PROVE  Mumble!IInv'
    <3>1. /\ c2 = Mumble!NoBridge /\ ~c7 /\ c5 = 0 /\ c4[r].want \in MumbleEntries
          /\ \A q \in MumbleRequests \ {r} : c4[q] = Mumble!Idle
      BY <2>4 DEF Mumble!Switches, Mumble!IInv, Mumble!OneRequest, Mumble!Typed, Mumble!Bridges, Mumble!Asking, Mumble!Idle
    <3> QED
      BY <2>4, <3>1, MumbleOpens DEF Mumble!Switches
  <2>5. ASSUME NEW b \in Mumble!Ids, Mumble!Remembers(b) \/ Mumble!Connected(b) \/ Mumble!Loses(b)
        PROVE  Mumble!IInv'
    <3>1. UNCHANGED <<c2, c3, c4, c5, c7>> /\ b \in Mumble!Running
      BY <2>5 DEF Mumble!Remembers, Mumble!Connected, Mumble!Loses
    <3>2. /\ Mumble!Typed' /\ Mumble!Running' = Mumble!Running
          /\ \A i \in Mumble!Ids : c1'[i].entry = c1[i].entry
      <4>1. PICK k \in BOOLEAN, c \in {"none", "dialing", "in_channel", "in_root"} :
               \/ c1' = [c1 EXCEPT ![b].known = k]
               \/ c1' = [c1 EXCEPT ![b].client = c]
        BY <2>5 DEF Mumble!Remembers, Mumble!Connected, Mumble!Loses
      <4>2. c1 \in Mumble!Bridges
        BY DEF Mumble!IInv, Mumble!Typed, Mumble!Bridges, Mumble!Asking
      <4>3. c1' \in Mumble!Bridges
        BY <4>1, <4>2 DEF Mumble!Bridges, Mumble!Asking
      <4>4. \A i \in Mumble!Ids : c1'[i].entry = c1[i].entry /\ c1'[i].state = c1[i].state
        BY <4>1, <4>2 DEF Mumble!Bridges, Mumble!Asking
      <4> QED
        BY <3>1, <4>3, <4>4 DEF Mumble!IInv, Mumble!Typed, Mumble!Bridges, Mumble!Asking, Mumble!Running
    <3>3. Mumble!InItsChannel'
      BY <2>5, <3>2 DEF Mumble!Remembers, Mumble!Connected, Mumble!Loses, Mumble!IInv, Mumble!Typed, Mumble!Bridges, Mumble!Asking, Mumble!Running, Mumble!InItsChannel
    <3>4. Mumble!Linked' /\ Mumble!OneRequest'
      BY <3>1, <3>2 DEF Mumble!IInv, Mumble!Linked, Mumble!OneRequest, Mumble!Typed, Mumble!Bridges, Mumble!Asking, Mumble!Quiet, Mumble!NoBridge
    <3> QED
      BY <3>1, <3>2, <3>3, <3>4 DEF Mumble!IInv
  <2>6. CASE Mumble!Shutdown
    <3>1. Mumble!Quiet /\ c4' = c4 /\ c7' /\ c2' = Mumble!NoBridge /\ c3' = "none"
      BY <2>6 DEF Mumble!Shutdown, Mumble!Quiet
    <3>2. c5' = 0
      BY <2>6, <3>1 DEF Mumble!Shutdown, Mumble!IInv, Mumble!Linked
    <3>3. /\ c1' \in Mumble!Bridges
          /\ Mumble!Running' = {}
      BY <2>6 DEF Mumble!Shutdown, Mumble!IInv, Mumble!Typed, Mumble!Bridges, Mumble!Asking, Mumble!Running, Mumble!Ids, Mumble!NoBridge
    <3> QED
      BY <3>1, <3>2, <3>3 DEF Mumble!IInv, Mumble!Typed, Mumble!Bridges, Mumble!Asking, Mumble!OneRequest, Mumble!Linked, Mumble!Quiet, Mumble!InItsChannel, Mumble!NoBridge
  <2>7. CASE UNCHANGED Mumble!vars
    BY <2>7 DEF Mumble!vars, Mumble!IInv, Mumble!Typed, Mumble!Bridges, Mumble!Asking, Mumble!OneRequest, Mumble!Linked, Mumble!Quiet, Mumble!Running, Mumble!InItsChannel
  <2> QED
    BY <2>1, <2>2, <2>3, <2>4, <2>5, <2>6, <2>7 DEF Mumble!Next
<1>3. Mumble!IInv => Mumble!OneLinkAtATime /\ Mumble!UnlinkedIsDeaf /\ Mumble!InItsChannel
  BY DEF Mumble!IInv, Mumble!Linked, Mumble!OneLinkAtATime, Mumble!UnlinkedIsDeaf, Mumble!Quiet, Mumble!Running, Mumble!Ids, Mumble!NoBridge, Mumble!Typed, Mumble!Bridges, Mumble!Asking
<1> QED
  BY <1>1, <1>2, <1>3, PTL DEF Mumble!Spec

-----------------------------------------------------------------------------
(* DvDongle: the exchange with the vocoder and its reopening. *)

CONSTANTS
    DongleAttempts, DongleMaxAsked, DongleMaxGen, DongleFaults

Dongle == INSTANCE DvDongle WITH
    Attempts <- DongleAttempts, MaxAsked <- DongleMaxAsked, MaxGen <- DongleMaxGen,
    DongleFaults <- DongleFaults,
    port <- c1, gen <- c2, stopped <- c3, error <- c4, closed <- c5, lock <- c6,
    pc <- c7, slot <- c8, line <- c9, asked <- c10, wrong <- c11, awake <- c12

\* A step moves one thread, to one place.
LEMMA DongleMoves ==
    ASSUME c7 \in Dongle!Positions, NEW w \in Dongle!Threads, NEW a \in Dongle!Places,
           \/ \E b \in BOOLEAN : c7' = [c7 EXCEPT ![w] = [at |-> a, tries |-> 0, retry |-> b]]
           \/ c7' = [c7 EXCEPT ![w].at = a]
           \/ c7' = [c7 EXCEPT ![w].at = a, ![w].tries = @ + 1]
           \/ c7[w].at = a /\ c7' = [c7 EXCEPT ![w].tries = @ + 1]
    PROVE  c7' \in Dongle!Positions /\ c7'[w].at = a /\ \A v \in Dongle!Threads \ {w} : c7'[v] = c7[v]
<1>1. /\ c7'[w] \in [at : Dongle!Places, tries : Nat, retry : BOOLEAN] /\ c7'[w].at = a
      /\ \A v \in Dongle!Threads \ {w} : c7'[v] = c7[v]
      /\ DOMAIN c7' = Dongle!Threads
  BY DEF Dongle!Positions
<1>2. c7' = [v \in Dongle!Threads |-> c7'[v]]
  BY DEF Dongle!Positions
<1> QED
  BY <1>1, <1>2 DEF Dongle!Positions

\* The three threads are three.
LEMMA DongleThreads ==
    Dongle!Threads = {"pool", "loop", "closer"} /\ Dongle!Callers = {"pool", "loop"} /\ Dongle!Callers \subseteq Dongle!Threads
BY DEF Dongle!Threads, Dongle!Callers

\* What a step leaves alone: the replies on their way that can still be handed
\* over, where no port is opened and no frame is asked for.
LEMMA DongleStaysInStep ==
    ASSUME Dongle!IInv, c2' = c2, c10' = c10, c8' = c8, c7' = c7, c9' \subseteq c9,
           Dongle!Reads(c2)' => Dongle!Reads(c2)
    PROVE  Dongle!RepliesInStep'
BY DEF Dongle!IInv, Dongle!RepliesInStep, Dongle!At

\* Whatever sleeps, dies or is taken, one port is open at a time, a closed
\* vocoder leaves none open, and as long as no reply comes after its deadline
\* an exchange returns the reply to its own frame.
THEOREM DongleIsExchangedInTurn ==
    ASSUME DongleMaxGen \in Nat \ {0}, "late" \notin DongleFaults
    PROVE  Dongle!Spec => [](Dongle!OnePort /\ Dongle!ClosedIsFree /\ Dongle!AnswersItsFrame)
<1>1. Dongle!Init => Dongle!IInv
  BY DongleThreads DEF Dongle!Init, Dongle!IInv, Dongle!Typed, Dongle!Positions, Dongle!Places, Dongle!PortsApart, Dongle!OnePort, Dongle!Holds, Dongle!At, Dongle!RepliesInStep
<1>2. Dongle!IInv /\ [Dongle!Next]_(Dongle!vars) => Dongle!IInv'
  <2> SUFFICES ASSUME Dongle!IInv, [Dongle!Next]_(Dongle!vars)
               PROVE  Dongle!IInv'
    OBVIOUS
  <2>1. CASE Dongle!Asks
    <3>1. CASE UNCHANGED Dongle!vars
      BY <3>1 DEF Dongle!vars, Dongle!IInv, Dongle!Typed, Dongle!PortsApart, Dongle!OnePort, Dongle!Holds, Dongle!At, Dongle!RepliesInStep, Dongle!Reads
    <3>2. CASE /\ c6' = "pool" /\ c8' = 0 /\ c10' = c10 + 1
               /\ c9' = IF c12 THEN c9 \cup {[gen |-> c2, frame |-> c10 + 1]} ELSE c9
               /\ c7' = [c7 EXCEPT !["pool"] = [at |-> "wait", tries |-> 0, retry |-> FALSE]]
      <4>m. c7' \in Dongle!Positions /\ c7'["pool"].at = "wait" /\ \A v \in Dongle!Threads \ {"pool"} : c7'[v] = c7[v]
        BY <3>2, DongleMoves, DongleThreads DEF Dongle!IInv, Dongle!Typed, Dongle!Places
      <4>1. Dongle!Typed'
        BY <2>1, <3>2, <4>m DEF Dongle!Asks, Dongle!IInv, Dongle!Typed
      <4>2. Dongle!PortsApart'
        BY <2>1, <3>2, <4>m, DongleThreads DEF Dongle!Asks, Dongle!IInv, Dongle!Typed, Dongle!PortsApart, Dongle!OnePort, Dongle!Holds, Dongle!At
      <4>3. Dongle!RepliesInStep'
        BY <2>1, <3>2, <4>m, DongleThreads DEF Dongle!Asks, Dongle!IInv, Dongle!Typed, Dongle!RepliesInStep, Dongle!At, Dongle!Reads
      <4> QED
        BY <2>1, <4>1, <4>2, <4>3 DEF Dongle!Asks, Dongle!IInv
    <3> QED
      BY <2>1, <3>1, <3>2 DEF Dongle!Asks, Dongle!vars
  <2>2. CASE Dongle!_dispatch
    <3>1. PICK r \in c9 : c9' = c9 \ {r} /\ c8' = IF r.gen = c2 /\ Dongle!Reads(r.gen) THEN r.frame ELSE c8
      BY <2>2 DEF Dongle!_dispatch
    <3>2. Dongle!Typed' /\ Dongle!PortsApart'
      BY <2>2, <3>1 DEF Dongle!_dispatch, Dongle!IInv, Dongle!Typed, Dongle!PortsApart, Dongle!OnePort, Dongle!Holds, Dongle!At
    <3>3. CASE r.gen = c2 /\ Dongle!Reads(c2)
      <4>1. c8' = c10 /\ Dongle!At("pool", "wait")
        BY <3>1, <3>3 DEF Dongle!IInv, Dongle!RepliesInStep
      <4>2. \A q \in c9 : q.gen = c2 => q = r
        BY <3>3 DEF Dongle!IInv, Dongle!RepliesInStep, Dongle!Typed
      <4> QED
        BY <2>2, <3>1, <3>2, <4>1, <4>2 DEF Dongle!_dispatch, Dongle!IInv, Dongle!RepliesInStep, Dongle!At, Dongle!Reads
    <3>4. CASE ~(r.gen = c2 /\ Dongle!Reads(c2))
      <4>1. c8' = c8
        BY <3>1, <3>4
      <4> QED
        BY <2>2, <3>1, <3>2, <4>1 DEF Dongle!_dispatch, Dongle!IInv, Dongle!RepliesInStep, Dongle!At, Dongle!Reads
    <3> QED
      BY <3>3, <3>4
  <2>3. CASE Dongle!Answered
    <3>m. c7' \in Dongle!Positions /\ c7'["pool"].at = "idle" /\ \A v \in Dongle!Threads \ {"pool"} : c7'[v] = c7[v]
      BY <2>3, DongleMoves, DongleThreads DEF Dongle!Answered, Dongle!Rests, Dongle!IInv, Dongle!Typed, Dongle!Places
    <3>1. Dongle!Typed' /\ Dongle!PortsApart'
      BY <2>3, <3>m, DongleThreads DEF Dongle!Answered, Dongle!IInv, Dongle!Typed, Dongle!PortsApart, Dongle!OnePort, Dongle!Holds, Dongle!At
    <3>2. Dongle!RepliesInStep' /\ ~c11'
      BY <2>3, <3>m, DongleThreads DEF Dongle!Answered, Dongle!IInv, Dongle!Typed, Dongle!RepliesInStep, Dongle!At, Dongle!Reads
    <3> QED
      BY <3>1, <3>2 DEF Dongle!IInv
  <2>4. CASE Dongle!TimesOut
    <3>1. PICK a \in {"idle", "recover"} :
             c7' \in Dongle!Positions /\ c7'["pool"].at = a /\ \A v \in Dongle!Threads \ {"pool"} : c7'[v] = c7[v]
      BY <2>4, DongleMoves, DongleThreads DEF Dongle!TimesOut, Dongle!Rests, Dongle!Goes, Dongle!IInv, Dongle!Typed, Dongle!Places
    <3>2. Dongle!Typed' /\ Dongle!PortsApart'
      BY <2>4, <3>1, DongleThreads DEF Dongle!TimesOut, Dongle!IInv, Dongle!Typed, Dongle!PortsApart, Dongle!OnePort, Dongle!Holds, Dongle!At
    <3>3. Dongle!RepliesInStep' /\ ~c11'
      BY <2>4, <3>1, DongleThreads DEF Dongle!TimesOut, Dongle!IInv, Dongle!Typed, Dongle!RepliesInStep, Dongle!At, Dongle!Reads
    <3> QED
      BY <3>2, <3>3 DEF Dongle!IInv
  <2>5. CASE Dongle!open_decode_stream
    <3>m. c7' \in Dongle!Positions /\ c7'["loop"].at = "recover" /\ \A v \in Dongle!Threads \ {"loop"} : c7'[v] = c7[v]
      BY <2>5, DongleMoves, DongleThreads DEF Dongle!open_decode_stream, Dongle!Goes, Dongle!IInv, Dongle!Typed, Dongle!Places
    <3>1. Dongle!Typed' /\ Dongle!PortsApart'
      BY <2>5, <3>m, DongleThreads DEF Dongle!open_decode_stream, Dongle!IInv, Dongle!Typed, Dongle!PortsApart, Dongle!OnePort, Dongle!Holds, Dongle!At
    <3>2. Dongle!RepliesInStep' /\ ~c11'
      BY <2>5, <3>m, DongleThreads DEF Dongle!open_decode_stream, Dongle!IInv, Dongle!Typed, Dongle!RepliesInStep, Dongle!At, Dongle!Reads
    <3> QED
      BY <3>1, <3>2 DEF Dongle!IInv
  <2>6. ASSUME NEW w \in Dongle!Callers, Dongle!Recovers(w)
        PROVE  Dongle!IInv'
    <3>1. PICK a \in {"idle", "attempt"} :
             c7' \in Dongle!Positions /\ c7'[w].at = a /\ \A v \in Dongle!Threads \ {w} : c7'[v] = c7[v]
      BY <2>6, DongleMoves, DongleThreads DEF Dongle!Recovers, Dongle!Rests, Dongle!Goes, Dongle!IInv, Dongle!Typed, Dongle!Places
    <3>2. \/ c7'[w].at = "idle" /\ UNCHANGED <<c6, c3, c1>>
          \/ c6' = w /\ c3' = c3 \cup {c2} /\ c1' = [c1 EXCEPT ![c2] = "closed"]
      BY <2>6, DongleThreads DEF Dongle!Recovers, Dongle!Rests, Dongle!IInv, Dongle!Typed, Dongle!Positions
    <3>3. Dongle!Typed' /\ Dongle!PortsApart'
      BY <2>6, <3>1, <3>2, DongleThreads DEF Dongle!Recovers, Dongle!IInv, Dongle!Typed, Dongle!PortsApart, Dongle!OnePort, Dongle!Holds, Dongle!At
    <3>4. Dongle!RepliesInStep' /\ ~c11'
      BY <2>6, <3>1, <3>2, DongleThreads DEF Dongle!Recovers, Dongle!IInv, Dongle!Typed, Dongle!RepliesInStep, Dongle!At, Dongle!Reads
    <3> QED
      BY <3>3, <3>4 DEF Dongle!IInv
  <2>7. ASSUME NEW w \in Dongle!Callers, Dongle!Attempt(w)
        PROVE  Dongle!IInv'
    <3>1. /\ c6 = w /\ Dongle!At(w, "attempt") /\ c1[c2] = "closed" /\ ~Dongle!At("pool", "wait")
          /\ UNCHANGED <<c3, c5, c9, c10, c11>>
      BY <2>7 DEF Dongle!Attempt, Dongle!IInv, Dongle!PortsApart, Dongle!Holds, Dongle!At, Dongle!Callers
    <3>2. PICK a \in {"idle", "attempt", "shake"} :
             /\ c7' \in Dongle!Positions /\ c7'[w].at = a /\ \A v \in Dongle!Threads \ {w} : c7'[v] = c7[v]
             /\ \/ a = "idle" /\ c6' = "none" /\ UNCHANGED <<c1, c2, c8>>
                \/ a = "attempt" /\ c8' = 0 /\ UNCHANGED <<c1, c2, c6>>
                \/ /\ a = "shake" /\ c8' = 0 /\ c6' = c6 /\ ~c5 /\ c2 # DongleMaxGen
                   /\ c1' = [c1 EXCEPT ![c2 + 1] = "open"] /\ c2' = c2 + 1
      <4>1. \/ /\ c7' = [c7 EXCEPT ![w] = [at |-> "idle", tries |-> 0, retry |-> FALSE]]
               /\ c6' = "none" /\ UNCHANGED <<c1, c2, c8>>
            \/ c7' = [c7 EXCEPT ![w].tries = @ + 1] /\ c8' = 0 /\ UNCHANGED <<c1, c2, c6>>
            \/ /\ c7' = [c7 EXCEPT ![w].at = "shake"] /\ c8' = 0 /\ c6' = c6
               /\ ~c5 /\ c2 # DongleMaxGen
               /\ c1' = [c1 EXCEPT ![c2 + 1] = "open"] /\ c2' = c2 + 1
        BY <2>7 DEF Dongle!Attempt, Dongle!Gives, Dongle!Rests, Dongle!Goes
      <4> QED
        BY <3>1, <4>1, DongleMoves, DongleThreads DEF Dongle!IInv, Dongle!Typed, Dongle!Places, Dongle!At
    <3>3. Dongle!Typed'
      BY <3>1, <3>2 DEF Dongle!IInv, Dongle!Typed
    <3>4. Dongle!PortsApart'
      BY <3>1, <3>2, DongleThreads DEF Dongle!IInv, Dongle!Typed, Dongle!PortsApart, Dongle!OnePort, Dongle!Holds, Dongle!At
    <3>5. Dongle!RepliesInStep' /\ ~c11'
      BY <3>1, <3>2, DongleThreads DEF Dongle!IInv, Dongle!Typed, Dongle!RepliesInStep, Dongle!At, Dongle!Reads
    <3> QED
      BY <3>3, <3>4, <3>5 DEF Dongle!IInv
  <2>8. ASSUME NEW w \in Dongle!Callers, Dongle!Shakes(w)
        PROVE  Dongle!IInv'
    <3>1. /\ c6 = w /\ Dongle!At(w, "shake") /\ ~Dongle!At("pool", "wait")
          /\ UNCHANGED <<c2, c4, c5, c11>>
      BY <2>8 DEF Dongle!Shakes, Dongle!IInv, Dongle!PortsApart, Dongle!Holds, Dongle!At, Dongle!Callers
    <3>2. PICK a \in {"wait", "idle", "attempt"} :
             /\ c7' \in Dongle!Positions /\ c7'[w].at = a /\ \A v \in Dongle!Threads \ {w} : c7'[v] = c7[v]
             /\ \/ /\ a = "wait" /\ w = "pool" /\ c10' = c10 + 1 /\ c8' = 0
                   /\ c9' = c9 \cup {[gen |-> c2, frame |-> c10 + 1]}
                   /\ UNCHANGED <<c6, c1, c3>>
                \/ a = "idle" /\ c6' = "none" /\ UNCHANGED <<c10, c8, c9, c1, c3>>
                \/ /\ a = "attempt" /\ c3' = c3 \cup {c2}
                   /\ c1' = [c1 EXCEPT ![c2] = "closed"] /\ UNCHANGED <<c6, c10, c8, c9>>
      <4>1. \/ /\ w = "pool" /\ c10' = c10 + 1 /\ c8' = 0 /\ UNCHANGED <<c6, c1, c3>>
               /\ c9' = c9 \cup {[gen |-> c2, frame |-> c10 + 1]}
               /\ c7' = [c7 EXCEPT !["pool"] = [at |-> "wait", tries |-> 0, retry |-> TRUE]]
            \/ /\ c6' = "none" /\ UNCHANGED <<c10, c8, c9, c1, c3>>
               /\ c7' = [c7 EXCEPT ![w] = [at |-> "idle", tries |-> 0, retry |-> FALSE]]
            \/ /\ c3' = c3 \cup {c2} /\ c1' = [c1 EXCEPT ![c2] = "closed"]
               /\ c7' = [c7 EXCEPT ![w].at = "attempt", ![w].tries = @ + 1]
               /\ UNCHANGED <<c6, c10, c8, c9>>
        BY <2>8 DEF Dongle!Shakes, Dongle!Gives, Dongle!Rests
      <4> QED
        BY <4>1, DongleMoves, DongleThreads DEF Dongle!IInv, Dongle!Typed, Dongle!Places
    <3>3. Dongle!Typed'
      BY <3>1, <3>2 DEF Dongle!IInv, Dongle!Typed
    <3>4. Dongle!PortsApart'
      BY <3>1, <3>2, DongleThreads DEF Dongle!IInv, Dongle!Typed, Dongle!PortsApart, Dongle!OnePort, Dongle!Holds, Dongle!At
    <3>5. Dongle!RepliesInStep' /\ ~c11'
      BY <3>1, <3>2, DongleThreads DEF Dongle!IInv, Dongle!Typed, Dongle!RepliesInStep, Dongle!At, Dongle!Reads
    <3> QED
      BY <3>3, <3>4, <3>5 DEF Dongle!IInv
  <2>9. CASE Dongle!close \/ Dongle!Closes
    <3>m. PICK a \in {"stop", "done"} :
             /\ c7' \in Dongle!Positions /\ c7'["closer"].at = a
             /\ \A v \in Dongle!Threads \ {"closer"} : c7'[v] = c7[v]
             /\ \/ a = "stop" /\ c5' /\ UNCHANGED <<c1, c3>>
                \/ /\ a = "done" /\ c5' = c5 /\ Dongle!At("closer", "stop")
                   /\ c3' = c3 \cup {c2} /\ c1' = [c1 EXCEPT ![c2] = "closed"]
      BY <2>9, DongleMoves, DongleThreads DEF Dongle!close, Dongle!Closes, Dongle!Goes, Dongle!IInv, Dongle!Typed, Dongle!Places
    <3>1. Dongle!Typed' /\ Dongle!PortsApart'
      BY <2>9, <3>m, DongleThreads DEF Dongle!close, Dongle!Closes, Dongle!IInv, Dongle!Typed, Dongle!PortsApart, Dongle!OnePort, Dongle!Holds, Dongle!At
    <3>2. Dongle!RepliesInStep' /\ ~c11'
      BY <2>9, <3>m, DongleThreads DEF Dongle!close, Dongle!Closes, Dongle!IInv, Dongle!Typed, Dongle!RepliesInStep, Dongle!At, Dongle!Reads
    <3> QED
      BY <3>1, <3>2 DEF Dongle!IInv
  <2>10. CASE Dongle!Sleeps \/ Dongle!_fail
    <3>1. Dongle!RepliesInStep'
      BY <2>10, DongleStaysInStep DEF Dongle!Sleeps, Dongle!_fail, Dongle!Reads
    <3> QED
      BY <2>10, <3>1 DEF Dongle!Sleeps, Dongle!_fail, Dongle!IInv, Dongle!Typed, Dongle!PortsApart, Dongle!OnePort, Dongle!Holds, Dongle!At
  <2>11. CASE UNCHANGED Dongle!vars
    BY <2>11 DEF Dongle!vars, Dongle!IInv, Dongle!Typed, Dongle!PortsApart, Dongle!OnePort, Dongle!Holds, Dongle!At, Dongle!RepliesInStep, Dongle!Reads
  <2> QED
    BY <2>1, <2>2, <2>3, <2>4, <2>5, <2>6, <2>7, <2>8, <2>9, <2>10, <2>11 DEF Dongle!Next
<1>3. Dongle!IInv => Dongle!OnePort /\ Dongle!ClosedIsFree /\ Dongle!AnswersItsFrame
  BY DEF Dongle!IInv, Dongle!PortsApart, Dongle!OnePort, Dongle!ClosedIsFree, Dongle!AnswersItsFrame, Dongle!At, Dongle!Typed
<1> QED
  BY <1>1, <1>2, <1>3, PTL DEF Dongle!Spec

-----------------------------------------------------------------------------
(* Scan: the software scan and its task. *)

CONSTANTS
    HopChannels, HopLockout, HopPriority, HopMode, HopSettle, HopDwell, HopTasks,
    HopMaxMoves

Hop == INSTANCE Scan WITH
    Channels <- HopChannels, Lockout <- HopLockout, Priority <- HopPriority,
    NoFreq <- "none", Mode <- HopMode, Settle <- HopSettle, Dwell <- HopDwell,
    Tasks <- HopTasks, MaxMoves <- HopMaxMoves, StartsInStop <- FALSE,
    radio <- c1, air <- c2, tx <- c3, engine <- c4, running <- c5, task <- c6,
    current <- c7, stopping <- c8, moves <- c9

\* What the updates of the engine and of the radio keep.
Aged(e, a, l) == [e EXCEPT !.age = a, !.left = l]
Heard(r, says) == [r EXCEPT !.says = says]

LEMMA Listened ==
    ASSUME NEW e, Hop!EngineOf(e), NEW i \in Nat, Hop!Active[i] \in Hop!Tunable
    PROVE  /\ Hop!EngineOf(Hop!Listen(e, i)) /\ Hop!Listen(e, i).state = "listening"
           /\ Hop!Listen(e, i).freq = Hop!Active[i] /\ Hop!Listen(e, i).age = 0
<1> DEFINE a == Hop!Active[i]
           s == "listening"
           f == Hop!Listen(e, i)
<1>1. s \in Hop!EngineStates /\ a \in Hop!Tunable
  BY DEF Hop!EngineStates
<1>2. f = [e EXCEPT !.state = s, !.i = i, !.freq = a, !.age = 0]
  BY DEF Hop!Listen
<1> HIDE DEF a, s, f
<1>3. Hop!EngineOf(f) /\ f.state = s /\ f.freq = a /\ f.age = 0
  BY <1>1, <1>2 DEF Hop!EngineOf
<1> QED
  BY <1>3 DEF a, s, f

LEMMA Stayed ==
    ASSUME NEW e, Hop!EngineOf(e), NEW freq \in Hop!Tunable, HopDwell \in Nat
    PROVE  /\ Hop!EngineOf(Hop!Stay(e, freq)) /\ Hop!Stay(e, freq).state \in {"held", "dwelling"}
           /\ Hop!Stay(e, freq).freq = freq /\ Hop!Stay(e, freq).age = e.age
<1> DEFINE s == IF HopMode = "hold" THEN "held" ELSE "dwelling"
           l == IF HopMode = "timed" THEN HopDwell ELSE e.left
<1>1. l \in Nat /\ s \in {"held", "dwelling"}
  BY DEF Hop!EngineOf
<1>2. Hop!Stay(e, freq) = [e EXCEPT !.freq = freq, !.state = s, !.left = l]
  BY DEF Hop!Stay
<1> HIDE DEF s, l
<1> QED
  BY <1>1, <1>2 DEF Hop!EngineOf, Hop!EngineStates

LEMMA AgedAndHeard ==
    /\ \A e, a, l : Hop!EngineOf(e) /\ a \in Nat /\ l \in Nat =>
          /\ Hop!EngineOf(Aged(e, a, l)) /\ Aged(e, a, l).state = e.state /\ Aged(e, a, l).freq = e.freq
          /\ a = e.age /\ l = e.left => Aged(e, a, l) = e
    /\ \A r, b : Hop!RadioOf(r) /\ b \in BOOLEAN => Hop!RadioOf(Heard(r, b)) /\ Heard(r, b).at = r.at /\ Heard(r, b).says = b
    /\ \A r, a : Hop!RadioOf(r) /\ a \in Hop!Tunable => Hop!RadioOf(Hop!Tuned(r, a)) /\ Hop!Tuned(r, a).at = a
<1>1. ASSUME NEW e, NEW a, NEW l, Hop!EngineOf(e), a \in Nat, l \in Nat
      PROVE  /\ Hop!EngineOf(Aged(e, a, l)) /\ Aged(e, a, l).state = e.state /\ Aged(e, a, l).freq = e.freq
             /\ a = e.age /\ l = e.left => Aged(e, a, l) = e
  BY <1>1 DEF Hop!EngineOf, Aged
<1>2. ASSUME NEW r, NEW b, Hop!RadioOf(r), b \in BOOLEAN
      PROVE  Hop!RadioOf(Heard(r, b)) /\ Heard(r, b).at = r.at /\ Heard(r, b).says = b
  BY <1>2 DEF Hop!RadioOf, Heard
<1>3. ASSUME NEW r, NEW a, Hop!RadioOf(r), a \in Hop!Tunable
      PROVE  Hop!RadioOf(Hop!Tuned(r, a)) /\ Hop!Tuned(r, a).at = a
  BY <1>3 DEF Hop!RadioOf, Hop!Tuned
<1> QED
  BY <1>1, <1>2, <1>3

LEMMA FreshEngine ==
    /\ Hop!EngineOf(Hop!NoEngine) /\ Hop!EngineOf([Hop!NoEngine EXCEPT !.state = "idle"])
    /\ Hop!NoEngine.state = "none" /\ Hop!NoEngine.freq = "none" /\ Hop!NoEngine.age = 0
    /\ [Hop!NoEngine EXCEPT !.state = "idle"].state = "idle"
    /\ [Hop!NoEngine EXCEPT !.state = "idle"].freq = "none" /\ [Hop!NoEngine EXCEPT !.state = "idle"].age = 0
  BY DEF Hop!EngineOf, Hop!NoEngine, Hop!EngineStates, Hop!Tunable

\* What a tick does when there is no priority channel: nothing; it ends a plan
\* without channels; it stays where the squelch is open, the settle time over;
\* or it goes on to a channel of the plan.
TickOutcome(e, r) ==
    \/ e = c4 /\ r = c1
    \/ r = c1 /\ c4.state = "idle" /\ e.state = "done" /\ e.freq = c4.freq /\ e.age = c4.age
    \/ /\ r = c1 /\ c1.says /\ c4.state = "listening" /\ c4.age >= HopSettle
       /\ e.state \in {"held", "dwelling"} /\ e.freq = c4.freq /\ e.age = c4.age
    \/ /\ ~c3 /\ e.state = "listening" /\ e.age = 0
       /\ e.freq \in Hop!Freqs \ HopLockout /\ Hop!Active # << >>
       /\ r.at = e.freq

LEMMA TickListens ==
    ASSUME Hop!PlanAssumption, HopPriority = "none", Hop!EngineOf(c4), Hop!RadioOf(c1), Hop!Listens,
           c4.state # "none", NEW fresh \in BOOLEAN
    PROVE  LET n == Hop!Tick(c4, c1, fresh)
           IN  /\ Hop!EngineOf(n.engine) /\ n.engine.state # "none" /\ Hop!RadioOf(n.radio)
               /\ TickOutcome(n.engine, n.radio)
<1> DEFINE n == Hop!Tick(c4, c1, fresh)
           Good == /\ Hop!EngineOf(n.engine) /\ n.engine.state # "none" /\ Hop!RadioOf(n.radio)
                   /\ TickOutcome(n.engine, n.radio)
<1> SUFFICES Good
  OBVIOUS
<1>1. CASE n = Hop!Still(c4, c1)
  BY <1>1 DEF Hop!Still, TickOutcome
<1>2. ASSUME NEW i \in 1 .. Len(Hop!Active), ~c3, n = [engine |-> Hop!Listen(c4, i), radio |-> Hop!Tuned(c1, Hop!Active[i])]
      PROVE  Good
  <2>1. Hop!Active[i] \in Hop!Freqs \ HopLockout /\ Hop!Active # << >>
    BY DEF Hop!PlanAssumption
  <2>2. Hop!EngineOf(n.engine) /\ n.engine.state = "listening" /\ n.engine.age = 0 /\ n.engine.freq = Hop!Active[i]
    <3>1. Hop!Active[i] \in Hop!Tunable /\ i \in Nat
      BY <2>1 DEF Hop!Tunable
    <3> QED
      BY <1>2, <3>1, Listened
  <2>3. Hop!RadioOf(n.radio) /\ n.radio.at = Hop!Active[i]
    BY <1>2, <2>1, AgedAndHeard DEF Hop!Tunable
  <2> QED
    BY <1>2, <2>1, <2>2, <2>3 DEF TickOutcome
<1>3. ASSUME ~c3, Hop!Active # << >>, n = Hop!Advance(c4, c1, fresh)
      PROVE  Good
  <2> DEFINE i == (c4.i % Len(Hop!Active)) + 1
  <2>1. i \in 1 .. Len(Hop!Active)
    <3>1. Len(Hop!Active) \in Nat \ {0} /\ c4.i \in Nat
      BY <1>3 DEF Hop!PlanAssumption, Hop!EngineOf
    <3> QED
      BY <3>1
  <2>2. n = [engine |-> Hop!Listen(c4, i), radio |-> Hop!Tuned(c1, Hop!Active[i])]
    BY <1>3 DEF Hop!Advance
  <2> QED
    BY <1>2, <1>3, <2>1, <2>2
<1>4. CASE c3 \/ c4.state \in {"held", "done"}
  BY <1>1, <1>4 DEF Hop!Tick
<1>5. CASE ~c3 /\ c4.state = "idle"
  <2>1. CASE Hop!Active = << >>
    <3>1. n = Hop!Still([c4 EXCEPT !.state = "done"], c1)
      BY <1>5, <2>1 DEF Hop!Tick
    <3> QED
      BY <1>5, <3>1 DEF Hop!Still, Hop!EngineOf, Hop!EngineStates, TickOutcome
  <2>2. CASE Hop!Active # << >>
    <3>1. 1 \in 1 .. Len(Hop!Active)
      BY <2>2 DEF Hop!PlanAssumption
    <3>2. n = [engine |-> Hop!Listen(c4, 1), radio |-> Hop!Tuned(c1, Hop!Active[1])]
      BY <1>5, <2>2 DEF Hop!Tick
    <3> QED
      BY <1>2, <1>5, <3>1, <3>2
  <2> QED
    BY <2>1, <2>2
<1>6. CASE ~c3 /\ c4.state = "listening"
  <2>1. CASE c4.age < HopSettle
    BY <1>1, <1>6, <2>1 DEF Hop!Tick
  <2>2. CASE ~(c4.age < HopSettle) /\ c1.says
    <3>1. n = Hop!Still(Hop!Stay(c4, c4.freq), c1)
      BY <1>6, <2>2 DEF Hop!Tick
    <3>2. n.radio = c1 /\ n.engine = Hop!Stay(c4, c4.freq) /\ c4.age >= HopSettle
      BY <2>2, <3>1 DEF Hop!Still, Hop!EngineOf, Hop!PlanAssumption
    <3> HIDE DEF n
    <3>3. /\ Hop!EngineOf(n.engine) /\ n.engine.state \in {"held", "dwelling"}
          /\ n.engine.freq = c4.freq /\ n.engine.age = c4.age
      BY <3>2, Stayed DEF Hop!EngineOf, Hop!PlanAssumption
    <3> QED
      BY <1>6, <2>2, <3>2, <3>3 DEF TickOutcome
  <2>3. CASE ~(c4.age < HopSettle) /\ ~c1.says
    <3>1. n = Hop!Advance(c4, c1, fresh)
      BY <1>6, <2>3 DEF Hop!Tick
    <3> QED
      BY <1>3, <1>6, <3>1 DEF Hop!Listens
  <2> QED
    BY <2>1, <2>2, <2>3
<1>7. CASE ~c3 /\ c4.state = "dwelling"
  <2>1. n = Hop!Still(c4, c1) \/ n = Hop!Advance(c4, c1, fresh)
    BY <1>7 DEF Hop!Tick
  <2> QED
    BY <1>1, <1>3, <1>7, <2>1 DEF Hop!Listens
<1> QED
  BY <1>4, <1>5, <1>6, <1>7 DEF Hop!EngineOf, Hop!EngineStates

\* While no start comes during a stop, a scan keeps its engine and is where it
\* says it is, the scan stays only where a carrier was when it looked, an over
\* is not retuned and a locked out channel is not listened to.  Without a
\* priority channel, whose peek is not given the time to settle.
THEOREM ScanIsTrueToItsPlan ==
    ASSUME Hop!PlanAssumption, HopPriority = "none"
    PROVE  Hop!Spec => []Hop!ScanKeepsItsEngine /\ Hop!StaysOnCarriers /\ Hop!OversStayTuned
<1>1. Hop!Init => Hop!IInv
  <2> SUFFICES ASSUME Hop!Init
               PROVE  Hop!IInv
    OBVIOUS
  <2>1. c4 = Hop!NoEngine /\ Hop!EngineOf(c4) /\ c4.state = "none" /\ c4.freq = "none" /\ c4.age = 0
    BY FreshEngine DEF Hop!Init
  <2>2. Hop!RadioOf(c1)
    BY DEF Hop!Init, Hop!RadioOf, Hop!Tunable
  <2>3. Hop!Typed
    BY <2>1, <2>2 DEF Hop!Init, Hop!Typed
  <2>4. Hop!OneTicks
    BY DEF Hop!Init, Hop!OneTicks
  <2>5. Hop!Listens
    BY <2>1 DEF Hop!Listens, Hop!PlanAssumption
  <2> QED
    BY <2>3, <2>4, <2>5 DEF Hop!IInv
<1>2. Hop!IInv /\ [Hop!Next]_(Hop!vars) => Hop!IInv' /\ Hop!HoldsACarrier /\ Hop!LeavesOversTuned
  <2> SUFFICES ASSUME Hop!IInv, [Hop!Next]_(Hop!vars)
               PROVE  Hop!IInv' /\ Hop!HoldsACarrier /\ Hop!LeavesOversTuned
    OBVIOUS
  <2>1. ASSUME NEW t \in HopTasks, Hop!Starts(t)
        PROVE  Hop!IInv' /\ Hop!HoldsACarrier /\ Hop!LeavesOversTuned
    <3>1. Hop!EngineOf(c4') /\ c4'.state = "idle" /\ c4'.freq = "none" /\ c4'.age = 0
      BY <2>1, FreshEngine DEF Hop!Starts
    <3>2. c6' = [c6 EXCEPT ![t] = "new"] /\ c7' = t /\ c8' = c8 /\ c8 = Hop!None /\ t # Hop!None
          /\ c7 = Hop!None /\ UNCHANGED <<c1, c2, c3>>
      BY <2>1 DEF Hop!Starts, Hop!PlanAssumption
    <3>3. Hop!Typed'
      BY <3>1, <3>2 DEF Hop!IInv, Hop!Typed
    <3>4. Hop!OneTicks'
      <4>1. ASSUME NEW u \in HopTasks, c6'[u] \in {"new", "asleep"}
            PROVE  u = t
        BY <3>2, <4>1 DEF Hop!IInv, Hop!Typed, Hop!OneTicks, Hop!PlanAssumption
      <4> QED
        BY <3>1, <3>2, <4>1 DEF Hop!OneTicks
    <3>5. Hop!Listens'
      BY <3>1, <3>2 DEF Hop!Listens, Hop!PlanAssumption
    <3> QED
      BY <3>1, <3>2, <3>3, <3>4, <3>5 DEF Hop!IInv, Hop!HoldsACarrier, Hop!LeavesOversTuned
  <2>2. ASSUME NEW t \in HopTasks, Hop!Runs(t)
        PROVE  Hop!IInv' /\ Hop!HoldsACarrier /\ Hop!LeavesOversTuned
    <3>1. /\ t = c7 /\ c4.state # "none" /\ UNCHANGED <<c2, c3, c7, c8>>
          /\ c6' = [c6 EXCEPT ![t] = "dead"] \/ c6' = [c6 EXCEPT ![t] = "asleep"]
      BY <2>2 DEF Hop!Runs, Hop!IInv, Hop!OneTicks, Hop!PlanAssumption
    <3>2. CASE UNCHANGED <<c4, c1>>
      BY <3>1, <3>2 DEF Hop!IInv, Hop!Typed, Hop!OneTicks, Hop!Listens, Hop!HoldsACarrier, Hop!LeavesOversTuned
    <3>3. CASE ~UNCHANGED <<c4, c1>>
      <4>1. PICK fresh \in BOOLEAN :
               c4' = Hop!Tick(c4, c1, fresh).engine /\ c1' = Hop!Tick(c4, c1, fresh).radio
        BY <2>2, <3>3 DEF Hop!Runs
      <4>2. Hop!EngineOf(c4') /\ c4'.state # "none" /\ Hop!RadioOf(c1') /\ TickOutcome(c4', c1')
        BY <3>1, <4>1, TickListens DEF Hop!IInv, Hop!Typed
      <4>3. Hop!Typed' /\ Hop!OneTicks'
        BY <3>1, <4>2 DEF Hop!IInv, Hop!Typed, Hop!OneTicks
      <4>4. Hop!Listens'
        BY <3>1, <3>3, <4>2 DEF Hop!IInv, Hop!Typed, Hop!EngineOf, Hop!Listens, TickOutcome, Hop!PlanAssumption
      <4>5. Hop!HoldsACarrier
        BY <3>1, <3>3, <4>2 DEF Hop!IInv, Hop!Typed, Hop!EngineOf, Hop!Listens, TickOutcome, Hop!HoldsACarrier
      <4>6. Hop!LeavesOversTuned
        BY <3>1, <3>3, <4>2 DEF TickOutcome, Hop!LeavesOversTuned
      <4> QED
        BY <4>3, <4>4, <4>5, <4>6 DEF Hop!IInv
    <3> QED
      BY <3>2, <3>3
  <2>3. CASE Hop!Stops
    <3>1. /\ c8' = c7 /\ c7' = Hop!None /\ c7 \in HopTasks /\ UNCHANGED <<c1, c2, c4>>
          /\ c6' = IF c6[c7] = "dead" THEN c6 ELSE [c6 EXCEPT ![c7] = "cancelled"]
      BY <2>3 DEF Hop!Stops, Hop!IInv, Hop!OneTicks
    <3> QED
      BY <3>1 DEF Hop!IInv, Hop!Typed, Hop!OneTicks, Hop!Listens, Hop!HoldsACarrier, Hop!LeavesOversTuned
  <2>4. ASSUME NEW t \in HopTasks, Hop!Cancelled(t)
        PROVE  Hop!IInv' /\ Hop!HoldsACarrier /\ Hop!LeavesOversTuned
    BY <2>4 DEF Hop!Cancelled, Hop!IInv, Hop!Typed, Hop!OneTicks, Hop!Listens, Hop!HoldsACarrier, Hop!LeavesOversTuned
  <2>5. CASE Hop!StopEnds
    <3>1. /\ c4' = Hop!NoEngine /\ c8' = Hop!None /\ c7 = Hop!None /\ c7' = Hop!None
          /\ UNCHANGED <<c1, c2, c3>> /\ c6' = [c6 EXCEPT ![c8] = "absent"]
      BY <2>5 DEF Hop!StopEnds, Hop!IInv, Hop!OneTicks
    <3>2. Hop!EngineOf(c4') /\ c4'.state = "none" /\ c4'.freq = "none" /\ c4'.age = 0
      BY <3>1, FreshEngine
    <3>3. Hop!Typed'
      BY <3>1, <3>2 DEF Hop!IInv, Hop!Typed
    <3>4. Hop!OneTicks'
      <4>1. ASSUME NEW u \in HopTasks, c6'[u] \in {"new", "asleep"}
            PROVE  u = c7'
        BY <3>1, <4>1 DEF Hop!IInv, Hop!Typed, Hop!OneTicks
      <4> QED
        BY <3>1, <4>1 DEF Hop!OneTicks
    <3>5. Hop!Listens'
      BY <3>1, <3>2 DEF Hop!Listens, Hop!PlanAssumption
    <3> QED
      BY <3>1, <3>2, <3>3, <3>4, <3>5 DEF Hop!IInv, Hop!HoldsACarrier, Hop!LeavesOversTuned
  <2>6. CASE Hop!Passes
    <3>1. /\ c1' = Heard(c1, c1.at \in c2)
          /\ UNCHANGED <<c2, c3, c5, c6, c7, c8>>
      BY <2>6 DEF Hop!Passes, Heard
    <3>2. /\ Hop!EngineOf(c4') /\ c4'.state = c4.state /\ c4'.freq = c4.freq
          /\ c4.state = "none" => c4' = Hop!NoEngine
      <4> Hop!EngineOf(c4)
        BY DEF Hop!IInv, Hop!Typed
      <4> DEFINE a == IF c4 # Hop!NoEngine /\ c4.age < HopSettle THEN c4.age + 1 ELSE c4.age
                 l == IF c4.left > 0 THEN c4.left - 1 ELSE c4.left
      <4>1. a \in Nat /\ l \in Nat
        BY DEF Hop!EngineOf
      <4>2. c4' = Aged(c4, a, l)
        BY <2>6 DEF Hop!Passes, Hop!EngineOf, Aged
      <4>3. c4 = Hop!NoEngine => a = c4.age /\ l = c4.left
        BY DEF Hop!NoEngine
      <4> HIDE DEF a, l
      <4>4. Hop!EngineOf(c4') /\ c4'.state = c4.state /\ c4'.freq = c4.freq
        BY <4>1, <4>2, AgedAndHeard
      <4>5. c4.state = "none" => c4' = Hop!NoEngine
        BY <4>1, <4>2, <4>3, AgedAndHeard DEF Hop!IInv, Hop!Typed
      <4> QED
        BY <4>4, <4>5
    <3>3. Hop!RadioOf(c1') /\ c1'.at = c1.at /\ c1'.says = (c1'.at \in c2')
      <4> DEFINE b == c1.at \in c2
      <4>1. b \in BOOLEAN /\ c1' = Heard(c1, b) /\ c2' = c2
        BY <3>1
      <4> HIDE DEF b
      <4>2. Hop!RadioOf(c1') /\ c1'.at = c1.at /\ c1'.says = b
        BY <4>1, AgedAndHeard DEF Hop!IInv, Hop!Typed
      <4> QED
        BY <4>1, <4>2 DEF b
    <3> QED
      BY <3>1, <3>2, <3>3 DEF Hop!IInv, Hop!Typed, Hop!OneTicks, Hop!Listens, Hop!HoldsACarrier, Hop!LeavesOversTuned
  <2>7. ASSUME NEW freq \in Hop!Freqs, Hop!Carrier(freq)
        PROVE  Hop!IInv' /\ Hop!HoldsACarrier /\ Hop!LeavesOversTuned
    <3>1. UNCHANGED <<c3, c4, c5, c6, c7, c8>>
      BY <2>7 DEF Hop!Carrier
    <3>2. /\ Hop!RadioOf(c1') /\ c1'.at = c1.at
          /\ c4.age >= HopSettle => c1'.says = (c1'.at \in c2')
      <4> DEFINE b == c1.at \in c2'
      <4>1. b \in BOOLEAN /\ c1' = IF c4.age >= HopSettle THEN Heard(c1, b) ELSE c1
        BY <2>7 DEF Hop!Carrier, Heard
      <4> HIDE DEF b
      <4>2. Hop!RadioOf(c1') /\ c1'.at = c1.at /\ (c4.age >= HopSettle => c1'.says = b)
        BY <4>1, AgedAndHeard DEF Hop!IInv, Hop!Typed
      <4> QED
        BY <4>2 DEF b
    <3> QED
      BY <3>1, <3>2 DEF Hop!IInv, Hop!Typed, Hop!OneTicks, Hop!Listens, Hop!HoldsACarrier, Hop!LeavesOversTuned
  <2>8. CASE Hop!Over \/ UNCHANGED Hop!vars
    BY <2>8 DEF Hop!Over, Hop!vars, Hop!IInv, Hop!Typed, Hop!OneTicks, Hop!Listens, Hop!HoldsACarrier, Hop!LeavesOversTuned
  <2> QED
    BY <2>1, <2>2, <2>3, <2>4, <2>5, <2>6, <2>7, <2>8 DEF Hop!Next
<1>3. Hop!IInv => Hop!ScanKeepsItsEngine
  BY DEF Hop!IInv, Hop!Typed, Hop!EngineOf, Hop!EngineStates, Hop!OneTicks, Hop!Listens, Hop!NoEngine, Hop!ScanKeepsItsEngine
<1> QED
  BY <1>1, <1>2, <1>3, PTL DEF Hop!Spec, Hop!StaysOnCarriers, Hop!OversStayTuned

-----------------------------------------------------------------------------
(* Shutdown: the way out of the process. *)

CONSTANTS
    ExitParts, ExitDemanders, ExitKeyers, ExitWedges, ExitStepFaults

Exit == INSTANCE Shutdown WITH
    Parts <- ExitParts, Demanders <- ExitDemanders, Keyers <- ExitKeyers,
    Wedges <- ExitWedges, StepFaults <- ExitStepFaults,
    pc <- c1, asking <- c2, up <- c3, demand <- c4, pump <- c5, waiting <- c6,
    calls <- c7, keyer <- c8, line <- c9, wedged <- c10, asked <- c11

\* Each step of the way out has its place.
LEMMA PlaceOfAStep ==
    ASSUME NEW i \in 1 .. 18
    PROVE  Exit!At(Exit!Steps[i]) = i
<1>1. Len(Exit!Steps) = 18
  BY DEF Exit!Steps
<1>2. ASSUME NEW j \in 1 .. 18, Exit!Steps[j] = Exit!Steps[i]
      PROVE  j = i
  BY <1>2 DEF Exit!Steps
<1>3. Exit!At(Exit!Steps[i]) \in 1 .. 18 /\ Exit!Steps[Exit!At(Exit!Steps[i])] = Exit!Steps[i]
  <2> DEFINE P(j) == j \in 1 .. Len(Exit!Steps) /\ Exit!Steps[j] = Exit!Steps[i]
  <2>1. P(i)
    BY <1>1
  <2>2. Exit!At(Exit!Steps[i]) = CHOOSE j \in 1 .. Len(Exit!Steps) : Exit!Steps[j] = Exit!Steps[i]
    BY DEF Exit!At
  <2> QED
    BY <1>1, <2>1, <2>2
<1> QED
  BY <1>2, <1>3

LEMMA StepsInOrder ==
    /\ Exit!At("serving") = 1 /\ Exit!At("graceful") = 2 /\ Exit!At("unkey") = 3 /\ Exit!At("codec") = 4
    /\ Exit!At("dstar") = 5 /\ Exit!At("dstar_rx") = 6 /\ Exit!At("dvap") = 7 /\ Exit!At("mumble") = 8
    /\ Exit!At("mumble_rx") = 9 /\ Exit!At("ptt_off") = 10 /\ Exit!At("scan") = 11 /\ Exit!At("pump") = 12
    /\ Exit!At("reader") = 13 /\ Exit!At("decoder") = 14 /\ Exit!At("close") = 15 /\ Exit!At("ledger") = 16
    /\ Exit!At("exiting") = 17 /\ Exit!At("exited") = 18
<1>1. /\ Exit!Steps[1] = "serving" /\ Exit!Steps[2] = "graceful" /\ Exit!Steps[3] = "unkey" /\ Exit!Steps[4] = "codec"
      /\ Exit!Steps[5] = "dstar" /\ Exit!Steps[6] = "dstar_rx" /\ Exit!Steps[7] = "dvap" /\ Exit!Steps[8] = "mumble"
      /\ Exit!Steps[9] = "mumble_rx" /\ Exit!Steps[10] = "ptt_off" /\ Exit!Steps[11] = "scan" /\ Exit!Steps[12] = "pump"
      /\ Exit!Steps[13] = "reader" /\ Exit!Steps[14] = "decoder" /\ Exit!Steps[15] = "close" /\ Exit!Steps[16] = "ledger"
      /\ Exit!Steps[17] = "exiting" /\ Exit!Steps[18] = "exited"
  BY DEF Exit!Steps
<1>2. /\ Exit!At(Exit!Steps[1]) = 1 /\ Exit!At(Exit!Steps[2]) = 2 /\ Exit!At(Exit!Steps[3]) = 3 /\ Exit!At(Exit!Steps[4]) = 4 /\ Exit!At(Exit!Steps[5]) = 5
      /\ Exit!At(Exit!Steps[6]) = 6 /\ Exit!At(Exit!Steps[7]) = 7 /\ Exit!At(Exit!Steps[8]) = 8 /\ Exit!At(Exit!Steps[9]) = 9
      /\ Exit!At(Exit!Steps[10]) = 10 /\ Exit!At(Exit!Steps[11]) = 11 /\ Exit!At(Exit!Steps[12]) = 12 /\ Exit!At(Exit!Steps[13]) = 13
      /\ Exit!At(Exit!Steps[14]) = 14 /\ Exit!At(Exit!Steps[15]) = 15 /\ Exit!At(Exit!Steps[16]) = 16 /\ Exit!At(Exit!Steps[17]) = 17
      /\ Exit!At(Exit!Steps[18]) = 18
  BY PlaceOfAStep
<1> QED
  BY <1>1, <1>2

LEMMA NextStep ==
    ASSUME Exit!OnTheWay, Exit!At(c1) < 18, Exit!Moves
    PROVE  Exit!OnTheWay' /\ Exit!At(c1') = Exit!At(c1) + 1 /\ Exit!At(c1) \in 1 .. 17
<1>1. Len(Exit!Steps) = 18
  BY DEF Exit!Steps
<1>2. PICK i \in 1 .. 18 : c1 = Exit!Steps[i]
  BY <1>1 DEF Exit!OnTheWay
<1>3. Exit!At(c1) = i
  BY <1>2, PlaceOfAStep
<1>4. i + 1 \in 1 .. 18 /\ c1' = Exit!Steps[i + 1]
  BY <1>3 DEF Exit!Moves, Exit!After
<1> QED
  BY <1>1, <1>3, <1>4, PlaceOfAStep DEF Exit!OnTheWay

\* Who is at a step is at its place, and the other way round.
LEMMA PlacesDecide ==
    ASSUME NEW p, \E i \in 1 .. Len(Exit!Steps) : p = Exit!Steps[i]
    PROVE  /\ Exit!At(p) \in 1 .. 18
           /\ p = "codec" <=> Exit!At(p) = 4
           /\ p = "dstar" <=> Exit!At(p) = 5
           /\ p = "ptt_off" <=> Exit!At(p) = 10
           /\ p = "reader" <=> Exit!At(p) = 13
           /\ p = "close" <=> Exit!At(p) = 15
           /\ p = "exited" <=> Exit!At(p) = 18
<1>1. Len(Exit!Steps) = 18
  BY DEF Exit!Steps
<1>2. PICK i \in 1 .. 18 : p = Exit!Steps[i]
  BY <1>1
<1>3. Exit!At(p) = i
  BY <1>2, PlaceOfAStep
<1>4. /\ i = 4 => p = "codec"
      /\ i = 5 => p = "dstar"
      /\ i = 10 => p = "ptt_off"
      /\ i = 13 => p = "reader"
      /\ i = 15 => p = "close"
      /\ i = 18 => p = "exited"
  BY <1>2 DEF Exit!Steps
<1> QED
  BY <1>3, <1>4, StepsInOrder

\* On the way out no codec is waited for with the bridge's carrier up, the
\* radio is closed after the last read, no step is skipped, and the line is
\* down before the scan is stopped.
THEOREM StopIsOrderly ==
    ASSUME Exit!ExitAssumption
    PROVE  Exit!Spec => [](/\ Exit!NoCarrierWaitsForTheCodec /\ Exit!ReadIsOutOfTheDriver
                      /\ Exit!EveryStepIsTaken /\ Exit!NobodyIsLeftKeyed)
<1>1. Exit!Init => Exit!IInv
  <2> SUFFICES ASSUME Exit!Init
               PROVE  Exit!IInv
    OBVIOUS
  <2>1. Exit!OnTheWay
    BY DEF Exit!Init, Exit!OnTheWay, Exit!Steps
  <2>2. Exit!At(c1) = 1
    BY StepsInOrder DEF Exit!Init
  <2>3. Exit!Taken
    BY <2>2, StepsInOrder DEF Exit!Taken, Exit!Reached
  <2>4. Exit!Waits
    BY DEF Exit!Init, Exit!Waits
  <2>5. Exit!Reads
    <3>1. "controller" \in c4
      BY DEF Exit!Init, Exit!ExitAssumption
    <3>2. c5 = TRUE
      BY <3>1 DEF Exit!Init
    <3> QED
      BY <2>2, <3>1, <3>2, StepsInOrder DEF Exit!Init, Exit!Reads, Exit!Reached
  <2>6. Exit!Keyed
    BY <2>2, StepsInOrder DEF Exit!Init, Exit!Keyed, Exit!Reached, Exit!NobodyIsLeftKeyed
  <2> QED
    BY <2>1, <2>3, <2>4, <2>5, <2>6 DEF Exit!IInv
<1>2. Exit!IInv /\ [Exit!Next]_(Exit!vars) => Exit!IInv'
  <2> SUFFICES ASSUME Exit!IInv, [Exit!Next]_(Exit!vars)
               PROVE  Exit!IInv'
    OBVIOUS
  <2> USE StepsInOrder DEF Exit!Reached
  <2>1. ASSUME NEW k \in ExitKeyers, Exit!KeyUp(k)
        PROVE  Exit!IInv'
    <3>1. c1' = c1 /\ c9' = TRUE /\ c8' = k /\ Exit!Living(k) /\ k \in {"dstar", "mumble", "web"}
          /\ UNCHANGED <<c2, c3, c4, c5, c6, c7, c10, c11>>
      BY <2>1 DEF Exit!KeyUp, Exit!ExitAssumption
    <3>2. Exit!At(c1) \in 1 .. 18
      BY PlacesDecide DEF Exit!IInv, Exit!OnTheWay
    <3>3. Exit!OnTheWay' /\ Exit!Taken' /\ Exit!Waits' /\ Exit!Reads'
      BY <3>1 DEF Exit!IInv, Exit!OnTheWay, Exit!Taken, Exit!Waits, Exit!Reads, Exit!ReadIsOut
    <3>4. Exit!At(c1) <= 8 /\ (k = "dstar" => "dstar" \in c3 /\ Exit!At(c1) < 4) /\ (k = "mumble" => "mumble" \in c3)
      <4>1. CASE k = "dstar"
        BY <3>1, <3>2, <4>1 DEF Exit!Living
      <4>2. CASE k = "mumble"
        BY <3>1, <3>2, <4>2 DEF Exit!Living
      <4>3. CASE k = "web"
        BY <3>1, <3>2, <4>3 DEF Exit!Living
      <4> QED
        BY <3>1, <4>1, <4>2, <4>3
    <3>5. Exit!Keyed'
      BY <3>1, <3>2, <3>4 DEF Exit!IInv, Exit!Keyed, Exit!NobodyIsLeftKeyed
    <3> QED
      BY <3>3, <3>5 DEF Exit!IInv
  <2>2. CASE Exit!KeyDown
    <3>1. c9' = FALSE /\ c8' = "none" /\ UNCHANGED <<c1, c2, c3, c4, c5, c6, c7, c10, c11>>
      BY <2>2 DEF Exit!KeyDown
    <3>2. Exit!OnTheWay' /\ Exit!Taken' /\ Exit!Waits' /\ Exit!Reads'
      BY <3>1 DEF Exit!IInv, Exit!OnTheWay, Exit!Taken, Exit!Waits, Exit!Reads, Exit!ReadIsOut
    <3>3. Exit!Keyed'
      BY <3>1 DEF Exit!Keyed, Exit!NobodyIsLeftKeyed
    <3> QED
      BY <3>2, <3>3 DEF Exit!IInv
  <2>3. CASE Exit!CaptureRead \/ Exit!Decode
    <3>1. \E c \in {"capture.read", "codec.decode"} : c7' = c7 \cup {c} /\ (c = "capture.read" => c5)
      BY <2>3 DEF Exit!CaptureRead, Exit!Decode
    <3>2. UNCHANGED <<c1, c2, c3, c4, c5, c6, c8, c9, c10, c11>>
      BY <2>3 DEF Exit!CaptureRead, Exit!Decode
    <3>3. Exit!OnTheWay' /\ Exit!Taken' /\ Exit!Waits' /\ Exit!Keyed'
      BY <3>1, <3>2 DEF Exit!IInv, Exit!OnTheWay, Exit!Taken, Exit!Waits, Exit!Keyed, Exit!NobodyIsLeftKeyed
    <3>4. Exit!At(c1) \in 1 .. 18
      BY PlacesDecide DEF Exit!IInv, Exit!OnTheWay
    <3>5. Exit!Reads'
      BY <3>1, <3>2, <3>4 DEF Exit!IInv, Exit!Reads, Exit!ReadIsOut
    <3> QED
      BY <3>3, <3>5 DEF Exit!IInv
  <2>4. ASSUME NEW c \in DOMAIN Exit!Device, Exit!CallReturns(c)
        PROVE  Exit!IInv'
    <3>1. /\ c7' = c7 \ {c} /\ c9' = IF c \in {"ptt.off", "radio.close"} THEN FALSE ELSE c9
          /\ UNCHANGED <<c1, c2, c3, c4, c5, c6, c8, c10, c11>>
      BY <2>4 DEF Exit!CallReturns
    <3>2. Exit!OnTheWay' /\ Exit!Taken' /\ Exit!Waits' /\ Exit!Reads'
      BY <3>1 DEF Exit!IInv, Exit!OnTheWay, Exit!Taken, Exit!Waits, Exit!Reads, Exit!ReadIsOut
    <3>3. Exit!Keyed'
      BY <3>1 DEF Exit!IInv, Exit!Keyed, Exit!NobodyIsLeftKeyed
    <3> QED
      BY <3>2, <3>3 DEF Exit!IInv
  <2>5. CASE Exit!SocketUnwinds
    <3>1. /\ c4' = c4 \ {"socket"} /\ "controller" \in c4' /\ UNCHANGED <<c5, c6>>
          /\ UNCHANGED <<c1, c2, c3, c7, c8, c9, c10, c11>>
      BY <2>5 DEF Exit!SocketUnwinds, Exit!ReleaseRx, Exit!IInv, Exit!Reads
    <3> QED
      BY <3>1 DEF Exit!IInv, Exit!OnTheWay, Exit!Taken, Exit!Waits, Exit!Reads, Exit!ReadIsOut, Exit!Keyed, Exit!NobodyIsLeftKeyed
  <2>6. CASE Exit!SocketReturns
    <3>1. "socket" \in c6
      BY <2>6 DEF Exit!SocketReturns, Exit!StopReturns
    <3> QED
      BY <3>1 DEF Exit!IInv, Exit!Reads
  <2>7. CASE Exit!Step
    <3>1. CASE Exit!Signal
      <4>1. /\ Exit!Moves /\ Exit!At(c1) \in {1, 2} /\ ~c2
            /\ UNCHANGED <<c2, c3, c4, c5, c6, c7, c8, c9, c10, c11>>
        BY <3>1 DEF Exit!Signal, Exit!IInv, Exit!Waits
      <4>2. Exit!OnTheWay' /\ Exit!At(c1') = Exit!At(c1) + 1 /\ Exit!At(c1) \in 1 .. 17
        BY <4>1, NextStep DEF Exit!IInv
      <4>3. /\ c1 = "codec" <=> Exit!At(c1) = 4
            /\ c1 = "ptt_off" <=> Exit!At(c1) = 10
            /\ c1 = "reader" <=> Exit!At(c1) = 13
            /\ c1 = "close" <=> Exit!At(c1) = 15
            /\ c1' = "codec" <=> Exit!At(c1') = 4
            /\ c1' = "ptt_off" <=> Exit!At(c1') = 10
            /\ c1' = "reader" <=> Exit!At(c1') = 13
            /\ c1' = "close" <=> Exit!At(c1') = 15
        BY <4>2, PlacesDecide DEF Exit!IInv, Exit!OnTheWay
      <4>4. Exit!Taken'
        BY <4>1, <4>2 DEF Exit!IInv, Exit!Taken
      <4>5. Exit!Waits'
        BY <4>1, <4>2, <4>3 DEF Exit!IInv, Exit!Waits
      <4>6. Exit!Reads'
        BY <4>1, <4>2, <4>3 DEF Exit!IInv, Exit!Reads, Exit!ReadIsOut
      <4>7. Exit!Keyed'
        BY <4>1, <4>2, <4>3 DEF Exit!IInv, Exit!Keyed, Exit!NobodyIsLeftKeyed
      <4> QED
        BY <4>2, <4>4, <4>5, <4>6, <4>7 DEF Exit!IInv
    <3>2. CASE Exit!ForceUnkey
      <4>1. /\ Exit!Moves /\ Exit!At(c1) = 3 /\ ~c2
            /\ ("dstar" \in c3 => c9' = FALSE /\ c8' = IF c8 = "dstar" THEN "none" ELSE c8)
            /\ ("dstar" \notin c3 => UNCHANGED <<c8, c9>>)
            /\ UNCHANGED <<c2, c3, c4, c5, c6, c7, c10, c11>>
        BY <3>2 DEF Exit!ForceUnkey, Exit!Unkeyed, Exit!IInv, Exit!Waits
      <4>2. Exit!OnTheWay' /\ Exit!At(c1') = Exit!At(c1) + 1 /\ Exit!At(c1) \in 1 .. 17
        BY <4>1, NextStep DEF Exit!IInv
      <4>3. /\ c1 = "codec" <=> Exit!At(c1) = 4
            /\ c1 = "ptt_off" <=> Exit!At(c1) = 10
            /\ c1 = "reader" <=> Exit!At(c1) = 13
            /\ c1 = "close" <=> Exit!At(c1) = 15
            /\ c1' = "codec" <=> Exit!At(c1') = 4
            /\ c1' = "ptt_off" <=> Exit!At(c1') = 10
            /\ c1' = "reader" <=> Exit!At(c1') = 13
            /\ c1' = "close" <=> Exit!At(c1') = 15
        BY <4>2, PlacesDecide DEF Exit!IInv, Exit!OnTheWay
      <4>4. Exit!Taken'
        BY <4>1, <4>2 DEF Exit!IInv, Exit!Taken
      <4>5. Exit!Waits'
        BY <4>1, <4>2, <4>3 DEF Exit!IInv, Exit!Waits
      <4>6. Exit!Reads'
        BY <4>1, <4>2, <4>3 DEF Exit!IInv, Exit!Reads, Exit!ReadIsOut
      <4>7. Exit!Keyed'
        BY <4>1, <4>2, <4>3 DEF Exit!IInv, Exit!Keyed, Exit!NobodyIsLeftKeyed
      <4> QED
        BY <4>2, <4>4, <4>5, <4>6, <4>7 DEF Exit!IInv
    <3>3. CASE Exit!CodecClose
      <4> UNCHANGED <<c3, c4, c5, c6, c8, c9, c10>> /\ c1 = "codec" /\ Exit!At(c1) = 4
        BY <3>3 DEF Exit!CodecClose, Exit!Bounded
      <4>1. ASSUME c2', c7' = c7 \cup {"codec.close"}, c11' = c11 \cup {"codec"}, c1' = c1
            PROVE  Exit!IInv'
        <5>1. Exit!OnTheWay' /\ Exit!Taken'
          BY <4>1 DEF Exit!IInv, Exit!OnTheWay, Exit!Taken
        <5>2. Exit!Waits'
          BY <4>1 DEF Exit!IInv, Exit!Waits
        <5>3. Exit!Reads'
          BY <4>1 DEF Exit!IInv, Exit!Reads, Exit!ReadIsOut
        <5>4. Exit!Keyed'
          BY <4>1 DEF Exit!IInv, Exit!Keyed, Exit!NobodyIsLeftKeyed
        <5> QED
          BY <5>1, <5>2, <5>3, <5>4 DEF Exit!IInv
      <4>2. ASSUME Exit!Moves, UNCHANGED <<c7, c11>>, ~c2',
                   (~c2 /\ ~("dstar" \in c3)) \/ (c2 /\ ("codec.close" \notin c7 \/ Exit!Device["codec.close"] \in c10))
            PROVE  Exit!IInv'
        <5>1. Exit!OnTheWay' /\ Exit!At(c1') = 5
          BY <4>2, NextStep DEF Exit!IInv
        <5>2. /\ c1' # "ptt_off" /\ c1' # "reader" /\ c1' # "close" /\ c1 # "reader"
          BY <5>1, PlacesDecide DEF Exit!OnTheWay
        <5>3. Exit!Taken'
          BY <4>2, <5>1 DEF Exit!IInv, Exit!Taken, Exit!Waits
        <5>4. Exit!Waits'
          BY <4>2, <5>1, <5>2 DEF Exit!IInv, Exit!Waits
        <5>5. Exit!Reads'
          BY <4>2, <5>1, <5>2 DEF Exit!IInv, Exit!Reads, Exit!ReadIsOut
        <5>6. Exit!Keyed'
          BY <4>2, <5>1, <5>2 DEF Exit!IInv, Exit!Keyed, Exit!NobodyIsLeftKeyed, Exit!Device, Exit!ArbiterTransmits
        <5> QED
          BY <5>1, <5>3, <5>4, <5>5, <5>6 DEF Exit!IInv
      <4> QED
        BY <3>3, <4>1, <4>2 DEF Exit!CodecClose, Exit!Bounded, Exit!IInv, Exit!Waits
    <3>4. CASE Exit!StopBridge("dstar", "dstar")
      <4>0. /\ c1 = "dstar" /\ Exit!Moves /\ c11' = c11 \cup {"dstar"} /\ UNCHANGED <<c2, c3, c7, c10>>
            /\ IF "dstar" \in c3
               THEN /\ Exit!ReleaseRx("dstar") /\ c8' = IF c8 = "dstar" THEN "none" ELSE c8
                    /\ c9' = IF c8 = "dstar" THEN FALSE ELSE c9
               ELSE UNCHANGED <<c4, c5, c6, c8, c9>>
        BY <3>4 DEF Exit!StopBridge
      <4>1. /\ Exit!Moves /\ Exit!At(c1) = 5 /\ ~c2
            /\ c11' = c11 \cup {"dstar"} /\ "controller" \in c4'
            /\ c8' # "dstar"
            /\ ((c8' = c8 /\ c9' = c9) \/ (c8' = "none" /\ c9' = FALSE))
            /\ UNCHANGED <<c2, c3, c7, c10, c5, c6>>
        <5>1. "controller" \in c4' /\ UNCHANGED <<c5, c6>>
          <6>1. "controller" \in c4
            BY DEF Exit!IInv, Exit!Reads
          <6>2. CASE "dstar" \in c3
            <7>1. "controller" \in c4' /\ Exit!ReleaseRx("dstar")
              BY <4>0, <6>1, <6>2 DEF Exit!ReleaseRx
            <7> QED
              BY <7>1 DEF Exit!ReleaseRx
          <6> QED
            BY <4>0, <6>1, <6>2
        <5>2. c8' # "dstar" /\ ((c8' = c8 /\ c9' = c9) \/ (c8' = "none" /\ c9' = FALSE))
          BY <4>0 DEF Exit!IInv, Exit!Keyed
        <5> QED
          BY <4>0, <5>1, <5>2 DEF Exit!IInv, Exit!Waits
      <4>2. Exit!OnTheWay' /\ Exit!At(c1') = Exit!At(c1) + 1 /\ Exit!At(c1) \in 1 .. 17
        BY <4>1, NextStep DEF Exit!IInv
      <4>3. /\ c1 = "codec" <=> Exit!At(c1) = 4
            /\ c1 = "ptt_off" <=> Exit!At(c1) = 10
            /\ c1 = "reader" <=> Exit!At(c1) = 13
            /\ c1 = "close" <=> Exit!At(c1) = 15
            /\ c1' = "codec" <=> Exit!At(c1') = 4
            /\ c1' = "ptt_off" <=> Exit!At(c1') = 10
            /\ c1' = "reader" <=> Exit!At(c1') = 13
            /\ c1' = "close" <=> Exit!At(c1') = 15
        BY <4>2, PlacesDecide DEF Exit!IInv, Exit!OnTheWay
      <4>4. Exit!Taken'
        BY <4>1, <4>2 DEF Exit!IInv, Exit!Taken
      <4>5. Exit!Waits'
        BY <4>1, <4>2, <4>3 DEF Exit!IInv, Exit!Waits
      <4>6. Exit!Reads'
        BY <4>1, <4>2, <4>3 DEF Exit!IInv, Exit!Reads, Exit!ReadIsOut
      <4>7. Exit!Keyed'
        BY <4>1, <4>2, <4>3 DEF Exit!IInv, Exit!Keyed, Exit!NobodyIsLeftKeyed
      <4> QED
        BY <4>2, <4>4, <4>5, <4>6, <4>7 DEF Exit!IInv
    <3>5. CASE Exit!BridgeReturns("dstar_rx", "dstar") \/ Exit!BridgeReturns("mumble_rx", "mumble")
      <4>1. /\ Exit!Moves /\ Exit!At(c1) \in {6, 9} /\ ~c2
            /\ UNCHANGED <<c2, c3, c4, c5, c6, c7, c8, c9, c10, c11>>
        BY <3>5 DEF Exit!BridgeReturns, Exit!IInv, Exit!Reads, Exit!Waits
      <4>2. Exit!OnTheWay' /\ Exit!At(c1') = Exit!At(c1) + 1 /\ Exit!At(c1) \in 1 .. 17
        BY <4>1, NextStep DEF Exit!IInv
      <4>3. /\ c1 = "codec" <=> Exit!At(c1) = 4
            /\ c1 = "ptt_off" <=> Exit!At(c1) = 10
            /\ c1 = "reader" <=> Exit!At(c1) = 13
            /\ c1 = "close" <=> Exit!At(c1) = 15
            /\ c1' = "codec" <=> Exit!At(c1') = 4
            /\ c1' = "ptt_off" <=> Exit!At(c1') = 10
            /\ c1' = "reader" <=> Exit!At(c1') = 13
            /\ c1' = "close" <=> Exit!At(c1') = 15
        BY <4>2, PlacesDecide DEF Exit!IInv, Exit!OnTheWay
      <4>4. Exit!Taken'
        BY <4>1, <4>2 DEF Exit!IInv, Exit!Taken
      <4>5. Exit!Waits'
        BY <4>1, <4>2, <4>3 DEF Exit!IInv, Exit!Waits
      <4>6. Exit!Reads'
        BY <4>1, <4>2, <4>3 DEF Exit!IInv, Exit!Reads, Exit!ReadIsOut
      <4>7. Exit!Keyed'
        BY <4>1, <4>2, <4>3 DEF Exit!IInv, Exit!Keyed, Exit!NobodyIsLeftKeyed
      <4> QED
        BY <4>2, <4>4, <4>5, <4>6, <4>7 DEF Exit!IInv
    <3>6. CASE Exit!AskStep("dvap") \/ Exit!AskStep("scan") \/ Exit!AskStep("decoder") \/ Exit!AskStep("ledger")
      <4>1. /\ Exit!Moves /\ Exit!At(c1) \in {7, 11, 14, 16} /\ ~c2
            /\ c11' = c11 \cup {c1} /\ c1 \in {"dvap", "scan", "decoder", "ledger"}
            /\ UNCHANGED <<c2, c3, c4, c5, c6, c7, c8, c9, c10>>
        BY <3>6 DEF Exit!AskStep, Exit!Asked, Exit!IInv, Exit!Waits
      <4>2. Exit!OnTheWay' /\ Exit!At(c1') = Exit!At(c1) + 1 /\ Exit!At(c1) \in 1 .. 17
        BY <4>1, NextStep DEF Exit!IInv
      <4>3. /\ c1 = "codec" <=> Exit!At(c1) = 4
            /\ c1 = "ptt_off" <=> Exit!At(c1) = 10
            /\ c1 = "reader" <=> Exit!At(c1) = 13
            /\ c1 = "close" <=> Exit!At(c1) = 15
            /\ c1' = "codec" <=> Exit!At(c1') = 4
            /\ c1' = "ptt_off" <=> Exit!At(c1') = 10
            /\ c1' = "reader" <=> Exit!At(c1') = 13
            /\ c1' = "close" <=> Exit!At(c1') = 15
        BY <4>2, PlacesDecide DEF Exit!IInv, Exit!OnTheWay
      <4>4. Exit!Taken'
        BY <4>1, <4>2 DEF Exit!IInv, Exit!Taken
      <4>5. Exit!Waits'
        BY <4>1, <4>2, <4>3 DEF Exit!IInv, Exit!Waits
      <4>6. Exit!Reads'
        BY <4>1, <4>2, <4>3 DEF Exit!IInv, Exit!Reads, Exit!ReadIsOut
      <4>7. Exit!Keyed'
        BY <4>1, <4>2, <4>3 DEF Exit!IInv, Exit!Keyed, Exit!NobodyIsLeftKeyed
      <4> QED
        BY <4>2, <4>4, <4>5, <4>6, <4>7 DEF Exit!IInv
    <3>7. CASE Exit!StopBridge("mumble", "mumble")
      <4>0. /\ c1 = "mumble" /\ Exit!Moves /\ c11' = c11 \cup {"mumble"} /\ UNCHANGED <<c2, c3, c7, c10>>
            /\ IF "mumble" \in c3
               THEN /\ Exit!ReleaseRx("mumble") /\ c8' = IF c8 = "mumble" THEN "none" ELSE c8
                    /\ c9' = IF c8 = "mumble" THEN FALSE ELSE c9
               ELSE UNCHANGED <<c4, c5, c6, c8, c9>>
        BY <3>7 DEF Exit!StopBridge
      <4>1. /\ Exit!Moves /\ Exit!At(c1) = 8 /\ ~c2
            /\ c11' = c11 \cup {"mumble"} /\ "controller" \in c4'
            /\ c8' # "mumble"
            /\ ((c8' = c8 /\ c9' = c9) \/ (c8' = "none" /\ c9' = FALSE))
            /\ UNCHANGED <<c2, c3, c7, c10, c5, c6>>
        <5>1. "controller" \in c4' /\ UNCHANGED <<c5, c6>>
          <6>1. "controller" \in c4
            BY DEF Exit!IInv, Exit!Reads
          <6>2. CASE "mumble" \in c3
            <7>1. "controller" \in c4' /\ Exit!ReleaseRx("mumble")
              BY <4>0, <6>1, <6>2 DEF Exit!ReleaseRx
            <7> QED
              BY <7>1 DEF Exit!ReleaseRx
          <6> QED
            BY <4>0, <6>1, <6>2
        <5>2. c8' # "mumble" /\ ((c8' = c8 /\ c9' = c9) \/ (c8' = "none" /\ c9' = FALSE))
          BY <4>0 DEF Exit!IInv, Exit!Keyed
        <5> QED
          BY <4>0, <5>1, <5>2 DEF Exit!IInv, Exit!Waits
      <4>2. Exit!OnTheWay' /\ Exit!At(c1') = Exit!At(c1) + 1 /\ Exit!At(c1) \in 1 .. 17
        BY <4>1, NextStep DEF Exit!IInv
      <4>3. /\ c1 = "codec" <=> Exit!At(c1) = 4
            /\ c1 = "ptt_off" <=> Exit!At(c1) = 10
            /\ c1 = "reader" <=> Exit!At(c1) = 13
            /\ c1 = "close" <=> Exit!At(c1) = 15
            /\ c1' = "codec" <=> Exit!At(c1') = 4
            /\ c1' = "ptt_off" <=> Exit!At(c1') = 10
            /\ c1' = "reader" <=> Exit!At(c1') = 13
            /\ c1' = "close" <=> Exit!At(c1') = 15
        BY <4>2, PlacesDecide DEF Exit!IInv, Exit!OnTheWay
      <4>4. Exit!Taken'
        BY <4>1, <4>2 DEF Exit!IInv, Exit!Taken
      <4>5. Exit!Waits'
        BY <4>1, <4>2, <4>3 DEF Exit!IInv, Exit!Waits
      <4>6. Exit!Reads'
        BY <4>1, <4>2, <4>3 DEF Exit!IInv, Exit!Reads, Exit!ReadIsOut
      <4>7. Exit!Keyed'
        BY <4>1, <4>2, <4>3 DEF Exit!IInv, Exit!Keyed, Exit!NobodyIsLeftKeyed
      <4> QED
        BY <4>2, <4>4, <4>5, <4>6, <4>7 DEF Exit!IInv
    <3>8. CASE Exit!PttOff
      <4> UNCHANGED <<c3, c4, c5, c6, c8, c9, c10>> /\ c1 = "ptt_off" /\ Exit!At(c1) = 10
        BY <3>8 DEF Exit!PttOff, Exit!Bounded
      <4>1. ASSUME c2', c7' = c7 \cup {"ptt.off"}, c11' = c11 \cup {"ptt_off"}, c1' = c1
            PROVE  Exit!IInv'
        <5>1. Exit!OnTheWay' /\ Exit!Taken'
          BY <4>1 DEF Exit!IInv, Exit!OnTheWay, Exit!Taken
        <5>2. Exit!Waits'
          BY <4>1 DEF Exit!IInv, Exit!Waits
        <5>3. Exit!Reads'
          BY <4>1 DEF Exit!IInv, Exit!Reads, Exit!ReadIsOut
        <5>4. Exit!Keyed'
          BY <4>1 DEF Exit!IInv, Exit!Keyed, Exit!NobodyIsLeftKeyed
        <5> QED
          BY <5>1, <5>2, <5>3, <5>4 DEF Exit!IInv
      <4>2. ASSUME Exit!Moves, UNCHANGED <<c7, c11>>, ~c2',
                   (~c2 /\ ~(Exit!ArbiterTransmits)) \/ (c2 /\ ("ptt.off" \notin c7 \/ Exit!Device["ptt.off"] \in c10))
            PROVE  Exit!IInv'
        <5>1. Exit!OnTheWay' /\ Exit!At(c1') = 11
          BY <4>2, NextStep DEF Exit!IInv
        <5>2. /\ c1' # "ptt_off" /\ c1' # "reader" /\ c1' # "close" /\ c1 # "reader"
          BY <5>1, PlacesDecide DEF Exit!OnTheWay
        <5>3. Exit!Taken'
          BY <4>2, <5>1 DEF Exit!IInv, Exit!Taken, Exit!Waits
        <5>4. Exit!Waits'
          BY <4>2, <5>1, <5>2 DEF Exit!IInv, Exit!Waits
        <5>5. Exit!Reads'
          BY <4>2, <5>1, <5>2 DEF Exit!IInv, Exit!Reads, Exit!ReadIsOut
        <5>6. Exit!Keyed'
          BY <4>2, <5>1, <5>2 DEF Exit!IInv, Exit!Keyed, Exit!NobodyIsLeftKeyed, Exit!Device, Exit!ArbiterTransmits
        <5> QED
          BY <5>1, <5>3, <5>4, <5>5, <5>6 DEF Exit!IInv
      <4> QED
        BY <3>8, <4>1, <4>2 DEF Exit!PttOff, Exit!Bounded, Exit!IInv, Exit!Waits
    <3>9. CASE Exit!PumpStop
      <4>1. /\ Exit!Moves /\ Exit!At(c1) = 12 /\ ~c2
            /\ c11' = c11 \cup {"pump"} /\ c5' = FALSE /\ c6' = {"holder"}
            /\ UNCHANGED <<c2, c3, c4, c7, c8, c9, c10>>
        BY <3>9 DEF Exit!PumpStop, Exit!StopPump, Exit!IInv, Exit!Reads, Exit!Waits
      <4>2. Exit!OnTheWay' /\ Exit!At(c1') = Exit!At(c1) + 1 /\ Exit!At(c1) \in 1 .. 17
        BY <4>1, NextStep DEF Exit!IInv
      <4>3. /\ c1 = "codec" <=> Exit!At(c1) = 4
            /\ c1 = "ptt_off" <=> Exit!At(c1) = 10
            /\ c1 = "reader" <=> Exit!At(c1) = 13
            /\ c1 = "close" <=> Exit!At(c1) = 15
            /\ c1' = "codec" <=> Exit!At(c1') = 4
            /\ c1' = "ptt_off" <=> Exit!At(c1') = 10
            /\ c1' = "reader" <=> Exit!At(c1') = 13
            /\ c1' = "close" <=> Exit!At(c1') = 15
        BY <4>2, PlacesDecide DEF Exit!IInv, Exit!OnTheWay
      <4>4. Exit!Taken'
        BY <4>1, <4>2 DEF Exit!IInv, Exit!Taken
      <4>5. Exit!Waits'
        BY <4>1, <4>2, <4>3 DEF Exit!IInv, Exit!Waits
      <4>6. Exit!Reads'
        BY <4>1, <4>2, <4>3 DEF Exit!IInv, Exit!Reads, Exit!ReadIsOut
      <4>7. Exit!Keyed'
        BY <4>1, <4>2, <4>3 DEF Exit!IInv, Exit!Keyed, Exit!NobodyIsLeftKeyed
      <4> QED
        BY <4>2, <4>4, <4>5, <4>6, <4>7 DEF Exit!IInv
    <3>10. CASE Exit!ReaderJoin
      <4>1. /\ Exit!Moves /\ Exit!At(c1) = 13 /\ ~c2
            /\ c6 = {"holder"} /\ c6' = {} /\ Exit!ReadIsOut
            /\ UNCHANGED <<c2, c3, c4, c5, c7, c8, c9, c10, c11>>
        BY <3>10 DEF Exit!ReaderJoin, Exit!StopReturns, Exit!IInv, Exit!Reads, Exit!Waits
      <4>2. Exit!OnTheWay' /\ Exit!At(c1') = Exit!At(c1) + 1 /\ Exit!At(c1) \in 1 .. 17
        BY <4>1, NextStep DEF Exit!IInv
      <4>3. /\ c1 = "codec" <=> Exit!At(c1) = 4
            /\ c1 = "ptt_off" <=> Exit!At(c1) = 10
            /\ c1 = "reader" <=> Exit!At(c1) = 13
            /\ c1 = "close" <=> Exit!At(c1) = 15
            /\ c1' = "codec" <=> Exit!At(c1') = 4
            /\ c1' = "ptt_off" <=> Exit!At(c1') = 10
            /\ c1' = "reader" <=> Exit!At(c1') = 13
            /\ c1' = "close" <=> Exit!At(c1') = 15
        BY <4>2, PlacesDecide DEF Exit!IInv, Exit!OnTheWay
      <4>4. Exit!Taken'
        BY <4>1, <4>2 DEF Exit!IInv, Exit!Taken
      <4>5. Exit!Waits'
        BY <4>1, <4>2, <4>3 DEF Exit!IInv, Exit!Waits
      <4>6. Exit!Reads'
        BY <4>1, <4>2, <4>3 DEF Exit!IInv, Exit!Reads, Exit!ReadIsOut
      <4>7. Exit!Keyed'
        BY <4>1, <4>2, <4>3 DEF Exit!IInv, Exit!Keyed, Exit!NobodyIsLeftKeyed
      <4> QED
        BY <4>2, <4>4, <4>5, <4>6, <4>7 DEF Exit!IInv
    <3>11. CASE Exit!RadioClose
      <4> UNCHANGED <<c3, c4, c5, c6, c8, c9, c10>> /\ c1 = "close" /\ Exit!At(c1) = 15
        BY <3>11 DEF Exit!RadioClose, Exit!Bounded
      <4>1. ASSUME c2', c7' = c7 \cup {"radio.close"}, c11' = c11 \cup {"close"}, c1' = c1
            PROVE  Exit!IInv'
        <5>1. Exit!OnTheWay' /\ Exit!Taken'
          BY <4>1 DEF Exit!IInv, Exit!OnTheWay, Exit!Taken
        <5>2. Exit!Waits'
          BY <4>1 DEF Exit!IInv, Exit!Waits
        <5>3. Exit!Reads'
          BY <4>1 DEF Exit!IInv, Exit!Reads, Exit!ReadIsOut
        <5>4. Exit!Keyed'
          BY <4>1 DEF Exit!IInv, Exit!Keyed, Exit!NobodyIsLeftKeyed
        <5> QED
          BY <5>1, <5>2, <5>3, <5>4 DEF Exit!IInv
      <4>2. ASSUME Exit!Moves, UNCHANGED <<c7, c11>>, ~c2',
                   (~c2 /\ ~(TRUE)) \/ (c2 /\ ("radio.close" \notin c7 \/ Exit!Device["radio.close"] \in c10))
            PROVE  Exit!IInv'
        <5>1. Exit!OnTheWay' /\ Exit!At(c1') = 16
          BY <4>2, NextStep DEF Exit!IInv
        <5>2. /\ c1' # "ptt_off" /\ c1' # "reader" /\ c1' # "close" /\ c1 # "reader"
          BY <5>1, PlacesDecide DEF Exit!OnTheWay
        <5>3. Exit!Taken'
          BY <4>2, <5>1 DEF Exit!IInv, Exit!Taken, Exit!Waits
        <5>4. Exit!Waits'
          BY <4>2, <5>1, <5>2 DEF Exit!IInv, Exit!Waits
        <5>5. Exit!Reads'
          BY <4>2, <5>1, <5>2 DEF Exit!IInv, Exit!Reads, Exit!ReadIsOut
        <5>6. Exit!Keyed'
          BY <4>2, <5>1, <5>2 DEF Exit!IInv, Exit!Keyed, Exit!NobodyIsLeftKeyed, Exit!Device, Exit!ArbiterTransmits
        <5> QED
          BY <5>1, <5>3, <5>4, <5>5, <5>6 DEF Exit!IInv
      <4> QED
        BY <3>11, <4>1, <4>2 DEF Exit!RadioClose, Exit!Bounded, Exit!IInv, Exit!Waits
    <3>12. CASE Exit!InterpreterExit
      <4>1. /\ Exit!Moves /\ Exit!At(c1) = 17 /\ ~c2
            /\ c9' = FALSE
            /\ UNCHANGED <<c2, c3, c4, c5, c6, c7, c8, c10, c11>>
        BY <3>12 DEF Exit!InterpreterExit, Exit!IInv, Exit!Waits
      <4>2. Exit!OnTheWay' /\ Exit!At(c1') = Exit!At(c1) + 1 /\ Exit!At(c1) \in 1 .. 17
        BY <4>1, NextStep DEF Exit!IInv
      <4>3. /\ c1 = "codec" <=> Exit!At(c1) = 4
            /\ c1 = "ptt_off" <=> Exit!At(c1) = 10
            /\ c1 = "reader" <=> Exit!At(c1) = 13
            /\ c1 = "close" <=> Exit!At(c1) = 15
            /\ c1' = "codec" <=> Exit!At(c1') = 4
            /\ c1' = "ptt_off" <=> Exit!At(c1') = 10
            /\ c1' = "reader" <=> Exit!At(c1') = 13
            /\ c1' = "close" <=> Exit!At(c1') = 15
        BY <4>2, PlacesDecide DEF Exit!IInv, Exit!OnTheWay
      <4>4. Exit!Taken'
        BY <4>1, <4>2 DEF Exit!IInv, Exit!Taken
      <4>5. Exit!Waits'
        BY <4>1, <4>2, <4>3 DEF Exit!IInv, Exit!Waits
      <4>6. Exit!Reads'
        BY <4>1, <4>2, <4>3 DEF Exit!IInv, Exit!Reads, Exit!ReadIsOut
      <4>7. Exit!Keyed'
        BY <4>1, <4>2, <4>3 DEF Exit!IInv, Exit!Keyed, Exit!NobodyIsLeftKeyed
      <4> QED
        BY <4>2, <4>4, <4>5, <4>6, <4>7 DEF Exit!IInv
    <3> QED
      BY <2>7, <3>1, <3>2, <3>3, <3>4, <3>5, <3>6, <3>7, <3>8, <3>9, <3>10, <3>11, <3>12 DEF Exit!Step
  <2>8. CASE UNCHANGED Exit!vars
    BY <2>8 DEF Exit!vars, Exit!IInv, Exit!OnTheWay, Exit!Taken, Exit!Waits, Exit!Reads, Exit!ReadIsOut, Exit!Keyed, Exit!NobodyIsLeftKeyed
  <2> QED
    BY <2>1, <2>2, <2>3, <2>4, <2>5, <2>6, <2>7, <2>8 DEF Exit!Next
<1>3. Exit!IInv => /\ Exit!NoCarrierWaitsForTheCodec /\ Exit!ReadIsOutOfTheDriver
              /\ Exit!EveryStepIsTaken /\ Exit!NobodyIsLeftKeyed
  <2> SUFFICES ASSUME Exit!IInv
               PROVE  /\ Exit!NoCarrierWaitsForTheCodec /\ Exit!ReadIsOutOfTheDriver
                      /\ Exit!EveryStepIsTaken /\ Exit!NobodyIsLeftKeyed
    OBVIOUS
  <2>1. Exit!NoCarrierWaitsForTheCodec
    BY StepsInOrder DEF Exit!IInv, Exit!Keyed, Exit!NoCarrierWaitsForTheCodec, Exit!Reached
  <2>2. Exit!ReadIsOutOfTheDriver
    <3>1. "close" \in c11 => Exit!At(c1) >= 15
      BY StepsInOrder DEF Exit!IInv, Exit!Waits, Exit!Reached
    <3>2. Exit!At(c1) \in 1 .. 18
      BY PlacesDecide DEF Exit!IInv, Exit!OnTheWay
    <3> QED
      BY <3>1, <3>2, StepsInOrder DEF Exit!IInv, Exit!Reads, Exit!Reached, Exit!ReadIsOut, Exit!ReadIsOutOfTheDriver
  <2>3. Exit!EveryStepIsTaken
    BY StepsInOrder DEF Exit!IInv, Exit!Taken, Exit!Reached, Exit!EveryStepIsTaken
  <2> QED
    BY <2>1, <2>2, <2>3 DEF Exit!IInv, Exit!Keyed
<1> QED
  BY <1>1, <1>2, <1>3, PTL DEF Exit!Spec

-----------------------------------------------------------------------------
(* RxTaps: who hears what the radio hears, and the files of what it heard. *)

CONSTANTS
    TapsListeners, TapsQueueSize, TapsMaxSeconds, TapsMaxFrames, TapsMaxTime,
    TapsMaxTx, TapsMaxFaults, TapsTapFaults

Taps == INSTANCE RxTaps WITH
    Listeners <- TapsListeners, QueueSize <- TapsQueueSize,
    MaxSeconds <- TapsMaxSeconds, TxFits <- FALSE, MaxFrames <- TapsMaxFrames,
    MaxTime <- TapsMaxTime, MaxTx <- TapsMaxTx, MaxFaults <- TapsMaxFaults,
    TapFaults <- TapsTapFaults,
    frame <- c1, pc <- c2, tx <- c3, txs <- c4, over <- c5, open <- c6,
    passed <- c7, queue <- c8, since <- c9, segment <- c10, files <- c11,
    failed <- c12, now <- c13, faults <- c14

LEMMA TapsElements ==
    ASSUME NEW S, NEW T, S \subseteq T, NEW s \in Seq(S)
    PROVE  s \in Seq(T) /\ \A i \in 1 .. Len(s) : s[i] \in S
  OBVIOUS

\* What the segments have of a frame is as before it.
LEMMA TapsSame ==
    ASSUME Taps!TapsAssumption, Taps!IInv, Taps!Segments' = Taps!Segments, c7' = c7, c12' = c12,
           c1' \in c1 .. c1 + 1, c1' <= TapsMaxFrames,
           c11' \subseteq Seq(Taps!Frames)
    PROVE  /\ Taps!SegmentsAreOvers' /\ Taps!NothingElseIsLost' /\ Taps!Filed'
           /\ \A l \in TapsListeners : c9'[l] = c9[l] => Taps!Heard(l)' = Taps!Heard(l)
<1>1. c1 \in Nat /\ c1' \in Nat /\ \A f \in 1 .. c1' : f > c1 => c7[f] = 0
  BY DEF Taps!IInv, Taps!Numbered
<1>2. Taps!SegmentsAreOvers'
  BY DEF Taps!IInv, Taps!SegmentsAreOvers
<1>3. Taps!NothingElseIsLost'
  <2> SUFFICES ASSUME NEW f \in 1 .. c1', c7[f] # 0
               PROVE  f \in c12 \/ \E s \in Taps!Segments : \E i \in 1 .. Len(s) : s[i] = f
    BY DEF Taps!NothingElseIsLost
  <2>1. f \in 1 .. c1
    BY <1>1
  <2> QED
    BY <2>1 DEF Taps!IInv, Taps!NothingElseIsLost
<1>4. Taps!Filed'
  <2> SUFFICES ASSUME NEW s \in Taps!Segments
               PROVE  s # << >> /\ \A i \in 1 .. Len(s) : s[i] <= c1' /\ c7[s[i]] # 0
    BY DEF Taps!Filed
  <2>1. s # << >> /\ \A i \in 1 .. Len(s) : s[i] <= c1 /\ c7[s[i]] # 0
    BY DEF Taps!IInv, Taps!Filed
  <2>2. s \in Seq(Taps!Frames)
    BY DEF Taps!IInv, Taps!Filed, Taps!EndsNow, Taps!Segments, Taps!Kept
  <2>3. \A i \in 1 .. Len(s) : s[i] \in Taps!Frames
    BY <2>2, TapsElements
  <2>4. \A i \in 1 .. Len(s) : s[i] \in Nat
    BY <2>3 DEF Taps!TapsAssumption, Taps!Frames
  <2> QED
    BY <1>1, <2>1, <2>4
<1>5. ASSUME NEW l \in TapsListeners, c9'[l] = c9[l]
      PROVE  Taps!Heard(l)' = Taps!Heard(l)
  <2>1. c9[l] \in Nat
    BY DEF Taps!IInv, Taps!Waiting
  <2> QED
    BY <1>1, <1>5, <2>1 DEF Taps!Heard
<1> QED
  BY <1>2, <1>3, <1>4, <1>5

\* A segment that ends is filed.
LEMMA TapsEnds ==
    ASSUME Taps!IInv, Taps!Ends
    PROVE  /\ Taps!Segments' = Taps!Segments /\ c11' \subseteq Seq(Taps!Frames)
           /\ ~c10'.open /\ c10'.frames = << >>
           /\ c10' \in [open : BOOLEAN, frames : Seq(Taps!Frames), began : Nat]
           /\ c10'.frames \notin c11'
<1>1. c10' = Taps!Closed /\ c11' = c11 \cup Taps!Kept(c10)
  BY DEF Taps!Ends, Taps!EndSegment
<1>2. Taps!Kept(c10') = {} /\ Taps!Kept(c10) \subseteq Seq(Taps!Frames)
  BY <1>1 DEF Taps!Kept, Taps!Closed, Taps!IInv, Taps!EndsNow
<1>3. << >> \notin Taps!Segments
  BY DEF Taps!IInv, Taps!Filed
<1> QED
  BY <1>1, <1>2, <1>3 DEF Taps!Closed, Taps!Segments, Taps!IInv, Taps!Filed

\* The steps of the pump and of the transmissions that read no frame.
LEMMA TapsBetweenFrames ==
    ASSUME Taps!TapsAssumption, Taps!IInv,
           Taps!StandsDown \/ Taps!Read \/ Taps!PumpStops \/ Taps!TxBegins \/ Taps!TxEnds \/ Taps!Tick
    PROVE  Taps!IInv'
<1>0. UNCHANGED <<c7, c12, c1, c9, c8, c5>> /\ c1 \in Nat /\ c1 <= TapsMaxFrames
  BY DEF Taps!StandsDown, Taps!Read, Taps!PumpStops, Taps!TxBegins, Taps!TxEnds, Taps!Tick, Taps!IInv, Taps!Numbered, Taps!TapsAssumption
<1>1. /\ Taps!Segments' = Taps!Segments /\ c11' \subseteq Seq(Taps!Frames)
      /\ c6' \in {c6, FALSE} /\ c13' \in Nat
      /\ Taps!EndsNow'
  <2>1. CASE Taps!StandsDown \/ Taps!PumpStops
    BY <2>1, TapsEnds DEF Taps!StandsDown, Taps!PumpStops, Taps!IInv, Taps!EndsNow
  <2>2. CASE Taps!Read \/ Taps!TxBegins \/ Taps!TxEnds \/ Taps!Tick
    <3>1. UNCHANGED <<c10, c11>> /\ c13' \in Nat
      BY <2>2 DEF Taps!Read, Taps!TxBegins, Taps!TxEnds, Taps!Tick, Taps!IInv, Taps!EndsNow, Taps!loop
    <3>2. c6' = c6 \/ (~c10.open /\ c6' = FALSE)
      BY <2>2 DEF Taps!Read, Taps!TxBegins, Taps!TxEnds, Taps!Tick
    <3> QED
      BY <1>0, <3>1, <3>2 DEF Taps!IInv, Taps!EndsNow, Taps!Filed, Taps!Segments
  <2> QED
    BY <2>1, <2>2
<1>2. c1' \in c1 .. c1 + 1 /\ c1' <= TapsMaxFrames
  BY <1>0
<1>3. /\ Taps!SegmentsAreOvers' /\ Taps!NothingElseIsLost' /\ Taps!Filed'
      /\ \A l \in TapsListeners : Taps!Heard(l)' = Taps!Heard(l)
  BY <1>0, <1>1, <1>2, TapsSame
<1>4. Taps!Numbered'
  <2>1. c6' => c6
    BY <1>1
  <2>2. c6' \in BOOLEAN
    BY <1>1 DEF Taps!IInv, Taps!Numbered
  <2> QED
    BY <1>0, <2>1, <2>2 DEF Taps!IInv, Taps!Numbered
<1>w. Taps!Waiting'
  BY <1>0 DEF Taps!IInv, Taps!Waiting
<1>5. Taps!ListenersAreNearLive'
  BY <1>0, <1>3 DEF Taps!IInv, Taps!ListenersAreNearLive
<1> QED
  BY <1>1, <1>3, <1>4, <1>5, <1>w DEF Taps!IInv

\* A frame that the gate stops.
LEMMA TapsStopped ==
    ASSUME Taps!TapsAssumption, Taps!IInv, Taps!Stopped
    PROVE  Taps!IInv'
<1>0. /\ UNCHANGED <<c7, c12, c9, c8, c5, c13>> /\ c6' = FALSE
      /\ c1 \in Nat /\ c1' = c1 + 1 /\ c1 < TapsMaxFrames /\ TapsMaxFrames \in Nat
  BY DEF Taps!Stopped, Taps!IInv, Taps!Numbered, Taps!TapsAssumption
<1>1. Taps!Segments' = Taps!Segments /\ c11' \subseteq Seq(Taps!Frames) /\ Taps!EndsNow'
  BY <1>0, TapsEnds DEF Taps!Stopped, Taps!IInv, Taps!EndsNow
<1>2. c1' \in c1 .. c1 + 1 /\ c1' <= TapsMaxFrames
  BY <1>0
<1>3. /\ Taps!SegmentsAreOvers' /\ Taps!NothingElseIsLost' /\ Taps!Filed'
      /\ \A l \in TapsListeners : Taps!Heard(l)' = Taps!Heard(l)
  BY <1>0, <1>1, <1>2, TapsSame
<1>4. Taps!Numbered'
  <2>1. c1 + 1 \in 0 .. TapsMaxFrames
    BY <1>0
  <2>2. \A f \in 1 .. TapsMaxFrames : f > c1 + 1 => c7[f] = 0
    BY <1>0 DEF Taps!IInv, Taps!Numbered
  <2> QED
    BY <1>0, <2>1, <2>2 DEF Taps!IInv, Taps!Numbered
<1>5. Taps!Waiting'
  <2>1. \A l \in TapsListeners : c9[l] \in Nat /\ c9[l] <= c1
    BY DEF Taps!IInv, Taps!Waiting
  <2>2. \A l \in TapsListeners : c9[l] <= c1'
    BY <1>0, <2>1
  <2> QED
    BY <1>0, <2>2 DEF Taps!IInv, Taps!Waiting
<1>6. Taps!ListenersAreNearLive'
  BY <1>0, <1>3 DEF Taps!IInv, Taps!ListenersAreNearLive
<1> QED
  BY <1>1, <1>3, <1>4, <1>5, <1>6 DEF Taps!IInv

\* A queue after a frame was taken from its head, or added at its end.
LEMMA TapsTails ==
    ASSUME NEW heard \in SUBSET Nat, NEW q \in Seq(Nat), q # << >>, Taps!NearLive(q, heard)
    PROVE  Taps!NearLive(Tail(q), heard)
<1>1. /\ Len(q) \in Nat /\ Len(q) >= 1 /\ Len(Tail(q)) = Len(q) - 1
      /\ \A i \in 1 .. Len(q) - 1 : Tail(q)[i] = q[i + 1]
  OBVIOUS
<1>2. \A i \in 1 .. Len(q) : q[i] \in Nat
  OBVIOUS
<1>3. \A i \in 1 .. Len(Tail(q)) : Tail(q)[i] \in heard
  BY <1>1 DEF Taps!NearLive
<1>4. \A i, j \in 1 .. Len(Tail(q)) : i < j => Tail(q)[i] < Tail(q)[j]
  BY <1>1 DEF Taps!NearLive
<1>5. ASSUME Tail(q) # << >>, NEW f \in heard, f >= Tail(q)[1]
      PROVE  \E i \in 1 .. Len(Tail(q)) : Tail(q)[i] = f
  <2>1. Len(q) >= 2 /\ Tail(q)[1] = q[2]
    <3>1. Len(Tail(q)) # 0
      BY <1>5
    <3> QED
      BY <1>1, <3>1
  <2>2. q[1] < q[2] /\ 1 \in 1 .. Len(q) /\ 2 \in 1 .. Len(q)
    BY <1>1, <2>1 DEF Taps!NearLive
  <2>3. f >= q[1] /\ f # q[1]
    BY <1>2, <1>5, <2>1, <2>2
  <2>4. PICK i \in 1 .. Len(q) : q[i] = f
    BY <2>3 DEF Taps!NearLive
  <2>5. i - 1 \in 1 .. Len(q) - 1
    BY <1>1, <2>3, <2>4
  <2>6. Tail(q)[i - 1] = f
    BY <1>1, <2>4, <2>5
  <2> QED
    BY <1>1, <2>5, <2>6
<1> QED
  BY <1>3, <1>4, <1>5 DEF Taps!NearLive

LEMMA TapsAppends ==
    ASSUME NEW heard \in SUBSET Nat, NEW q \in Seq(Nat), Taps!NearLive(q, heard),
           NEW f \in Nat, \A g \in heard : g < f
    PROVE  Taps!NearLive(Append(q, f), heard \cup {f})
<1>1. /\ Len(q) \in Nat /\ Len(Append(q, f)) = Len(q) + 1
      /\ \A i \in 1 .. Len(q) : Append(q, f)[i] = q[i] /\ q[i] \in Nat
      /\ Append(q, f)[Len(q) + 1] = f
  OBVIOUS
<1>2. \A i \in 1 .. Len(q) + 1 : i = Len(q) + 1 \/ i \in 1 .. Len(q)
  BY <1>1
<1>3. \A i \in 1 .. Len(q) : q[i] < f
  BY DEF Taps!NearLive
<1>4. \A i \in 1 .. Len(Append(q, f)) : Append(q, f)[i] \in heard \cup {f}
  BY <1>1, <1>2 DEF Taps!NearLive
<1>5. ASSUME NEW i \in 1 .. Len(Append(q, f)), NEW j \in 1 .. Len(Append(q, f)), i < j
      PROVE  Append(q, f)[i] < Append(q, f)[j]
  <2>1. i \in 1 .. Len(q)
    BY <1>1, <1>5
  <2>2. CASE j = Len(q) + 1
    BY <1>1, <1>3, <2>1, <2>2
  <2>3. CASE j \in 1 .. Len(q)
    BY <1>1, <1>5, <2>1, <2>3 DEF Taps!NearLive
  <2> QED
    BY <1>1, <1>2, <2>2, <2>3
<1>6. ASSUME NEW g \in heard \cup {f}, g >= Append(q, f)[1]
      PROVE  \E i \in 1 .. Len(Append(q, f)) : Append(q, f)[i] = g
  <2>1. CASE g = f
    BY <1>1, <2>1
  <2>2. CASE g \in heard
    <3>1. q # << >>
      <4> SUFFICES ASSUME q = << >>
                   PROVE  FALSE
        OBVIOUS
      <4>1. Append(q, f)[1] = f
        BY <1>1
      <4> QED
        BY <1>6, <2>2, <4>1
    <3>2. Append(q, f)[1] = q[1]
      BY <1>1, <3>1
    <3>3. PICK i \in 1 .. Len(q) : q[i] = g
      BY <1>6, <2>2, <3>1, <3>2 DEF Taps!NearLive
    <3> QED
      BY <1>1, <3>3
  <2> QED
    BY <2>1, <2>2
<1> QED
  BY <1>4, <1>5, <1>6 DEF Taps!NearLive

\* Listeners come, go and take.
LEMMA TapsListens ==
    ASSUME Taps!TapsAssumption, Taps!IInv, NEW l \in TapsListeners,
           Taps!Subscribe(l) \/ Taps!Unsubscribe(l) \/ Taps!Take(l)
    PROVE  Taps!IInv'
<1>0. UNCHANGED <<c1, c5, c6, c7, c10, c11, c12, c13>>
  BY DEF Taps!Subscribe, Taps!Unsubscribe, Taps!Take
<1>1. Taps!Numbered' /\ Taps!EndsNow' /\ Taps!Filed' /\ Taps!SegmentsAreOvers' /\ Taps!NothingElseIsLost'
  BY <1>0 DEF Taps!IInv, Taps!Numbered, Taps!EndsNow, Taps!Filed, Taps!SegmentsAreOvers, Taps!NothingElseIsLost, Taps!Segments
<1>2. c1 \in Nat
  BY DEF Taps!IInv, Taps!Numbered
<1>3. ASSUME NEW k \in TapsListeners
      PROVE  /\ c8[k].frames \in Seq(Taps!Frames) /\ c8[k].frames \in Seq(Nat)
             /\ c8[k].in \in BOOLEAN
             /\ Taps!Heard(k) \in SUBSET Nat /\ Taps!NearLive(c8[k].frames, Taps!Heard(k))
  <2>1. c8[k].frames \in Seq(Taps!Frames) /\ c8[k].in \in BOOLEAN
    BY DEF Taps!IInv, Taps!Waiting
  <2>0. Taps!Frames \subseteq Nat
    BY DEF Taps!TapsAssumption, Taps!Frames
  <2>2. c8[k].frames \in Seq(Nat)
    BY <2>0, <2>1, TapsElements
  <2>3. Taps!Heard(k) \in SUBSET Nat
    BY <1>2 DEF Taps!Heard, Taps!IInv, Taps!Waiting
  <2>4. Taps!NearLive(c8[k].frames, Taps!Heard(k))
    BY DEF Taps!IInv, Taps!ListenersAreNearLive, Taps!NearLive
  <2> QED
    BY <2>1, <2>2, <2>3, <2>4
<1>4. Taps!NearLive(<< >>, {f \in c9'[l] + 1..c1 : c7[f] # 0})
  BY DEF Taps!NearLive
<1>5. /\ Taps!Waiting'
      /\ \A k \in TapsListeners : Taps!NearLive(c8'[k].frames, Taps!Heard(k)')
  <2>1. CASE Taps!Subscribe(l) \/ Taps!Unsubscribe(l)
    <3>1. /\ \E b \in BOOLEAN : c8' = [c8 EXCEPT ![l] = [in |-> b, frames |-> << >>]]
          /\ c9' = c9 \/ c9' = [c9 EXCEPT ![l] = c1]
      BY <2>1 DEF Taps!Subscribe, Taps!Unsubscribe
    <3>2. Taps!Waiting'
      <4>1. PICK b \in BOOLEAN : c8' = [c8 EXCEPT ![l] = [in |-> b, frames |-> << >>]]
        BY <3>1
      <4>2. c8' \in [TapsListeners -> [in : BOOLEAN, frames : Seq(Taps!Frames)]]
        <5>1. << >> \in Seq(Taps!Frames)
          OBVIOUS
        <5> QED
          BY <4>1, <5>1 DEF Taps!IInv, Taps!Waiting
      <4>3. c9' \in [TapsListeners -> Nat] /\ \A k \in TapsListeners : c9'[k] <= c1
        <5>1. c9' \in [TapsListeners -> Nat]
          BY <1>2, <3>1 DEF Taps!IInv, Taps!Waiting
        <5>2. \A k \in TapsListeners : c9'[k] \in {c9[k], c1}
          BY <3>1 DEF Taps!IInv, Taps!Waiting
        <5> QED
          <6>1. \A k \in TapsListeners : c9[k] <= c1
            BY DEF Taps!IInv, Taps!Waiting
          <6>2. c1 <= c1
            BY <1>2
          <6> QED
            BY <5>1, <5>2, <6>1, <6>2
      <4> QED
        <5>1. \A k \in TapsListeners : ~c8'[k].in => c8'[k].frames = << >>
          BY <4>1 DEF Taps!IInv, Taps!Waiting
        <5> QED
          BY <1>0, <4>2, <4>3, <5>1 DEF Taps!Waiting
    <3>3. ASSUME NEW k \in TapsListeners
          PROVE  Taps!NearLive(c8'[k].frames, Taps!Heard(k)')
      <4>1. CASE k = l
        <5>1. c8'[l].frames = << >>
          BY <3>1 DEF Taps!IInv, Taps!Waiting
        <5> QED
          BY <1>0, <1>4, <4>1, <5>1 DEF Taps!Heard
      <4>2. CASE k # l
        <5>1. c8'[k] = c8[k] /\ c9'[k] = c9[k]
          BY <3>1, <4>2 DEF Taps!IInv, Taps!Waiting
        <5> QED
          BY <1>0, <1>3, <5>1 DEF Taps!Heard
      <4> QED
        BY <4>1, <4>2
    <3> QED
      BY <3>2, <3>3
  <2>2. CASE Taps!Take(l)
    <3>1. /\ c8' = [c8 EXCEPT ![l].frames = Tail(c8[l].frames)]
          /\ c9' = c9 /\ c8[l].frames # << >>
      BY <2>2 DEF Taps!Take
    <3>2. Tail(c8[l].frames) \in Seq(Taps!Frames)
      <4>1. \A q \in Seq(Taps!Frames) : q # << >> => Tail(q) \in Seq(Taps!Frames)
        OBVIOUS
      <4> QED
        BY <1>3, <3>1, <4>1
    <3>3. Taps!Waiting'
      BY <1>0, <3>1, <3>2 DEF Taps!IInv, Taps!Waiting
    <3>4. ASSUME NEW k \in TapsListeners
          PROVE  Taps!NearLive(c8'[k].frames, Taps!Heard(k)')
      <4>1. Taps!Heard(k)' = Taps!Heard(k)
        BY <1>0, <3>1 DEF Taps!Heard
      <4>2. CASE k = l
        <5>1. c8'[l].frames = Tail(c8[l].frames)
          BY <3>1 DEF Taps!IInv, Taps!Waiting
        <5> QED
          BY <1>3, <3>1, <4>1, <4>2, <5>1, TapsTails
      <4>3. CASE k # l
        BY <1>3, <3>1, <4>1, <4>3 DEF Taps!IInv, Taps!Waiting
      <4> QED
        BY <4>2, <4>3
    <3> QED
      BY <3>3, <3>4
  <2> QED
    BY <2>1, <2>2
<1>6. Taps!ListenersAreNearLive'
  BY <1>5 DEF Taps!ListenersAreNearLive, Taps!NearLive
<1> QED
  BY <1>1, <1>5, <1>6 DEF Taps!IInv

\* A frame that passes: to a listener that is in it is the last one of the
\* queue, which gave up the oldest if it was full.
LEMMA TapsHeardByAll ==
    ASSUME Taps!TapsAssumption, Taps!IInv, Taps!Passes
    PROVE  Taps!Numbered' /\ Taps!Waiting' /\ Taps!ListenersAreNearLive'
<1>0. /\ c1 \in Nat /\ TapsMaxFrames \in Nat /\ c1' = c1 + 1 /\ c1' \in Taps!Frames
      /\ c5 \in Nat /\ c5' \in Nat /\ c5' # 0
      /\ c7' = [c7 EXCEPT ![c1'] = c5']
      /\ c6' = TRUE /\ UNCHANGED c9
      /\ TapsQueueSize \in Nat /\ TapsQueueSize # 0
      /\ Taps!Frames \subseteq Nat
  BY DEF Taps!Passes, Taps!IInv, Taps!Numbered, Taps!TapsAssumption, Taps!Frames
<1>1. Taps!Numbered'
  <2>1. c7' \in [1..TapsMaxFrames -> Nat] /\ c7'[c1'] = c5'
    BY <1>0 DEF Taps!IInv, Taps!Numbered, Taps!Frames
  <2>2. \A f \in 1 .. TapsMaxFrames : f > c1 + 1 => c7'[f] = 0
    BY <1>0 DEF Taps!IInv, Taps!Numbered
  <2>3. c1 + 1 \in 0 .. TapsMaxFrames /\ c1 + 1 # 0
    BY <1>0 DEF Taps!Frames
  <2> QED
    BY <1>0, <2>1, <2>2, <2>3 DEF Taps!Numbered
<1>2. \A l \in TapsListeners : c9[l] \in Nat /\ c9[l] <= c1
  BY DEF Taps!IInv, Taps!Waiting
<1>3. ASSUME NEW l \in TapsListeners
      PROVE  /\ Taps!Heard(l)' = Taps!Heard(l) \cup {c1'}
             /\ Taps!Heard(l) \in SUBSET Nat /\ \A g \in Taps!Heard(l) : g < c1'
  <2>1. \A g \in c9[l] + 1 .. c1 : g \in Nat /\ g < c1' /\ c7'[g] = c7[g]
    BY <1>0, <1>2 DEF Taps!IInv, Taps!Numbered
  <2>2. c9[l] + 1 .. c1' = (c9[l] + 1 .. c1) \cup {c1'}
    BY <1>0, <1>2
  <2>3. c7'[c1'] # 0
    BY <1>0 DEF Taps!IInv, Taps!Numbered, Taps!Frames
  <2> QED
    BY <1>0, <2>1, <2>2, <2>3 DEF Taps!Heard
<1>4. ASSUME NEW l \in TapsListeners
      PROVE  /\ c8[l].frames \in Seq(Taps!Frames) /\ c8[l].frames \in Seq(Nat)
             /\ c8[l].in \in BOOLEAN /\ Taps!NearLive(c8[l].frames, Taps!Heard(l))
  <2>1. c8[l].frames \in Seq(Taps!Frames) /\ c8[l].in \in BOOLEAN
    BY DEF Taps!IInv, Taps!Waiting
  <2>2. c8[l].frames \in Seq(Nat)
    BY <1>0, <2>1, TapsElements
  <2> QED
    BY <2>1, <2>2 DEF Taps!IInv, Taps!ListenersAreNearLive, Taps!NearLive
<1>5. ASSUME NEW l \in TapsListeners
      PROVE  /\ Taps!Queued(c8[l].frames, c1') \in Seq(Taps!Frames)
             /\ Taps!NearLive(Taps!Queued(c8[l].frames, c1'), Taps!Heard(l)')
  <2> DEFINE q == c8[l].frames
  <2>0. q \in Seq(Taps!Frames) /\ q \in Seq(Nat) /\ Taps!NearLive(q, Taps!Heard(l))
    BY <1>4
  <2>1. CASE Len(q) < TapsQueueSize
    <3>1. Taps!Queued(q, c1') = Append(q, c1')
      BY <2>1 DEF Taps!Queued
    <3>2. Append(q, c1') \in Seq(Taps!Frames)
      BY <1>0, <2>0
    <3> HIDE DEF q
    <3>3. Taps!NearLive(Append(q, c1'), Taps!Heard(l) \cup {c1'})
      BY <1>0, <1>3, <2>0, TapsAppends
    <3> QED
      BY <1>3, <3>1, <3>2, <3>3 DEF q
  <2>2. CASE ~(Len(q) < TapsQueueSize)
    <3>1. Taps!Queued(q, c1') = Append(Tail(q), c1')
      BY <2>2 DEF Taps!Queued
    <3>2. q # << >>
      BY <1>0, <2>0, <2>2
    <3>3. Tail(q) \in Seq(Taps!Frames) /\ Tail(q) \in Seq(Nat)
      BY <2>0, <3>2
    <3>4. Append(Tail(q), c1') \in Seq(Taps!Frames)
      BY <1>0, <3>3
    <3>5. Taps!NearLive(Tail(q), Taps!Heard(l))
      BY <1>3, <2>0, <3>2, TapsTails
    <3> HIDE DEF q
    <3>6. Taps!NearLive(Append(Tail(q), c1'), Taps!Heard(l) \cup {c1'})
      BY <1>0, <1>3, <3>3, <3>5, TapsAppends
    <3> QED
      BY <1>3, <3>1, <3>4, <3>6 DEF q
  <2> QED
    BY <2>1, <2>2
<1>6. ASSUME NEW l \in TapsListeners
      PROVE  /\ c8'[l] = IF c8[l].in
                            THEN [c8[l] EXCEPT !.frames = Taps!Queued(c8[l].frames, c1')]
                            ELSE c8[l]
             /\ ~c8[l].in => c8[l].frames = << >>
  BY DEF Taps!Passes, Taps!Publish, Taps!IInv, Taps!Waiting
<1>7. Taps!Waiting'
  <2>1. \A l \in TapsListeners : c9[l] <= c1'
    BY <1>0, <1>2
  <2>2. ASSUME NEW l \in TapsListeners
        PROVE  c8'[l] \in [in : BOOLEAN, frames : Seq(Taps!Frames)]
    <3>1. c8[l] \in [in : BOOLEAN, frames : Seq(Taps!Frames)]
      BY DEF Taps!IInv, Taps!Waiting
    <3> QED
      BY <1>5, <1>6, <3>1
  <2>3. c8' = [l \in TapsListeners |-> c8'[l]]
    BY DEF Taps!Passes, Taps!Publish
  <2> QED
    <3>1. \A l \in TapsListeners : ~c8'[l].in => c8'[l].frames = << >>
      BY <1>6 DEF Taps!IInv, Taps!Waiting
    <3>2. c8' \in [TapsListeners -> [in : BOOLEAN, frames : Seq(Taps!Frames)]]
      BY <2>2, <2>3
    <3> QED
      BY <1>0, <2>1, <3>1, <3>2 DEF Taps!IInv, Taps!Waiting
<1>8. ASSUME NEW l \in TapsListeners
      PROVE  Taps!NearLive(c8'[l].frames, Taps!Heard(l)')
  <2>1. CASE c8[l].in
    <3>1. c8'[l].frames = Taps!Queued(c8[l].frames, c1')
      BY <1>6, <2>1 DEF Taps!IInv, Taps!Waiting
    <3> QED
      BY <1>5, <3>1
  <2>2. CASE ~c8[l].in
    <3>1. c8'[l].frames = << >>
      BY <1>6, <2>2
    <3> QED
      BY <3>1 DEF Taps!NearLive
  <2> QED
    BY <2>1, <2>2
<1> QED
  BY <1>1, <1>7, <1>8 DEF Taps!ListenersAreNearLive, Taps!NearLive

LEMMA TapsGrows ==
    ASSUME NEW T, NEW s \in Seq(T), NEW e \in T
    PROVE  /\ Append(s, e) \in Seq(T) /\ Append(s, e) # << >>
           /\ Append(s, e)[Len(Append(s, e))] = e
           /\ \E i \in 1 .. Len(Append(s, e)) : Append(s, e)[i] = e
  OBVIOUS

\* What a frame makes of the segments: the open one grows by it, another is
\* begun with it, or a fault costs it.
LEMMA TapsWrites ==
    ASSUME Taps!TapsAssumption, Taps!IInv, Taps!Passes
    PROVE  /\ Taps!EndsNow' /\ c11' \subseteq Seq(Taps!Frames)
           /\ \/ Taps!Segments' = Taps!Segments /\ c12' = c12 \cup {c1'}
              \/ Taps!Segments' = Taps!Segments \cup {<<c1'>>} /\ c12' = c12
              \/ /\ c10.open /\ c12' = c12
                 /\ Taps!Segments' = c11 \cup {Append(c10.frames, c1')}
<1>0. /\ c1' \in Taps!Frames /\ c6' = TRUE /\ c13' = c13 /\ c13 \in Nat
      /\ c11 \subseteq Seq(Taps!Frames)
      /\ c10 \in [open : BOOLEAN, frames : Seq(Taps!Frames), began : Nat]
      /\ c10.open <=> c10.frames # << >>
      /\ Taps!Write(c1')
  BY DEF Taps!Passes, Taps!IInv, Taps!Numbered, Taps!EndsNow, Taps!Filed, Taps!TapsAssumption, Taps!Frames
<1>1. Taps!Kept(c10) \subseteq Seq(Taps!Frames) /\ Taps!Segments = c11 \cup Taps!Kept(c10)
  BY <1>0 DEF Taps!Kept, Taps!Segments
<1>4. \A s \in Taps!Segments : s # << >> /\ ~\E i \in 1 .. Len(s) : s[i] = c1'
  <2>1. \A s \in Taps!Segments : s # << >> /\ \A i \in 1 .. Len(s) : s[i] <= c1
    BY DEF Taps!IInv, Taps!Filed
  <2>2. ~(c1' <= c1)
    BY DEF Taps!Passes, Taps!IInv, Taps!Numbered
  <2> QED
    BY <2>1, <2>2
<1>5. ASSUME NEW s \in Seq(Taps!Frames)
      PROVE  \E i \in 1 .. Len(Append(s, c1')) : Append(s, c1')[i] = c1'
  <2>1. c1' \in Taps!Frames
    BY <1>0
  <2> QED
    BY <2>1, TapsGrows
<1>2. CASE c10' = Taps!Closed /\ c11' = c11 \cup Taps!Kept(c10) /\ c12' = c12 \cup {c1'}
  <2>1. Taps!Kept(c10') = {}
    BY <1>2 DEF Taps!Kept, Taps!Closed
  <2> QED
    BY <1>0, <1>1, <1>2, <1>4, <2>1 DEF Taps!Closed, Taps!Segments, Taps!EndsNow
<1>3. CASE /\ c10' = [Taps!Opened EXCEPT !.frames = Append(@, c1')]
           /\ c11' = IF Taps!RollsOver THEN c11 \cup Taps!Kept(c10) ELSE c11
           /\ c12' = c12
  <2>1. CASE Taps!RollsOver \/ ~c10.open
    <3>1. c10' = [open |-> TRUE, frames |-> Append(<< >>, c1'), began |-> c13]
      BY <1>3, <2>1 DEF Taps!Opened
    <3>2. Append(<< >>, c1') = <<c1'>>
      OBVIOUS
    <3>3. Taps!Kept(c10') = {<<c1'>>}
      BY <3>1, <3>2 DEF Taps!Kept
    <3>4. c11' = c11 \cup Taps!Kept(c10)
      BY <1>0, <1>3, <2>1 DEF Taps!Kept
    <3>5. <<c1'>> \in Seq(Taps!Frames) /\ Len(<<c1'>>) = 1 /\ <<c1'>>[1] = c1'
      BY <1>0
    <3>7. <<c1'>> \notin c11'
      <4>1. \E i \in 1 .. Len(<<c1'>>) : <<c1'>>[i] = c1'
        BY <3>5
      <4> QED
        BY <1>1, <1>4, <3>4, <4>1
    <3>6. Taps!EndsNow'
      BY <1>0, <3>1, <3>2, <3>5, <3>7 DEF Taps!EndsNow
    <3> QED
      BY <1>0, <1>1, <1>3, <3>3, <3>4, <3>6 DEF Taps!Segments
  <2>2. CASE ~Taps!RollsOver /\ c10.open
    <3>1. c10' = [c10 EXCEPT !.frames = Append(c10.frames, c1')]
      BY <1>3, <2>2 DEF Taps!Opened
    <3>2. /\ Append(c10.frames, c1') \in Seq(Taps!Frames)
          /\ Append(c10.frames, c1') # << >>
          /\ Append(c10.frames, c1')[Len(Append(c10.frames, c1'))] = c1'
      <4>1. c10.frames \in Seq(Taps!Frames)
        BY <1>0
      <4> QED
        BY <1>0, <4>1, TapsGrows
    <3>n. c11' = c11 /\ Append(c10.frames, c1') \notin c11
      <4>1. c11' = c11
        BY <1>3, <2>2
      <4>2. c10.frames \in Seq(Taps!Frames) /\ c11 \subseteq Taps!Segments
        BY <1>0, <1>1
      <4> QED
        BY <1>4, <1>5, <4>1, <4>2
    <3>3. /\ c10'.frames = Append(c10.frames, c1') /\ c10'.open
          /\ c10' \in [open : BOOLEAN, frames : Seq(Taps!Frames), began : Nat]
      BY <1>0, <2>2, <3>1, <3>2
    <3>4. Taps!Kept(c10') = {Append(c10.frames, c1')}
      BY <3>2, <3>3 DEF Taps!Kept
    <3>5. Taps!EndsNow'
      BY <1>0, <3>2, <3>3, <3>n DEF Taps!EndsNow
    <3> QED
      BY <1>0, <1>3, <2>2, <3>4, <3>5 DEF Taps!Segments
  <2> QED
    BY <2>1, <2>2
<1> QED
  BY <1>0, <1>2, <1>3 DEF Taps!Write, Taps!Fault

LEMMA TapsPasses ==
    ASSUME Taps!TapsAssumption, Taps!IInv, Taps!Passes
    PROVE  Taps!Filed' /\ Taps!SegmentsAreOvers' /\ Taps!NothingElseIsLost'
<1>0. /\ c1 \in Nat /\ TapsMaxFrames \in Nat /\ c1' = c1 + 1 /\ c1' \in Taps!Frames
      /\ c7' = [c7 EXCEPT ![c1'] = c5'] /\ c5' # 0
      /\ Taps!Frames \subseteq Nat /\ c7'[c1'] = c5'
  BY DEF Taps!Passes, Taps!IInv, Taps!Numbered, Taps!TapsAssumption, Taps!Frames
<1>1. \A g \in 1 .. TapsMaxFrames : g # c1' => c7'[g] = c7[g]
  BY <1>0 DEF Taps!IInv, Taps!Numbered
<1>2. ASSUME NEW s \in Taps!Segments
      PROVE  /\ s \in Seq(Taps!Frames) /\ s # << >> /\ Len(s) \in Nat /\ 1 \in 1 .. Len(s)
             /\ \A i \in 1 .. Len(s) : /\ s[i] \in Taps!Frames /\ s[i] <= c1
                                       /\ c7'[s[i]] = c7[s[i]] /\ c7[s[i]] # 0
             /\ \A i \in 1 .. Len(s) : c7[s[i]] = c7[s[1]]
             /\ \A i \in 2 .. Len(s) : s[i] = s[i - 1] + 1
  <2>1. s \in Seq(Taps!Frames)
    BY DEF Taps!IInv, Taps!Filed, Taps!EndsNow, Taps!Segments, Taps!Kept
  <2>2. s # << >> /\ \A i \in 1 .. Len(s) : s[i] <= c1 /\ c7[s[i]] # 0
    BY DEF Taps!IInv, Taps!Filed
  <2>3. \A i \in 1 .. Len(s) : s[i] \in Taps!Frames
    BY <2>1, TapsElements
  <2>4. \A g \in Taps!Frames : g <= c1 => g # c1' /\ g \in 1 .. TapsMaxFrames
    BY <1>0 DEF Taps!Frames
  <2>5. Len(s) \in Nat /\ 1 \in 1 .. Len(s)
    BY <2>1, <2>2
  <2> QED
    BY <1>1, <2>1, <2>2, <2>3, <2>4, <2>5 DEF Taps!IInv, Taps!SegmentsAreOvers
<1>3. \A s, t \in Taps!Segments : s # t => \A i \in 1..Len(s), j \in 1..Len(t) : s[i] # t[j]
  BY DEF Taps!IInv, Taps!SegmentsAreOvers
<1>4. \A s \in Taps!Segments : \A i \in 1 .. Len(s) : s[i] \in Nat /\ s[i] # c1'
  <2>1. \A g \in Taps!Frames : g <= c1 => g \in Nat /\ g # c1'
    BY <1>0
  <2> QED
    BY <1>2, <2>1
<1>5. \A f \in 1 .. c1' : f = c1' \/ (f \in 1 .. c1 /\ f \in 1 .. TapsMaxFrames /\ c7'[f] = c7[f])
  BY <1>0, <1>1 DEF Taps!Frames
<1>6. \A f \in 1 .. c1 : c7[f] # 0 => f \in c12 \/ \E s \in Taps!Segments : \E i \in 1 .. Len(s) : s[i] = f
  BY DEF Taps!IInv, Taps!NothingElseIsLost
<1> DEFINE New == <<c1'>>
<1>7. Len(New) = 1 /\ New[1] = c1' /\ New # << >>
  OBVIOUS
<1>8. \A n \in Nat : n <= c1 => n <= c1'
  BY <1>0
<1>9. \A s \in Taps!Segments : \A i \in 1 .. Len(s) : s[i] <= c1'
  BY <1>2, <1>4, <1>8
<1>10. CASE Taps!Segments' = Taps!Segments /\ c12' = c12 \cup {c1'}
  <2>1. Taps!NothingElseIsLost'
    BY <1>5, <1>6, <1>10 DEF Taps!NothingElseIsLost
  <2>2. Taps!SegmentsAreOvers'
    BY <1>2, <1>3, <1>10 DEF Taps!SegmentsAreOvers
  <2>3. Taps!Filed'
    BY <1>2, <1>9, <1>10, TapsWrites DEF Taps!Filed
  <2> QED
    BY <2>1, <2>2, <2>3
<1> HIDE DEF New
<1>11. CASE Taps!Segments' = Taps!Segments \cup {New} /\ c12' = c12
  <2>1. Taps!NothingElseIsLost'
    <3>1. \E i \in 1 .. Len(New) : New[i] = c1'
      BY <1>7
    <3> QED
      BY <1>5, <1>6, <1>11, <3>1 DEF Taps!NothingElseIsLost
  <2>2. Taps!SegmentsAreOvers'
    <3>1. \A i \in 1 .. Len(New) : i = 1
      BY <1>7
    <3>2. ASSUME NEW s \in Taps!Segments'
          PROVE  /\ \A i \in 1 .. Len(s) : c7'[s[i]] = c7'[s[1]]
                 /\ \A i \in 2 .. Len(s) : s[i] = s[i - 1] + 1
      <4>1. CASE s = New
        <5>1. \A i \in 1 .. Len(s) : c7'[s[i]] = c7'[s[1]]
          BY <3>1, <4>1
        <5>2. 2 .. Len(s) = {}
          <6>1. Len(s) = 1 /\ \A k \in 2 .. 1 : FALSE
            BY <1>7, <4>1
          <6> QED
            BY <6>1
        <5> QED
          BY <5>1, <5>2
      <4>2. CASE s \in Taps!Segments
        BY <1>2, <4>2
      <4> QED
        BY <1>11, <4>1, <4>2
    <3>3. ASSUME NEW s \in Taps!Segments', NEW t \in Taps!Segments', s # t,
                 NEW i \in 1 .. Len(s), NEW j \in 1 .. Len(t)
          PROVE  s[i] # t[j]
      <4>1. CASE s \in Taps!Segments /\ t \in Taps!Segments
        BY <1>3, <3>3, <4>1
      <4>2. CASE s = New \/ t = New
        BY <1>4, <1>7, <1>11, <3>1, <3>3, <4>2
      <4> QED
        BY <1>11, <4>1, <4>2
    <3> QED
      BY <3>2, <3>3 DEF Taps!SegmentsAreOvers
  <2>3. Taps!Filed'
    <3>1. \A i \in 1 .. Len(New) : New[i] = c1'
      BY <1>7
    <3>2. c1' <= c1'
      BY <1>0
    <3> QED
      BY <1>0, <1>2, <1>7, <1>9, <1>11, <3>1, <3>2, TapsWrites DEF Taps!Filed
  <2> QED
    BY <2>1, <2>2, <2>3
<1>12. CASE /\ c10.open /\ c12' = c12
            /\ Taps!Segments' = c11 \cup {Append(c10.frames, c1')}
  <2> DEFINE old == c10.frames
             grown == Append(old, c1')
  <2>1. /\ old \in Taps!Segments /\ Taps!Segments = c11 \cup {old} /\ old # << >> /\ old \in Seq(Taps!Frames)
        /\ old[Len(old)] = c1 /\ c6
    BY <1>12 DEF Taps!Segments, Taps!Kept, Taps!IInv, Taps!EndsNow
  <2>2. /\ Len(grown) = Len(old) + 1 /\ Len(old) \in Nat /\ grown[Len(old) + 1] = c1'
        /\ \A i \in 1 .. Len(old) : grown[i] = old[i]
        /\ Len(old) \in 1 .. Len(old) /\ 1 \in 1 .. Len(old)
    BY <1>0, <2>1
  <2> HIDE DEF grown, old
  <2>3. \A i \in 1 .. Len(grown) : i = Len(old) + 1 \/ i \in 1 .. Len(old)
    BY <2>2
  <2>4. c7'[c1'] = c7[old[1]]
    <3>1. c7[old[1]] = c5
      BY <1>2, <2>1, <2>2 DEF Taps!IInv, Taps!Numbered
    <3>2. c5' = c5
      BY <2>1 DEF Taps!Passes
    <3> QED
      BY <1>0, <3>1, <3>2
  <2>5. c7'[old[1]] = c7[old[1]] /\ grown[1] = old[1]
    BY <1>2, <2>1, <2>2
  <2>6. Taps!NothingElseIsLost'
    <3>1. \E i \in 1 .. Len(grown) : grown[i] = c1'
      BY <2>2
    <3>2. \A i \in 1 .. Len(old) : i \in 1 .. Len(grown) /\ grown[i] = old[i]
      BY <2>2
    <3>3. Taps!Segments' = c11 \cup {grown}
      BY <1>12 DEF grown, old
    <3>4. ASSUME NEW f \in 1 .. c1, c7[f] # 0, f \notin c12
          PROVE  \E s \in Taps!Segments' : \E i \in 1 .. Len(s) : s[i] = f
      <4>1. PICK s \in Taps!Segments : \E i \in 1 .. Len(s) : s[i] = f
        BY <1>6, <3>4
      <4> QED
        BY <2>1, <3>2, <3>3, <4>1
    <3> QED
      BY <1>5, <1>12, <3>1, <3>3, <3>4 DEF Taps!NothingElseIsLost
  <2>7. ASSUME NEW i \in 1 .. Len(grown)
        PROVE  c7'[grown[i]] = c7'[grown[1]]
    BY <1>2, <2>1, <2>2, <2>3, <2>4, <2>5
  <2>8. ASSUME NEW i \in 2 .. Len(grown)
        PROVE  grown[i] = grown[i - 1] + 1
    <3>1. CASE i = Len(old) + 1
      BY <1>0, <2>1, <2>2, <3>1
    <3>2. CASE i \in 2 .. Len(old)
      <4>1. i \in 1 .. Len(old) /\ i - 1 \in 1 .. Len(old)
        BY <2>2, <3>2
      <4> QED
        BY <1>2, <2>1, <2>2, <3>2, <4>1
    <3> QED
      BY <2>2, <3>1, <3>2
  <2>9. ASSUME NEW t \in c11, NEW j \in 1 .. Len(t), NEW i \in 1 .. Len(grown)
        PROVE  grown[i] # t[j]
    <3>1. t \in Taps!Segments /\ t # old
      BY <2>1 DEF Taps!IInv, Taps!EndsNow, old
    <3>2. CASE i = Len(old) + 1
      BY <1>4, <2>2, <3>1, <3>2
    <3>3. CASE i \in 1 .. Len(old)
      BY <1>3, <2>1, <2>2, <3>1, <3>3
    <3> QED
      BY <2>3, <3>2, <3>3
  <2>a. Taps!Segments' = c11 \cup {grown}
    BY <1>12 DEF grown, old
  <2>10. Taps!SegmentsAreOvers'
    <3>1. ASSUME NEW s \in Taps!Segments'
          PROVE  /\ \A i \in 1 .. Len(s) : c7'[s[i]] = c7'[s[1]]
                 /\ \A i \in 2 .. Len(s) : s[i] = s[i - 1] + 1
      <4>1. CASE s = grown
        BY <2>7, <2>8, <4>1
      <4>2. CASE s \in c11
        <5>1. s \in Taps!Segments
          BY <2>1, <4>2
        <5> QED
          BY <1>2, <5>1
      <4> QED
        BY <2>a, <4>1, <4>2
    <3>2. ASSUME NEW s \in Taps!Segments', NEW t \in Taps!Segments', s # t,
                 NEW i \in 1 .. Len(s), NEW j \in 1 .. Len(t)
          PROVE  s[i] # t[j]
      <4>1. CASE s \in c11 /\ t \in c11
        BY <1>3, <2>1, <3>2, <4>1
      <4>2. CASE s = grown /\ t \in c11
        BY <2>9, <4>2
      <4>3. CASE t = grown /\ s \in c11
        BY <2>9, <4>3
      <4> QED
        BY <2>a, <3>2, <4>1, <4>2, <4>3
    <3> QED
      BY <3>1, <3>2 DEF Taps!SegmentsAreOvers
  <2>11. Taps!Filed'
    <3>1. grown # << >>
      BY <2>2
    <3>2. \A i \in 1 .. Len(grown) : grown[i] <= c1' /\ c7'[grown[i]] # 0
      <4>1. c1' <= c1'
        BY <1>0
      <4>2. \A i \in 1 .. Len(grown) : c7'[grown[i]] # 0
        BY <1>2, <2>1, <2>2, <2>5, <2>7
      <4> QED
        BY <1>9, <2>1, <2>2, <2>3, <4>1, <4>2
    <3>3. ASSUME NEW s \in c11
          PROVE  s # << >> /\ \A i \in 1 .. Len(s) : s[i] <= c1' /\ c7'[s[i]] # 0
      BY <1>2, <1>9, <2>1
    <3> QED
      BY <2>a, <3>1, <3>2, <3>3, TapsWrites DEF Taps!Filed
  <2> QED
    BY <2>6, <2>10, <2>11
<1> QED
  BY <1>10, <1>11, <1>12, TapsWrites DEF New

\* Every listener has the latest of what passed since it came, every segment is
\* one continuous receive, every frame that passed is in one but for what a
\* disk has cost, and no segment grows past the cap.
THEOREM FramesAreTapped ==
    ASSUME Taps!TapsAssumption
    PROVE  Taps!Spec => /\ [](Taps!ListenersAreNearLive /\ Taps!SegmentsAreOvers /\ Taps!NothingElseIsLost)
                   /\ Taps!SegmentsAreCapped
<1>1. Taps!Init => Taps!IInv
  <2> SUFFICES ASSUME Taps!Init
               PROVE  Taps!IInv
    OBVIOUS
  <2> USE DEF Taps!Init
  <2>0. << >> \in Seq(Taps!Frames) /\ 0 \in Nat
    OBVIOUS
  <2>1. Taps!Numbered
    <3>1. 0 \in 0 .. TapsMaxFrames /\ 0 \in Nat
      BY DEF Taps!TapsAssumption
    <3>2. c7 \in [1..TapsMaxFrames -> Nat] /\ \A f \in 1 .. TapsMaxFrames : c7[f] = 0
      BY <3>1
    <3> QED
      BY <3>1, <3>2 DEF Taps!Numbered
  <2>2. Taps!Waiting
    BY <2>0 DEF Taps!Waiting
  <2>3. Taps!EndsNow
    BY <2>0 DEF Taps!EndsNow, Taps!Closed
  <2>4. Taps!Segments = {}
    BY DEF Taps!Segments, Taps!Kept, Taps!Closed
  <2>5. Taps!Filed /\ Taps!SegmentsAreOvers /\ Taps!NothingElseIsLost
    BY <2>4 DEF Taps!Filed, Taps!SegmentsAreOvers, Taps!NothingElseIsLost
  <2>6. Taps!ListenersAreNearLive
    <3>1. ASSUME NEW l \in TapsListeners
          PROVE  Taps!NearLive(c8[l].frames, Taps!Heard(l))
      <4>1. c8[l].frames = << >>
        OBVIOUS
      <4> HIDE DEF Taps!Init
      <4>2. \A heard : Taps!NearLive(<< >>, heard)
        BY DEF Taps!NearLive
      <4> QED
        BY <4>1, <4>2
    <3> HIDE DEF Taps!Init
    <3> QED
      BY <3>1 DEF Taps!ListenersAreNearLive
  <2> QED
    BY <2>1, <2>2, <2>3, <2>5, <2>6 DEF Taps!IInv
<1>2. Taps!IInv /\ [Taps!Next]_(Taps!vars) => Taps!IInv'
  <2> SUFFICES ASSUME Taps!IInv, [Taps!Next]_(Taps!vars)
               PROVE  Taps!IInv'
    OBVIOUS
  <2>1. CASE Taps!Passes
    BY <2>1, TapsHeardByAll, TapsWrites, TapsPasses DEF Taps!IInv
  <2>2. CASE UNCHANGED Taps!vars
    BY <2>2 DEF Taps!vars, Taps!IInv, Taps!Numbered, Taps!Waiting, Taps!EndsNow, Taps!Filed, Taps!ListenersAreNearLive, Taps!NearLive,
                Taps!SegmentsAreOvers, Taps!NothingElseIsLost, Taps!Segments, Taps!Heard
  <2> QED
    BY <2>1, <2>2, TapsBetweenFrames, TapsStopped, TapsListens DEF Taps!Next
<1>3. Taps!IInv /\ [Taps!Next]_(Taps!vars) => [Taps!GrowsBelowTheCap]_(Taps!vars)
  <2> SUFFICES ASSUME Taps!IInv, [Taps!Next]_(Taps!vars), c10.open, c10'.open,
                      Len(c10'.frames) > Len(c10.frames)
               PROVE  c13 - c10.began < TapsMaxSeconds
    BY DEF Taps!GrowsBelowTheCap
  <2>1. c10.frames \in Seq(Taps!Frames) /\ c10.began \in Nat /\ c13 \in Nat /\ TapsMaxSeconds \in Nat
    BY DEF Taps!IInv, Taps!EndsNow, Taps!TapsAssumption
  <2>2. c10' # c10
    BY <2>1
  <2>3. CASE Taps!Passes
    <3> SUFFICES ASSUME Taps!RollsOver
                 PROVE  FALSE
      BY <2>1 DEF Taps!RollsOver
    <3>1. c10'.frames = Append(<< >>, c1')
      BY <2>3 DEF Taps!Passes, Taps!Write, Taps!Opened, Taps!Closed
    <3>2. Len(c10'.frames) = 1
      BY <3>1
    <3>3. Len(c10.frames) >= 1
      BY <2>1 DEF Taps!IInv, Taps!EndsNow
    <3> QED
      BY <3>2, <3>3, <2>1
  <2>4. CASE Taps!StandsDown \/ Taps!PumpStops \/ Taps!Stopped
    BY <2>4, TapsEnds DEF Taps!StandsDown, Taps!PumpStops, Taps!Stopped
  <2> QED
    BY <2>2, <2>3, <2>4 DEF Taps!Next, Taps!vars, Taps!Read, Taps!TxBegins, Taps!TxEnds, Taps!Tick, Taps!Subscribe, Taps!Unsubscribe, Taps!Take
<1> QED
  BY <1>1, <1>2, <1>3, PTL DEF Taps!Spec, Taps!SegmentsAreCapped, Taps!IInv

-----------------------------------------------------------------------------
(* FmCadence: the mutes for a broadcast receiver. *)

CONSTANTS
    FmBridges, FmRoutes, FmPollers, FmMaxFaults, FmLateAnswers

Fm == INSTANCE FmCadence WITH
    Bridges <- FmBridges, Routes <- FmRoutes, Pollers <- FmPollers,
    MaxFaults <- FmMaxFaults, LateAnswers <- FmLateAnswers,
    fm <- c1, fallback <- c2, reading <- c3, assumed <- c4, using <- c5,
    thread <- c6, current <- c7, route <- c8, keyed <- c9, asked <- c10,
    faults <- c11

LEMMA FmCountAlike == \A S : Fm!Cardinality(S) = Cardinality(S)
  BY DEF Fm!Cardinality, Cardinality

\* The one route holds the mute once or not at all.
LEMMA FmHolds ==
    ASSUME NEW S \in SUBSET FmRoutes, \A r, s \in FmRoutes : r = s
    PROVE  Cardinality(S) = IF S = {} THEN 0 ELSE 1
<1>1. CASE S = {}
  BY <1>1, FS_EmptySet, FmCountAlike
<1>2. CASE S # {}
  <2>1. PICK r \in S : S = {r}
    BY <1>2
  <2> QED
    BY <1>2, <2>1, FS_Singleton, FmCountAlike
<1> QED
  BY <1>1, <1>2

\* What starting and stopping bridges make of the cadence.
LEMMA FmLives ==
    ASSUME Fm!NoPoller \notin FmPollers, Fm!IInv, NEW b \in FmBridges, Fm!Starts(b) \/ Fm!Stops(b)
    PROVE  Fm!IInv'
<1>0. /\ c1' = c1 /\ c2' = c2 /\ c3' = c3 /\ c8' = c8 /\ c10' = c10
      /\ c4' = c4 /\ Fm!Holding' = Fm!Holding
      /\ Fm!Typed /\ Fm!InTurn /\ Fm!AskedStands /\ Fm!OneCadence
  BY DEF Fm!IInv, Fm!Starts, Fm!Stops, Fm!Holding
<1>1. CASE Fm!Starts(b) /\ c7 = Fm!NoPoller
  <2>1. PICK p \in FmPollers : /\ ~c6[p].on /\ c7' = p
                             /\ c6' = [c6 EXCEPT ![p] = [Fm!Off EXCEPT !.on = TRUE]]
    BY <1>1 DEF Fm!Starts
  <2>2. c6'[p] = [on |-> TRUE, stop |-> FALSE, pc |-> "wait", answer |-> "unknown"]
    BY <1>0, <2>1 DEF Fm!Typed, Fm!Off
  <2>3. \A q \in FmPollers \ {p} : c6'[q] = c6[q]
    BY <1>0, <2>1 DEF Fm!Typed
  <2>4. Fm!Typed'
    BY <1>0, <2>1, <2>2 DEF Fm!Typed, Fm!Off, Fm!Told
  <2>5. c5' # {} /\ c5 = {}
    BY <1>0, <1>1, FmCountAlike DEF Fm!Starts, Fm!OneCadence
  <2>6. Fm!OneCadence'
    BY <1>0, <1>1, <2>1, <2>2, <2>3, <2>5, FmCountAlike DEF Fm!OneCadence
  <2>7. Fm!InTurn' /\ Fm!AskedStands'
    BY <1>0, <2>2, <2>3 DEF Fm!InTurn, Fm!AskedStands
  <2> QED
    BY <2>4, <2>6, <2>7 DEF Fm!IInv
<1>2. CASE Fm!Stops(b) /\ c5 = {b} /\ c7 # Fm!NoPoller
  <2>1. c6' = [c6 EXCEPT ![c7].stop = TRUE] /\ c7' = Fm!NoPoller /\ c5' = {}
    BY <1>2 DEF Fm!Stops
  <2>2. \A q \in FmPollers :
           /\ c6'[q].on = c6[q].on /\ c6'[q].pc = c6[q].pc
           /\ c6'[q].answer = c6[q].answer
           /\ q # c7 => c6'[q].stop = c6[q].stop
           /\ q = c7 => c6'[q].stop
    BY <1>0, <2>1 DEF Fm!Typed
  <2>3. Fm!Typed'
    BY <1>0, <2>1 DEF Fm!Typed
  <2>4. Fm!OneCadence'
    BY <1>0, <2>1, <2>2, FmCountAlike DEF Fm!OneCadence
  <2>5. Fm!InTurn' /\ Fm!AskedStands'
    BY <1>0, <2>2 DEF Fm!InTurn, Fm!AskedStands
  <2> QED
    BY <2>3, <2>4, <2>5 DEF Fm!IInv
<1>3. CASE c6' = c6 /\ c7' = c7 /\ ((c5 # {}) = (c5' # {}))
  BY <1>0, <1>3, FmCountAlike DEF Fm!IInv, Fm!Typed, Fm!InTurn, Fm!AskedStands, Fm!OneCadence
<1>4. CASE Fm!Stops(b) /\ c7 = Fm!NoPoller
  BY <1>0, <1>4, FmCountAlike DEF Fm!Stops, Fm!OneCadence
<1>5. CASE Fm!Starts(b) /\ c7 # Fm!NoPoller
  <2>1. c6' = c6 /\ c7' = c7 /\ c5 # {} /\ c5' # {}
    BY <1>0, <1>5, FmCountAlike DEF Fm!Starts, Fm!OneCadence
  <2> QED
    BY <1>3, <2>1
<1>6. CASE Fm!Stops(b) /\ c5 # {b}
  <2>1. c6' = c6 /\ c7' = c7 /\ c5 # {} /\ c5' # {}
    BY <1>6 DEF Fm!Stops
  <2> QED
    BY <1>3, <2>1
<1> QED
  BY <1>1, <1>2, <1>4, <1>5, <1>6

\* A thread that leaves, probes or records.
LEMMA FmPolls ==
    ASSUME Fm!NoPoller \notin FmPollers, ~FmLateAnswers, Fm!IInv, NEW p \in FmPollers, Fm!Polls(p) \/ Fm!Records(p)
    PROVE  Fm!IInv'
<1>0. /\ c1' = c1 /\ c2' = c2 /\ c8' = c8 /\ c10' = c10 /\ c5' = c5
      /\ c4' = c4 /\ Fm!Holding' = Fm!Holding /\ c7' = c7
      /\ Fm!Typed /\ Fm!InTurn /\ Fm!AskedStands /\ Fm!OneCadence
  BY DEF Fm!IInv, Fm!Polls, Fm!Records, Fm!Holding
<1>1. CASE Fm!Polls(p) /\ c6[p].stop
  <2>1. c6' = [c6 EXCEPT ![p] = Fm!Off] /\ c3' = c3
    BY <1>1 DEF Fm!Polls
  <2>2. c6'[p] = [on |-> FALSE, stop |-> FALSE, pc |-> "wait", answer |-> "unknown"]
    BY <1>0, <2>1 DEF Fm!Typed, Fm!Off
  <2>3. \A q \in FmPollers \ {p} : c6'[q] = c6[q]
    BY <1>0, <2>1 DEF Fm!Typed
  <2>4. Fm!Typed'
    BY <1>0, <2>1 DEF Fm!Typed, Fm!Off, Fm!Told
  <2>5. Fm!OneCadence'
    BY <1>0, <1>1, <2>2, <2>3, FmCountAlike DEF Fm!OneCadence
  <2>6. Fm!InTurn' /\ Fm!AskedStands'
    BY <1>0, <2>1, <2>2, <2>3 DEF Fm!InTurn, Fm!AskedStands
  <2> QED
    BY <2>4, <2>5, <2>6 DEF Fm!IInv
<1>2. CASE Fm!Polls(p) /\ ~c6[p].stop
  <2>1. PICK a \in {Fm!Says(c1), "unknown"} :
            c6' = [c6 EXCEPT ![p].pc = "record", ![p].answer = a]
    BY <1>2 DEF Fm!Polls
  <2>2. c3' = c3 /\ \A r \in FmRoutes : c8[r] = "idle"
    BY <1>2 DEF Fm!Polls
  <2>3. a \in Fm!Told /\ (c1 => a # "off")
    BY <1>0, <2>1 DEF Fm!Typed, Fm!Says, Fm!Told
  <2>4. /\ \A q \in FmPollers : c6'[q].on = c6[q].on /\ c6'[q].stop = c6[q].stop
        /\ \A q \in FmPollers \ {p} : c6'[q] = c6[q]
        /\ c6'[p].pc = "record" /\ c6'[p].answer = a
    BY <1>0, <2>1 DEF Fm!Typed
  <2>5. Fm!Typed'
    BY ZenonT(40), <1>0, <2>1, <2>2, <2>3 DEF Fm!Typed
  <2>6. Fm!OneCadence'
    BY <1>0, <2>4, FmCountAlike DEF Fm!OneCadence
  <2>7. Fm!InTurn' /\ Fm!AskedStands'
    BY <1>0, <2>2, <2>3, <2>4 DEF Fm!InTurn, Fm!AskedStands
  <2> QED
    BY <2>5, <2>6, <2>7 DEF Fm!IInv
<1>3. CASE Fm!Records(p)
  <2>1. /\ c6' = [c6 EXCEPT ![p].pc = "wait", ![p].answer = "unknown"]
        /\ c3' = IF c6[p].answer = "unknown" THEN c3 ELSE c6[p].answer
        /\ c6[p].pc = "record"
    BY <1>3 DEF Fm!Records
  <2>2. /\ \A q \in FmPollers : c6'[q].on = c6[q].on /\ c6'[q].stop = c6[q].stop
        /\ \A q \in FmPollers \ {p} : c6'[q] = c6[q]
        /\ c6'[p].pc = "wait"
    BY <1>0, <2>1 DEF Fm!Typed
  <2>3. Fm!Typed'
    <3>1. c6[p].answer \in Fm!Told
      BY <1>0 DEF Fm!Typed
    <3>2. c3' \in Fm!Told
      BY <1>0, <2>1, <3>1 DEF Fm!Typed
    <3>3. c6' \in [FmPollers -> [on : BOOLEAN, stop : BOOLEAN, pc : {"wait", "record"}, answer : Fm!Told]]
      <4>1. "unknown" \in Fm!Told
        BY DEF Fm!Told
      <4> QED
        BY ZenonT(40), <1>0, <2>1, <4>1 DEF Fm!Typed
    <3>4. /\ c1' \in BOOLEAN /\ c2' \in Fm!Told /\ c7' \in FmPollers \cup {Fm!NoPoller}
          /\ c8' \in [FmRoutes -> {"idle", "on", "observe", "observe_off", "release"}]
      BY <1>0, <1>3 DEF Fm!Records, Fm!Typed
    <3> QED
      BY <3>2, <3>3, <3>4 DEF Fm!Typed
  <2>4. Fm!OneCadence'
    BY <1>0, <2>2, FmCountAlike DEF Fm!OneCadence
  <2>5. Fm!InTurn'
    BY <1>0, <2>2 DEF Fm!InTurn
  <2>6. Fm!AskedStands'
    <3>1. \A r \in FmRoutes : c8[r] = "idle"
      BY <1>0, <2>1 DEF Fm!InTurn
    <3>2. c10 => c1 /\ c3 = "on" /\ c6[p].answer # "off"
      BY <1>0, <2>1, <3>1 DEF Fm!AskedStands
    <3>3. c6[p].answer \in Fm!Told
      BY <1>0 DEF Fm!Typed
    <3>4. c10 => c3' = "on"
      BY <2>1, <3>2, <3>3 DEF Fm!Told
    <3> QED
      BY <1>0, <2>2, <3>2, <3>4 DEF Fm!AskedStands
  <2> QED
    BY <2>3, <2>4, <2>5, <2>6 DEF Fm!IInv
<1> QED
  BY <1>1, <1>2, <1>3

\* A request's step: what it does to the hold and to what was measured.
LEMMA FmServes ==
    ASSUME ~FmLateAnswers, \A r, s \in FmRoutes : r = s, Fm!IInv, NEW r \in FmRoutes,
           Fm!AsksOn(r) \/ Fm!SwitchesOn(r) \/ Fm!Observes(r) \/ Fm!Releases(r) \/ Fm!SwitchesOff(r)
    PROVE  Fm!IInv'
<1> DEFINE holds(x) == x \in {"on", "observe", "release"}
<1>0. /\ c6' = c6 /\ c7' = c7 /\ c5' = c5
      /\ Fm!Typed /\ Fm!InTurn /\ Fm!AskedStands /\ Fm!OneCadence /\ FmRoutes = {r}
  BY DEF Fm!IInv, Fm!AsksOn, Fm!SwitchesOn, Fm!Observes, Fm!Releases, Fm!SwitchesOff
<1>1. \A p \in FmPollers : c6[p].pc = "wait"
  BY <1>0 DEF Fm!Typed, Fm!InTurn, Fm!AsksOn, Fm!SwitchesOn, Fm!Observes, Fm!Releases, Fm!SwitchesOff, Fm!Free
<1>2. PICK x \in {"idle", "on", "observe", "observe_off", "release"} :
          c8' = [c8 EXCEPT ![r] = x]
  BY <1>0 DEF Fm!Typed, Fm!AsksOn, Fm!SwitchesOn, Fm!Observes, Fm!Releases, Fm!SwitchesOff
<1>3. c8'[r] = x /\ c8' \in [FmRoutes -> {"idle", "on", "observe", "observe_off", "release"}]
  BY <1>0, <1>2 DEF Fm!Typed
<1>4. Fm!Holding = (IF holds(c8[r]) THEN {r} ELSE {}) /\ Fm!Holding' = (IF holds(x) THEN {r} ELSE {})
  BY <1>0, <1>3 DEF Fm!Holding
<1>5. c4 = (IF holds(c8[r]) THEN 1 ELSE 0)
      /\ Cardinality(Fm!Holding') = (IF holds(x) THEN 1 ELSE 0)
  BY <1>0, <1>4, FmHolds, FmCountAlike DEF Fm!OneCadence, Fm!Holding
<1>6. c4' = (IF holds(x) THEN 1 ELSE 0)
  <2>1. CASE Fm!AsksOn(r)
    BY <1>3, <1>5, <2>1 DEF Fm!AsksOn, Fm!Free
  <2>2. CASE Fm!SwitchesOn(r)
    BY <1>0, <1>3, <1>5, <2>2 DEF Fm!SwitchesOn, Fm!Typed
  <2>3. CASE Fm!Observes(r)
    BY <1>0, <1>3, <1>5, <2>3 DEF Fm!Observes, Fm!Typed
  <2>4. CASE Fm!Releases(r)
    BY <1>0, <1>3, <1>5, <2>4 DEF Fm!Releases, Fm!Typed
  <2>5. CASE Fm!SwitchesOff(r)
    BY <1>0, <1>3, <1>5, <2>5 DEF Fm!SwitchesOff, Fm!Typed, Fm!Free
  <2> QED
    BY <2>1, <2>2, <2>3, <2>4, <2>5
<1>7. Fm!OneCadence'
  BY <1>0, <1>5, <1>6, FmCountAlike DEF Fm!OneCadence
<1>8. c1' \in BOOLEAN /\ c2' \in Fm!Told /\ c3' \in Fm!Told
  BY <1>0 DEF Fm!Typed, Fm!Told, Fm!AsksOn, Fm!SwitchesOn, Fm!Observes, Fm!Releases, Fm!SwitchesOff
<1>9. Fm!Typed' /\ Fm!InTurn'
  BY <1>0, <1>1, <1>3, <1>8 DEF Fm!Typed, Fm!InTurn
<1>10. c10' => /\ c1' /\ (c3' = "on" \/ x = "observe")
                  /\ x # "observe_off" /\ (x = "observe" => c2' = "on")
  <2>1. c10 => /\ c1 /\ (c3 = "on" \/ c8[r] = "observe")
                 /\ c8[r] # "observe_off" /\ (c8[r] = "observe" => c2 = "on")
    BY <1>0 DEF Fm!AskedStands
  <2>2. CASE Fm!AsksOn(r)
    BY <1>3, <2>1, <2>2 DEF Fm!AsksOn, Fm!Free
  <2>3. CASE Fm!SwitchesOn(r)
    BY <1>0, <1>3, <2>1, <2>3 DEF Fm!SwitchesOn, Fm!Typed
  <2>4. CASE Fm!Observes(r)
    BY <1>0, <1>3, <2>1, <2>4 DEF Fm!Observes, Fm!Typed
  <2>5. CASE Fm!Releases(r)
    BY <1>0, <1>3, <2>1, <2>5 DEF Fm!Releases, Fm!Typed
  <2>6. CASE Fm!SwitchesOff(r)
    BY <2>6 DEF Fm!SwitchesOff
  <2> QED
    BY <2>2, <2>3, <2>4, <2>5, <2>6
<1>11. Fm!AskedStands'
  BY <1>0, <1>1, <1>3, <1>10 DEF Fm!AskedStands
<1> QED
  BY <1>7, <1>9, <1>11 DEF Fm!IInv

\* A second receiver that the server switched on is muted for as long as nobody
\* touches it, and there is one cadence exactly while somebody relays; with one
\* request at a time, and no probe answered across one.
THEOREM AskedForStaysMuted ==
    ASSUME Fm!NoPoller \notin FmPollers, ~FmLateAnswers, \A r, s \in FmRoutes : r = s
    PROVE  Fm!Spec => [](Fm!AskedForIsMuted /\ Fm!OneCadence)
<1>1. Fm!Init => Fm!IInv
  <2> SUFFICES ASSUME Fm!Init
               PROVE  Fm!IInv
    OBVIOUS
  <2>1. Fm!Holding = {} /\ Cardinality(Fm!Holding) = 0
    BY FmHolds DEF Fm!Init, Fm!Holding
  <2>2. c6 = [p \in FmPollers |-> [on |-> FALSE, stop |-> FALSE, pc |-> "wait", answer |-> "unknown"]]
    BY DEF Fm!Init, Fm!Off
  <2>3. Fm!Typed
    <3>1. c2 \in Fm!Told /\ c3 \in Fm!Told /\ "unknown" \in Fm!Told
      BY DEF Fm!Init, Fm!Told, Fm!Says
    <3>2. c8 \in [FmRoutes -> {"idle", "on", "observe", "observe_off", "release"}]
      BY DEF Fm!Init
    <3>3. c6 \in [FmPollers -> [on : BOOLEAN, stop : BOOLEAN, pc : {"wait", "record"}, answer : Fm!Told]]
      <4> HIDE DEF Fm!Told
      <4> QED
        BY <2>2, <3>1
    <3> QED
      BY <3>1, <3>2, <3>3 DEF Fm!Init, Fm!Typed
  <2>4. Fm!OneCadence
    BY <2>1, <2>2, FmCountAlike DEF Fm!Init, Fm!OneCadence
  <2>5. Fm!InTurn /\ Fm!AskedStands
    BY <2>2 DEF Fm!Init, Fm!InTurn, Fm!AskedStands
  <2> QED
    BY <2>3, <2>4, <2>5 DEF Fm!IInv
<1>2. Fm!IInv /\ [Fm!Next]_(Fm!vars) => Fm!IInv'
  <2> SUFFICES ASSUME Fm!IInv, [Fm!Next]_(Fm!vars)
               PROVE  Fm!IInv'
    OBVIOUS
  <2>1. CASE Fm!KeyUp \/ Fm!KeyOff \/ Fm!ByHand
    <3>1. /\ c3' = c3 /\ c4' = c4 /\ c5' = c5 /\ c6' = c6
          /\ c7' = c7 /\ c8' = c8 /\ Fm!Holding' = Fm!Holding
          /\ c1' \in BOOLEAN /\ c2' \in Fm!Told
          /\ ~c10' \/ (c10' = c10 /\ c1' = c1 /\ c2' = c2)
      BY <2>1 DEF Fm!IInv, Fm!Typed, Fm!Told, Fm!KeyUp, Fm!KeyOff, Fm!ByHand, Fm!Holding
    <3> QED
      BY <3>1, FmCountAlike DEF Fm!IInv, Fm!Typed, Fm!InTurn, Fm!AskedStands, Fm!OneCadence
  <2>2. CASE UNCHANGED Fm!vars
    BY <2>2, FmCountAlike DEF Fm!vars, Fm!IInv, Fm!Typed, Fm!InTurn, Fm!AskedStands, Fm!OneCadence, Fm!Holding
  <2> QED
    BY <2>1, <2>2, FmLives, FmPolls, FmServes DEF Fm!Next
<1>3. Fm!IInv => Fm!AskedForIsMuted /\ Fm!OneCadence
  <2> SUFFICES ASSUME Fm!IInv, c10
               PROVE  Fm!Muted
    BY DEF Fm!IInv, Fm!AskedForIsMuted
  <2>1. CASE c3 = "on"
    BY <2>1 DEF Fm!Muted, Fm!Reported
  <2>2. CASE \E r \in FmRoutes : c8[r] = "observe"
    <3>1. Fm!Holding # {}
      BY <2>2 DEF Fm!Holding
    <3>2. c4 = 1
      BY <3>1, FmHolds, FmCountAlike DEF Fm!IInv, Fm!OneCadence, Fm!Holding
    <3> QED
      BY <3>2 DEF Fm!Muted, Fm!Reported
  <2> QED
    BY <2>1, <2>2 DEF Fm!IInv, Fm!AskedStands
<1> QED
  BY <1>1, <1>2, <1>3, PTL DEF Fm!Spec

-----------------------------------------------------------------------------
(* SquelchGate: the overs that the squelch gate passes. *)

CONSTANTS
    GateOnLevel, GateOffLevel, GateHang, GateLevels, GateMaxFrames, GateMaxTime,
    GateMaxFaults

Gate == INSTANCE SquelchGate WITH
    OnLevel <- GateOnLevel, OffLevel <- GateOffLevel, Hang <- GateHang,
    Levels <- GateLevels, MaxFrames <- GateMaxFrames, MaxTime <- GateMaxTime,
    MaxFaults <- GateMaxFaults,
    frames <- c1, now <- c2, vad <- c3, polled <- c4, squelch <- c5, faults <- c6

\* A frame more at the end of those judged.
LEMMA GateGrows ==
    ASSUME NEW T, NEW s \in Seq(T), NEW e \in T
    PROVE  /\ Append(s, e) \in Seq(T) /\ Len(Append(s, e)) = Len(s) + 1 /\ Len(s) \in Nat
           /\ Append(s, e)[Len(s) + 1] = e /\ Append(s, e) # << >>
           /\ \A i \in 1 .. Len(s) : Append(s, e)[i] = s[i]
  OBVIOUS
LEMMA GateElements == ASSUME NEW T, NEW s \in Seq(T) PROVE \A i \in 1 .. Len(s) : s[i] \in T
  OBVIOUS

\* What the next frame leaves of the overs that passed so far, and begins.
LEMMA GateCarries ==
    ASSUME Gate!GateAssumption, Gate!LevelsAssumption, Gate!Judged, NEW level \in GateLevels, Gate!AudioLevelGate(level)
    PROVE  LET n == Len(c1) IN
           /\ n \in Nat /\ Len(c1') = n + 1 /\ c1' # << >>
           /\ \A i \in 1 .. n : c1'[i] = c1[i]
           /\ c1'[n + 1] = [at |-> c2, level |-> level] /\ level \in Int
           /\ Gate!Judged'
           /\ \A i \in 1 .. n : Gate!Carried(i, Len(c1))' <=>
                 /\ Gate!Carried(i, n)
                 /\ \/ level >= GateOffLevel
                    \/ \E k \in i .. n : c1[k].level >= GateOffLevel /\ c2 < c1[k].at + GateHang
           /\ Gate!Carried(Len(c1), Len(c1))' <=> level >= GateOffLevel
<1> DEFINE n == Len(c1)
           f == [at |-> c2, level |-> level]
<1>1. c1 \in Seq([at : Nat, level : Int]) /\ f \in [at : Nat, level : Int] /\ c2 \in Nat
  BY DEF Gate!Judged, Gate!LevelsAssumption
<1>2. c1' = Append(c1, f) /\ c2' = c2
  BY DEF Gate!AudioLevelGate
<1>3. /\ n \in Nat /\ Len(c1') = n + 1 /\ c1' # << >>
      /\ \A i \in 1 .. n : c1'[i] = c1[i]
      /\ c1'[n + 1] = f
      /\ c1' \in Seq([at : Nat, level : Int])
  BY <1>1, <1>2, GateGrows
<1>4. level \in Int /\ GateOffLevel \in Int /\ GateHang \in Nat
  BY DEF Gate!LevelsAssumption, Gate!GateAssumption
<1>5. \A i \in 1 .. n : c1[i].at \in Nat /\ c1[i].level \in Int
  <2>1. \A i \in 1 .. Len(c1) : c1[i] \in [at : Nat, level : Int]
    BY <1>1, GateElements
  <2> QED
    BY <2>1
<1> HIDE DEF n
<1>6. c3' \in [open : BOOLEAN, until : Nat, says : BOOLEAN]
  BY <1>4 DEF Gate!AudioLevelGate, Gate!Judged
<1>7. \A i, j \in 1 .. n : i < j => c1[i].at <= c1[j].at
  BY DEF Gate!Judged, n
<1>8. \A i \in 1 .. n : c1[i].at <= c2
  BY DEF Gate!Judged, n
<1>9. \A i \in 1 .. n + 1 : i \in 1 .. n \/ i = n + 1
  BY <1>3
<1>10. Gate!Judged'
  <2>1. \A i, j \in 1 .. n + 1 : i < j => c1'[i].at <= c1'[j].at
    <3> SUFFICES ASSUME NEW i \in 1 .. n + 1, NEW j \in 1 .. n + 1, i < j
                 PROVE  c1'[i].at <= c1'[j].at
      OBVIOUS
    <3>1. i \in 1 .. n /\ c1'[i] = c1[i]
      BY <1>3
    <3>2. CASE j \in 1 .. n
      BY <1>3, <1>7, <3>1, <3>2
    <3>3. CASE j = n + 1
      BY <1>3, <1>8, <3>1, <3>3
    <3> QED
      BY <1>9, <3>2, <3>3
  <2>2. \A i \in 1 .. n + 1 : c1'[i].at <= c2
    <3> SUFFICES ASSUME NEW i \in 1 .. n + 1
                 PROVE  c1'[i].at <= c2
      OBVIOUS
    <3>1. CASE i \in 1 .. n
      <4>1. c1'[i] = c1[i]
        BY <1>3, <3>1
      <4> QED
        BY <1>8, <3>1, <4>1
    <3>2. CASE i = n + 1
      <4>1. c1'[i].at = c2
        BY <1>3, <3>2
      <4>2. c2 <= c2
        BY <1>1
      <4> QED
        BY <4>1, <4>2
    <3> QED
      BY <1>9, <3>1, <3>2
  <2> QED
    BY <1>1, <1>2, <1>3, <1>6, <2>1, <2>2 DEF Gate!Judged
<1>11. ASSUME NEW i \in 1 .. n
       PROVE  Gate!Carried(i, Len(c1))' <=>
                 /\ Gate!Carried(i, n)
                 /\ \/ level >= GateOffLevel
                    \/ \E k \in i .. n : c1[k].level >= GateOffLevel /\ c2 < c1[k].at + GateHang
  <2>1. Gate!Carried(i, Len(c1))' <=>
            \A j \in i .. n + 1 : \E k \in i .. n + 1 :
                c1'[k].level >= GateOffLevel /\ k <= j /\ (k = j \/ c1'[j].at < c1'[k].at + GateHang)
    BY <1>3 DEF Gate!Carried
  <2>2. Gate!Carried(i, n) <=>
            \A j \in i .. n : \E k \in i .. n :
                c1[k].level >= GateOffLevel /\ k <= j /\ (k = j \/ c1[j].at < c1[k].at + GateHang)
    BY DEF Gate!Carried
  <2>3. \A j \in i .. n + 1 : j \in 1 .. n + 1 /\ (j \in i .. n \/ j = n + 1)
    BY <1>3
  <2>4. \A j \in i .. n : j \in i .. n + 1 /\ j \in 1 .. n /\ j # n + 1
    BY <1>3
  <2>5. n + 1 \in i .. n + 1
    BY <1>3
  <2>6. ASSUME Gate!Carried(i, Len(c1))'
        PROVE  Gate!Carried(i, n)
    <3> SUFFICES ASSUME NEW j \in i .. n
                 PROVE  \E k \in i .. n : /\ c1[k].level >= GateOffLevel /\ k <= j
                                          /\ k = j \/ c1[j].at < c1[k].at + GateHang
      BY <2>2
    <3>1. PICK k \in i .. n + 1 : /\ c1'[k].level >= GateOffLevel /\ k <= j
                                  /\ k = j \/ c1'[j].at < c1'[k].at + GateHang
      BY <2>1, <2>4, <2>6
    <3>2. k \in i .. n
      BY <1>3, <3>1
    <3> QED
      BY <1>3, <2>4, <3>1, <3>2
  <2>7. ASSUME Gate!Carried(i, Len(c1))', ~(level >= GateOffLevel)
        PROVE  \E k \in i .. n : c1[k].level >= GateOffLevel /\ c2 < c1[k].at + GateHang
    <3>1. PICK k \in i .. n + 1 : /\ c1'[k].level >= GateOffLevel
                                  /\ k = n + 1 \/ c1'[n + 1].at < c1'[k].at + GateHang
      BY <2>1, <2>5, <2>7
    <3>2. k # n + 1
      BY <1>3, <2>7, <3>1
    <3>3. k \in i .. n
      BY <2>3, <3>2
    <3>4. c1'[k] = c1[k] /\ c1'[n + 1].at = c2
      <4>1. c1'[k] = c1[k]
        BY <1>3, <2>4, <3>3
      <4>2. c1'[n + 1].at = c2
        BY <1>3
      <4> QED
        BY <4>1, <4>2
    <3>5. c1[k].level >= GateOffLevel /\ c2 < c1[k].at + GateHang
      BY <3>1, <3>2, <3>4
    <3> QED
      BY <3>3, <3>5
  <2>8. ASSUME Gate!Carried(i, n),
               \/ level >= GateOffLevel
               \/ \E k \in i .. n : c1[k].level >= GateOffLevel /\ c2 < c1[k].at + GateHang
        PROVE  Gate!Carried(i, Len(c1))'
    <3> SUFFICES ASSUME NEW j \in i .. n + 1
                 PROVE  \E k \in i .. n + 1 : /\ c1'[k].level >= GateOffLevel /\ k <= j
                                              /\ k = j \/ c1'[j].at < c1'[k].at + GateHang
      BY <2>1
    <3>1. CASE j \in i .. n
      <4>1. PICK k \in i .. n : /\ c1[k].level >= GateOffLevel /\ k <= j
                                /\ k = j \/ c1[j].at < c1[k].at + GateHang
        BY <2>2, <2>8, <3>1
      <4> QED
        BY <1>3, <2>4, <3>1, <4>1
    <3>2. CASE j = n + 1 /\ level >= GateOffLevel
      BY <1>3, <2>5, <3>2
    <3>3. CASE j = n + 1 /\ ~(level >= GateOffLevel)
      <4>1. PICK k \in i .. n : c1[k].level >= GateOffLevel /\ c2 < c1[k].at + GateHang
        BY <2>8, <3>3
      <4>2. k <= n + 1 /\ k \in i .. n + 1 /\ c1'[k] = c1[k]
        BY <1>3, <2>4
      <4> QED
        BY <1>3, <3>3, <4>1, <4>2
    <3> QED
      BY <2>3, <3>1, <3>2, <3>3
  <2> QED
    BY <2>6, <2>7, <2>8
<1>12. Gate!Carried(Len(c1), Len(c1))' <=> level >= GateOffLevel
  <2>1. \A k : k \in n + 1 .. n + 1 <=> k = n + 1
    BY <1>3
  <2>2. Gate!Carried(Len(c1), Len(c1))' <=> c1'[n + 1].level >= GateOffLevel
    BY <1>3, <2>1 DEF Gate!Carried
  <2> QED
    BY <1>3, <2>2
<1> QED
  BY <1>3, <1>4, <1>10, <1>11, <1>12 DEF n

\* A frame opens, holds or closes the gate as the overs that pass say.
LEMMA GateJudges ==
    ASSUME Gate!GateAssumption, Gate!LevelsAssumption, Gate!IInv, NEW level \in GateLevels, Gate!AudioLevelGate(level)
    PROVE  Gate!IInv'
<1> DEFINE n == Len(c1)
           f == [at |-> c2, level |-> level]
           held == level >= IF c3.open THEN GateOffLevel ELSE GateOnLevel
           hangs == c3.open /\ c2 < c3.until
<1>0. Gate!Judged /\ Gate!HeldUntil /\ Gate!PassesWholeOvers /\ c3.says = c3.open
      /\ c3.open \in BOOLEAN /\ c3.until \in Nat /\ c2 \in Nat
  BY DEF Gate!IInv, Gate!Judged
<1>1. /\ c3'.open = (held \/ hangs) /\ c3'.says = (held \/ hangs)
      /\ held => c3'.until = c2 + GateHang
      /\ ~held /\ hangs => c3'.until = c3.until
  BY DEF Gate!AudioLevelGate
<1>2. /\ n \in Nat /\ Len(c1') = n + 1 /\ c1' # << >>
      /\ \A i \in 1 .. n : c1'[i] = c1[i]
      /\ c1'[n + 1] = f /\ level \in Int
      /\ Gate!Judged'
      /\ \A i \in 1 .. n : Gate!Carried(i, Len(c1))' <=>
            /\ Gate!Carried(i, n)
            /\ \/ level >= GateOffLevel
               \/ \E k \in i .. n : c1[k].level >= GateOffLevel /\ c2 < c1[k].at + GateHang
      /\ Gate!Carried(Len(c1), Len(c1))' <=> level >= GateOffLevel
  BY <1>0, GateCarries
<1>3. \A i \in 1 .. n : c1[i].at \in Nat /\ c1[i].level \in Int
  <2>1. \A i \in 1 .. Len(c1) : c1[i] \in [at : Nat, level : Int]
    BY <1>0, GateElements DEF Gate!Judged
  <2> QED
    BY <2>1
<1>4. GateOffLevel \in Int /\ GateOnLevel \in Int /\ GateOffLevel < GateOnLevel /\ GateHang \in Nat
  BY DEF Gate!LevelsAssumption, Gate!GateAssumption
<1>5. c3.open <=> \E i \in 1 .. n : c1[i].level >= GateOnLevel /\ Gate!Carried(i, n)
  <2>1. CASE n = 0
    <3>1. c1 = << >>
      BY <1>0, <2>1 DEF Gate!Judged
    <3> QED
      BY <2>1, <3>1 DEF Gate!IInv
  <2>2. CASE n > 0
    BY <1>0, <2>2 DEF Gate!PassesWholeOvers
  <2> QED
    BY <1>2, <2>1, <2>2
<1>6. \A k, j \in 1 .. n : k < j => c1[k].at <= c1[j].at
  BY <1>0 DEF Gate!Judged
<1> HIDE DEF n, held, hangs
<1>7. held => level >= GateOffLevel
  BY <1>2, <1>4 DEF held
<1>8. Gate!HeldUntil'
  <2>1. CASE held
    <3>1. c1'[n + 1].level >= GateOffLevel /\ c3'.until = c1'[n + 1].at + GateHang
      BY <1>1, <1>2, <1>7, <2>1
    <3> QED
      BY <1>2, <3>1 DEF Gate!HeldUntil
  <2>2. CASE ~held /\ hangs
    <3>1. c3.open /\ level < GateOffLevel
      BY <1>2, <1>4, <2>2 DEF held, hangs
    <3>2. PICK k \in 1 .. n : /\ c1[k].level >= GateOffLevel /\ c3.until = c1[k].at + GateHang
                              /\ \A j \in k + 1 .. n : c1[j].level < GateOffLevel
      BY <1>0, <3>1 DEF Gate!HeldUntil, n
    <3>3. \A j \in k + 1 .. n + 1 : (j \in 1 .. n /\ j \in k + 1 .. n) \/ j = n + 1
      BY <1>2
    <3>4. \A j \in k + 1 .. n + 1 : c1'[j].level < GateOffLevel
      BY <1>2, <3>1, <3>2, <3>3
    <3>5. k \in 1 .. n + 1 /\ c1'[k] = c1[k]
      BY <1>2
    <3> QED
      BY <1>1, <1>2, <2>2, <3>2, <3>4, <3>5 DEF Gate!HeldUntil
  <2>3. CASE ~held /\ ~hangs
    BY <1>1, <2>3 DEF Gate!HeldUntil
  <2> QED
    BY <2>1, <2>2, <2>3
<1>9. c3'.open <=> \E i \in 1 .. n + 1 : c1'[i].level >= GateOnLevel /\ Gate!Carried(i, Len(c1))'
  <2>1. ASSUME c3.open, held \/ hangs
        PROVE  \E i \in 1 .. n + 1 : c1'[i].level >= GateOnLevel /\ Gate!Carried(i, Len(c1))'
    <3>1. PICK i \in 1 .. n : c1[i].level >= GateOnLevel /\ Gate!Carried(i, n)
      BY <1>5, <2>1
    <3>2. level >= GateOffLevel \/ \E k \in i .. n : c1[k].level >= GateOffLevel /\ c2 < c1[k].at + GateHang
      <4>1. CASE held
        BY <1>7, <4>1
      <4>2. CASE ~held
        <5>1. c2 < c3.until
          BY <2>1, <4>2 DEF hangs
        <5>2. PICK k \in 1 .. n : /\ c1[k].level >= GateOffLevel /\ c3.until = c1[k].at + GateHang
                                  /\ \A j \in k + 1 .. n : c1[j].level < GateOffLevel
          BY <1>0, <2>1 DEF Gate!HeldUntil, n
        <5>3. ~(i \in k + 1 .. n)
          BY <1>3, <1>4, <3>1, <5>2
        <5>4. k \in i .. n
          BY <1>2, <5>3
        <5> QED
          BY <5>1, <5>2, <5>4
      <4> QED
        BY <4>1, <4>2
    <3>3. i \in 1 .. n + 1 /\ c1'[i].level >= GateOnLevel
      BY <1>2, <3>1
    <3> QED
      BY <1>2, <3>1, <3>2, <3>3
  <2>2. ASSUME ~c3.open, held
        PROVE  \E i \in 1 .. n + 1 : c1'[i].level >= GateOnLevel /\ Gate!Carried(i, Len(c1))'
    <3>1. level >= GateOnLevel
      BY <2>2 DEF held
    <3>3. c1'[n + 1].level >= GateOnLevel /\ n + 1 \in 1 .. n + 1
      BY <1>2, <3>1
    <3> QED
      BY <1>2, <1>7, <2>2, <3>3
  <2>3. ASSUME NEW i \in 1 .. n + 1, c1'[i].level >= GateOnLevel, Gate!Carried(i, Len(c1))'
        PROVE  held \/ hangs
    <3>1. CASE i = n + 1
      <4>1. level >= GateOnLevel
        BY <1>2, <2>3, <3>1
      <4> QED
        BY <1>2, <1>4, <4>1 DEF held
    <3>2. CASE i \in 1 .. n
      <4>1. c1[i].level >= GateOnLevel /\ Gate!Carried(i, n)
        BY <1>2, <2>3, <3>2
      <4>2. c3.open
        BY <1>5, <3>2, <4>1
      <4>3. CASE level >= GateOffLevel
        BY <4>2, <4>3 DEF held
      <4>4. CASE ~(level >= GateOffLevel)
        <5>1. PICK k \in i .. n : c1[k].level >= GateOffLevel /\ c2 < c1[k].at + GateHang
          BY <1>2, <2>3, <3>2, <4>4
        <5>2. PICK l \in 1 .. n : /\ c1[l].level >= GateOffLevel /\ c3.until = c1[l].at + GateHang
                                  /\ \A j \in l + 1 .. n : c1[j].level < GateOffLevel
          BY <1>0, <4>2 DEF Gate!HeldUntil, n
        <5>3. k \in 1 .. n /\ ~(k \in l + 1 .. n)
          BY <1>2, <1>3, <1>4, <3>2, <5>1, <5>2
        <5>4. k = l \/ k < l
          BY <1>2, <5>3
        <5>5. c1[k].at <= c1[l].at
          BY <1>3, <1>6, <5>3, <5>4
        <5>6. c2 < c3.until
          BY <1>0, <1>3, <1>4, <5>1, <5>2, <5>3, <5>5
        <5> QED
          BY <4>2, <5>6 DEF hangs
      <4> QED
        BY <4>3, <4>4
    <3> QED
      BY <1>2, <3>1, <3>2
  <2> QED
    BY <1>1, <2>1, <2>2, <2>3 DEF hangs
<1>10. Gate!PassesWholeOvers'
  BY <1>1, <1>2, <1>9 DEF Gate!PassesWholeOvers
<1> QED
  BY <1>1, <1>2, <1>8, <1>10 DEF Gate!IInv

\* The gate passes an over whole, whatever the levels, thresholds and hang, and
\* opens for nothing that stays between the thresholds.
THEOREM OversPassWhole ==
    ASSUME Gate!GateAssumption, Gate!LevelsAssumption
    PROVE  Gate!Spec => []Gate!PassesWholeOvers
<1>1. Gate!Init => Gate!IInv
  <2> SUFFICES ASSUME Gate!Init
               PROVE  Gate!IInv
    OBVIOUS
  <2>1. c1 = << >> /\ Len(c1) = 0 /\ c1 \in Seq([at : Nat, level : Int])
    BY DEF Gate!Init
  <2>2. Gate!Judged
    BY <2>1 DEF Gate!Init, Gate!Judged
  <2> QED
    BY <2>1, <2>2 DEF Gate!Init, Gate!IInv, Gate!HeldUntil, Gate!PassesWholeOvers
<1>2. Gate!IInv /\ [Gate!Next]_(Gate!vars) => Gate!IInv'
  <2> SUFFICES ASSUME Gate!IInv, [Gate!Next]_(Gate!vars)
               PROVE  Gate!IInv'
    OBVIOUS
  <2>1. CASE UNCHANGED <<c1, c3>> /\ c2' \in Nat /\ c2' >= c2
    <3>1. \A i \in 1 .. Len(c1) : c1[i].at \in Nat
      <4>1. \A i \in 1 .. Len(c1) : c1[i] \in [at : Nat, level : Int]
        BY GateElements DEF Gate!IInv, Gate!Judged
      <4> QED
        BY <4>1
    <3>2. \A i \in 1 .. Len(c1) : c1[i].at <= c2'
      <4>1. c2 \in Nat /\ \A i \in 1 .. Len(c1) : c1[i].at <= c2
        BY DEF Gate!IInv, Gate!Judged
      <4>2. \A a, b, c \in Nat : a <= b /\ b <= c => a <= c
        OBVIOUS
      <4>3. c2 <= c2' /\ c2' \in Nat
        BY <2>1, <4>1
      <4> QED
        BY <3>1, <4>1, <4>2, <4>3
    <3>3. Gate!Judged'
      <4>1. c1' = c1 /\ c3' = c3 /\ c2' \in Nat
        BY <2>1
      <4> QED
        BY <3>2, <4>1 DEF Gate!IInv, Gate!Judged
    <3>4. c1' = c1 /\ c3' = c3
      BY <2>1
    <3>5. Gate!HeldUntil'
      BY <3>4 DEF Gate!IInv, Gate!HeldUntil
    <3>6. Gate!PassesWholeOvers'
      BY ZenonT(40), <3>4 DEF Gate!IInv, Gate!PassesWholeOvers, Gate!Carried
    <3> QED
      BY <3>3, <3>4, <3>5, <3>6 DEF Gate!IInv
  <2>2. CASE Gate!Ticks
    BY <2>1, <2>2 DEF Gate!Ticks, Gate!IInv, Gate!Judged
  <2>3. CASE Gate!Starts \/ Gate!Asks \/ Gate!PollOnce \/ Gate!Stops \/ Gate!SquelchMoves \/ UNCHANGED Gate!vars
    <3>1. UNCHANGED <<c1, c3, c2>> /\ c2 \in Nat
      BY <2>3 DEF Gate!Starts, Gate!Asks, Gate!PollOnce, Gate!Stops, Gate!SquelchMoves, Gate!vars, Gate!IInv, Gate!Judged
    <3> QED
      BY <2>1, <3>1
  <2> QED
    BY <2>2, <2>3, GateJudges DEF Gate!Next
<1> QED
  BY <1>1, <1>2, PTL DEF Gate!Spec, Gate!IInv
=============================================================================
