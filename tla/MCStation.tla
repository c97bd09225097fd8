----------------------------- MODULE MCStation ------------------------------
(***************************************************************************)
(* The parts of the station around keying, reading and the session.  The    *)
(* backends: the UV-K5 (wire, frames, messages, keying), the AIOC with a    *)
(* docked UV-K5 (tuning, storage, second receiver, meter), the kv4p HT      *)
(* (frames, link, keying) and the gate in front of them.  Beside them: what *)
(* the station stores and shows, the other paths of audio, the links and    *)
(* their clients, the scan, the keypad, the vocoder, the doctor, the stop.  *)
(*                                                                         *)
(* They share no state.  A behaviour is a behaviour of one of them, picked  *)
(* at the start, so that one run checks each of them whole at its own       *)
(* bounds.                                                                 *)
(***************************************************************************)
EXTENDS StationParts, StationPaths, StationShown

VARIABLE part  \* the part of the station that runs

vars == <<part, c1, c2, c3, c4, c5, c6, c7, c8, c9, c10, c11, c12, c13, c14>>

\* UV-K5 storage.  Which band of the radio an image is for.
Band(image) == IF image = "b1" THEN "B" ELSE "A"

Messages ==
    {"Hello", "KeyPress", "GetScreen", "Scan", "StockSetModulation", "JetScan",
     "EnterHwMode", "ExitHwMode", "Reset", "EepromRead", "EepromReadReply",
     "EepromWrite", "EepromWriteReply", "SetVfo", "SetVfoProbe", "SetVfoReply",
     "SetModulation", "SetModulationReply", "SetBroadcastFm", "ProbeBroadcastFm",
     "ClearBroadcastFm", "BroadcastFmReply", "RegisterInfo", "GpioInfo", "ImHere",
     "ScanReply", "JetScanReply", "WriteRegisters", "ReadRegisters", "WriteGpio",
     "ReadGpio"}

\* Exports of CHIRP: every single row over these columns, and pairs of rows
\* that replace a preset of the station and add one.
Row(name, frequency, duplex, tone, cross) ==
    [name |-> name, frequency |-> frequency, duplex |-> duplex, offset |-> 1,
     tone |-> tone, rTone |-> 1, cTone |-> 2, cross |-> cross]
Exports ==
    {<<[name |-> n, frequency |-> f, duplex |-> d, offset |-> o, tone |-> t,
        rTone |-> r, cTone |-> c, cross |-> x]>> :
       n \in {"", "a"}, f \in {0, 1, 2}, d \in {"", "-", "+", "split"}, o \in {0, 1},
       t \in {"", "Tone", "TSQL", "Cross", "DTCS"}, r \in {0, 1}, c \in {0, 2},
       x \in {"absent", "Tone->Tone", "->Tone"}}
    \cup {<<p, q>> :
       p \in {Row("a", 2, "-", "TSQL", "absent"), Row("b", 1, "", "", "absent")},
       q \in {Row("a", 2, "+", "Tone", "absent"), Row("c", 3, "", "Cross", "Tone->DTCS")}}

\* Presets of radio.toml; 0 - 99 is a transmit leg that is not set.
Preset(name, frequency) ==
    [name |-> name, frequency |-> frequency, tx |-> 0 - 99, txTone |-> 0, rxTone |-> 0]
Presets == {<< >>, <<Preset("b", 2), Preset("a", 3)>>}

\* Presets to apply: one split, one simplex, one whose transmit leg the radio
\* refuses.
ThreePresets ==
    {[name |-> "a", freq |-> 2, tx |-> 5, tone |-> 7, power |-> 1],
     [name |-> "b", freq |-> 3, tx |-> 0, tone |-> 0, power |-> 0],
     [name |-> "c", freq |-> 2, tx |-> 9, tone |-> 0, power |-> 0]}

\* The channels of a scan.
Memory == <<"f1", "f2", "f3">>

\* The modules of the panel; the calls and the reflectors of a D-STAR header.
Panel == <<"B", "C">>
OneCall == {<<1, 2, 3>>}
TwoDests == {<<4>>, <<4, 4>>}

CONSTANTS
    StationRuns,  \* the parts that a run considers
    DockLineMaxPayload, DockLineMaxFrames, DockLineMaxDamage,
    DockByte, DockChunk, DockTones, DockRaster, DockMaxList, DockNames,
    KissMaxFrame, KissMaxStream,
    PadKeys, KeysMode, KeysOnset, KeysRelease, KeysWindow, KeysTimeout, KeysGap,
    KeysMaxKeys, KeysMaxBlocks,
    RelayStreams, RelayQueueSize, RelayMaxFrames, RelayMaxFeeds, RelayDstarFaults,
    DsrpLong, DsrpCalls, DsrpModules, DsrpDests, DsrpSeqMax, DsrpIds, DsrpMaxOvers,
    DsrpMaxFrames, DsrpMaxWire, DsrpMaxDamage, DsrpWireFaults,
    DecoderDepth, DecoderLatency, DecoderMaxFrames, DecoderMaxOvers,
    DecoderChipFaults,
    FramesByte, FramesVoice, FramesAudio, FramesMaxPackets, FramesGlitches

DockLine == INSTANCE DockFrames WITH
    MaxPayload <- DockLineMaxPayload, MaxFrames <- DockLineMaxFrames,
    MaxDamage <- DockLineMaxDamage,
    stream <- c1, dock <- c2, payload <- c3, todo <- c4, sent <- c5, damage <- c6

Dock == INSTANCE DockMessages WITH
    Byte <- DockByte, Chunk <- DockChunk, Tones <- DockTones, Raster <- DockRaster,
    MaxList <- DockMaxList, Names <- DockNames,
    sent <- c1, wire <- c2, got <- c3

Kiss == INSTANCE KissFrames WITH
    MaxFrame <- KissMaxFrame, MaxStream <- KissMaxStream,
    stream <- c1, kiss <- c2, frame <- c3

Keys == INSTANCE DtmfKeys WITH
    Keys <- PadKeys, Silence <- "-", Mode <- KeysMode, Onset <- KeysOnset,
    Release <- KeysRelease, Window <- KeysWindow, Timeout <- KeysTimeout,
    Gap <- KeysGap, MaxKeys <- KeysMaxKeys, MaxBlocks <- KeysMaxBlocks,
    air <- c1, quiet <- c2, keyed <- c3, clock <- c4, det <- c5, win <- c6,
    reported <- c7, framer <- c8, entries <- c9

Relay == INSTANCE DstarOver WITH
    Streams <- RelayStreams, NoStream <- "none", QueueSize <- RelayQueueSize,
    MaxFrames <- RelayMaxFrames, MaxFeeds <- RelayMaxFeeds,
    DstarFaults <- RelayDstarFaults,
    over <- c1, drain <- c2, queue <- c3, pool <- c4, heard <- c5, session <- c6,
    strays <- c7, ended <- c8, frames <- c9, feeds <- c10

Dsrp == INSTANCE DsrpStream WITH
    Long <- DsrpLong, Calls <- DsrpCalls, Modules <- DsrpModules,
    Dests <- DsrpDests, SeqMax <- DsrpSeqMax, Ids <- DsrpIds,
    MaxOvers <- DsrpMaxOvers, MaxFrames <- DsrpMaxFrames, MaxWire <- DsrpMaxWire,
    MaxDamage <- DsrpMaxDamage, WireFaults <- DsrpWireFaults,
    over <- c1, counter <- c2, wire <- c3, inOver <- c4, lost <- c5, gone <- c6,
    missing <- c7, got <- c8, overs <- c9, frames <- c10, damage <- c11

Decoder == INSTANCE DecodeStream WITH
    Depth <- DecoderDepth, Latency <- DecoderLatency, MaxFrames <- DecoderMaxFrames,
    MaxOvers <- DecoderMaxOvers, Retains <- FALSE, ChipFaults <- DecoderChipFaults,
    chip <- c1, line <- c2, fifo <- c3, stream <- c4, over <- c5, played <- c6,
    starved <- c7

Frames == INSTANCE VocoderFrames WITH
    Byte <- FramesByte, Voice <- FramesVoice, Audio <- FramesAudio,
    MaxPackets <- FramesMaxPackets, Glitches <- FramesGlitches,
    sent <- c1, line <- c2, buf <- c3, got <- c4, lost <- c5

ASSUME ConstantsAssumption ==
    /\ Wire!WireAssumption
    /\ DockLine!DockAssumption
    /\ Kiss!KissAssumption
    /\ Gate!GateAssumption

\* What the theorems about the parts take for granted; each fault left out
\* breaks the property it is left out for.
ASSUME FaultsAssumption ==
    /\ Exit!ExitAssumption
    /\ Hop!PlanAssumption /\ HopPriority = "none"
    /\ Tune!TablesAssumption
    /\ Mumble!LinkAssumption /\ "quick" \notin MumbleLinkFaults
    /\ DongleMaxGen \in Nat \ {0} /\ "late" \notin DongleFaults
    /\ Store!StoreAssumption
    /\ Rssi!KeyersAssumption /\ \A j, k \in RssiKeyers : j = k
    /\ Link!LinkAssumption /\ LinkWindow <= LinkHelloWindow
    /\ Kv!RadioAssumption /\ KvThreads = {"talker"}
    /\ Fm!NoPoller \notin FmPollers /\ \A r, s \in FmRoutes : r = s
    /\ Gate!LevelsAssumption
    /\ Chirp!ListsAssumption
    /\ Taps!TapsAssumption
    /\ Uvk5Retunes \in Nat /\ "drop_lost" \notin Uvk5ChipFaults
    /\ TunerTones # {} /\ NoImage \notin Tuner!Images
    /\ Config!StoreAssumption /\ Config!NothingFails
    /\ EventsClients \cap EventsDrains = {}
    /\ Log!LedgerAssumption /\ Log!OneKeyer
    /\ "drop_lost" \notin DoctorFaults
    /\ DvapModules \in Seq(Dvap!Letters) /\ DvapModules # << >> /\ "late" \notin DvapNetFaults
    /\ \A s, t \in TunerRoutes : s = t

OnWire == part = "wire" /\ UNCHANGED part /\ Still12
OnDockLine == part = "dock_line" /\ UNCHANGED part /\ Still7
OnDock == part = "dock" /\ UNCHANGED part /\ Still4
OnUvk5 == part = "uvk5" /\ UNCHANGED part /\ Still7
OnTuner == part = "tuner" /\ UNCHANGED part /\ Still8
OnStore == part = "store" /\ UNCHANGED part /\ Still7
OnFm == part = "fm" /\ UNCHANGED part /\ Still12
OnRssi == part = "rssi" /\ UNCHANGED part
OnKiss == part = "kiss" /\ UNCHANGED part /\ Still4
OnLink == part = "link" /\ UNCHANGED part /\ Still9
OnKv == part = "kv4p" /\ UNCHANGED part /\ Still11
OnGate == part = "gate" /\ UNCHANGED part /\ Still7
OnConfig == part = "config" /\ UNCHANGED part /\ Still9
OnChirp == part = "chirp" /\ UNCHANGED part /\ Still9
OnEvents == part = "events" /\ UNCHANGED part /\ Still7
OnLog == part = "ledger" /\ UNCHANGED part /\ Still10
OnTaps == part = "taps" /\ UNCHANGED part
OnDoc == part = "doctor" /\ UNCHANGED part /\ Still8
OnExit == part = "shutdown" /\ UNCHANGED part /\ Still12
OnHop == part = "scan" /\ UNCHANGED part /\ Still10
OnTune == part = "presets" /\ UNCHANGED part /\ Still6
OnKeys == part = "dtmf" /\ UNCHANGED part /\ Still10
OnPipe == part = "multimon" /\ UNCHANGED part /\ Still8
OnIdent == part = "station_id" /\ UNCHANGED part /\ Still9
OnMumble == part = "mumble" /\ UNCHANGED part /\ Still8
OnRefl == part = "dstar_link" /\ UNCHANGED part /\ Still9
OnRelay == part = "dstar_over" /\ UNCHANGED part /\ Still11
OnDsrp == part = "dsrp" /\ UNCHANGED part /\ Still12
OnGateway == part = "gateway" /\ UNCHANGED part /\ Still12
OnDvap == part = "dvap" /\ UNCHANGED part /\ Still8
OnDongle == part = "dongle" /\ UNCHANGED part /\ Still13
OnDecoder == part = "decoder" /\ UNCHANGED part /\ Still8
OnFrames == part = "vocoder" /\ UNCHANGED part /\ Still6

Init ==
    /\ part \in StationRuns
    /\ \/ part = "wire" /\ Wire!Init /\ Zero12
       \/ part = "dock_line" /\ DockLine!Init /\ Zero7
       \/ part = "dock" /\ Dock!Init /\ Zero4
       \/ part = "uvk5" /\ Uvk5!Init /\ Zero7
       \/ part = "tuner" /\ Tuner!Init /\ Zero8
       \/ part = "store" /\ Store!Init /\ Zero7
       \/ part = "fm" /\ Fm!Init /\ Zero12
       \/ part = "rssi" /\ Rssi!Init
       \/ part = "kiss" /\ Kiss!Init /\ Zero4
       \/ part = "link" /\ Link!Init /\ Zero9
       \/ part = "kv4p" /\ Kv!Init /\ Zero11
       \/ part = "gate" /\ Gate!Init /\ Zero7
       \/ part = "config" /\ Config!Init /\ Zero9
       \/ part = "chirp" /\ Chirp!Init /\ Zero9
       \/ part = "events" /\ Events!Init /\ Zero7
       \/ part = "ledger" /\ Log!Init /\ Zero10
       \/ part = "taps" /\ Taps!Init
       \/ part = "doctor" /\ Doc!Init /\ Zero8
       \/ part = "shutdown" /\ Exit!Init /\ Zero12
       \/ part = "scan" /\ Hop!Init /\ Zero10
       \/ part = "presets" /\ Tune!Init /\ Zero6
       \/ part = "dtmf" /\ Keys!Init /\ Zero10
       \/ part = "multimon" /\ Pipe!Init /\ Zero8
       \/ part = "station_id" /\ Ident!Init /\ Zero9
       \/ part = "mumble" /\ Mumble!Init /\ Zero8
       \/ part = "dstar_link" /\ Refl!Init /\ Zero9
       \/ part = "dstar_over" /\ Relay!Init /\ Zero11
       \/ part = "dsrp" /\ Dsrp!Init /\ Zero12
       \/ part = "gateway" /\ Gateway!Init /\ Zero12
       \/ part = "dvap" /\ Dvap!Init /\ Zero8
       \/ part = "dongle" /\ Dongle!Init /\ Zero13
       \/ part = "decoder" /\ Decoder!Init /\ Zero8
       \/ part = "vocoder" /\ Frames!Init /\ Zero6

Next ==
    \/ OnWire /\ Wire!Next
    \/ OnDockLine /\ DockLine!Next
    \/ OnDock /\ Dock!Next
    \/ OnUvk5 /\ Uvk5!Next
    \/ OnTuner /\ Tuner!Next
    \/ OnStore /\ Store!Next
    \/ OnFm /\ Fm!Next
    \/ OnRssi /\ Rssi!Next
    \/ OnKiss /\ Kiss!Next
    \/ OnLink /\ Link!Next
    \/ OnKv /\ Kv!Next
    \/ OnGate /\ Gate!Next
    \/ OnConfig /\ Config!Next
    \/ OnChirp /\ Chirp!Next
    \/ OnEvents /\ Events!Next
    \/ OnLog /\ Log!Next
    \/ OnTaps /\ Taps!Next
    \/ OnDoc /\ Doc!Next
    \/ OnExit /\ Exit!Next
    \/ OnHop /\ Hop!Next
    \/ OnTune /\ Tune!Next
    \/ OnKeys /\ Keys!Next
    \/ OnPipe /\ Pipe!Next
    \/ OnIdent /\ Ident!Next
    \/ OnMumble /\ Mumble!Next
    \/ OnRefl /\ Refl!Next
    \/ OnRelay /\ Relay!Next
    \/ OnDsrp /\ Dsrp!Next
    \/ OnGateway /\ Gateway!Next
    \/ OnDvap /\ Dvap!Next
    \/ OnDongle /\ Dongle!Next
    \/ OnDecoder /\ Decoder!Next
    \/ OnFrames /\ Frames!Next

Spec == Init /\ [][Next]_vars

-----------------------------------------------------------------------------
\* Type invariant of every part.
TypeOK ==
    /\ part = "wire" => Wire!TypeOK
    /\ part = "dock_line" => DockLine!TypeOK
    /\ part = "dock" => Dock!TypeOK
    /\ part = "uvk5" => Uvk5!TypeOK
    /\ part = "tuner" => Tuner!TypeOK
    /\ part = "store" => Store!TypeOK
    /\ part = "fm" => Fm!TypeOK
    /\ part = "rssi" => Rssi!TypeOK
    /\ part = "kiss" => Kiss!TypeOK
    /\ part = "link" => Link!TypeOK
    /\ part = "kv4p" => Kv!TypeOK
    /\ part = "gate" => Gate!TypeOK
    /\ part = "config" => Config!TypeOK
    /\ part = "chirp" => Chirp!TypeOK
    /\ part = "events" => Events!TypeOK
    /\ part = "ledger" => Log!TypeOK
    /\ part = "taps" => Taps!TypeOK
    /\ part = "doctor" => Doc!TypeOK
    /\ part = "shutdown" => Exit!TypeOK
    /\ part = "scan" => Hop!TypeOK
    /\ part = "presets" => Tune!TypeOK
    /\ part = "dtmf" => Keys!TypeOK
    /\ part = "multimon" => Pipe!TypeOK
    /\ part = "station_id" => Ident!TypeOK
    /\ part = "mumble" => Mumble!TypeOK
    /\ part = "dstar_link" => Refl!TypeOK
    /\ part = "dstar_over" => Relay!TypeOK
    /\ part = "dsrp" => Dsrp!TypeOK
    /\ part = "gateway" => Gateway!TypeOK
    /\ part = "dvap" => Dvap!TypeOK
    /\ part = "dongle" => Dongle!TypeOK
    /\ part = "decoder" => Decoder!TypeOK
    /\ part = "vocoder" => Frames!TypeOK

\* Whatever fails and in whatever order calls fall, each radio is on the air
\* exactly when somebody holds its key, and on the channel it was told: after
\* a close, after a refused key-up, after a lost answer, with a muted transmit
\* audio or a poll across the assert (Uvk5Radio, DockTuner, RssiCadence,
\* KvLink.close, Kv4pHt.ptt).
CarrierIsHeld ==
    /\ part = "uvk5" => Uvk5!CarrierIsHeld
    /\ part = "tuner" =>
          /\ Tuner!KeyedOnItsChannel
          /\ Tuner!LineMeansCarrier
    /\ part = "rssi" =>
          /\ Rssi!PausesEnd
          /\ Rssi!TornAssertIsCounted
    /\ part = "link" => Link!CloseUnkeys
    /\ part = "kv4p" => Kv!UnkeyedUnlessFaulty

\* What comes off a wire is what was put on it: frames come out whole or not
\* at all after any damage, messages are read as sent, no answer of a
\* superseded handle is delivered, one caller asks at a time, and every byte
\* of flow-control credit is accounted for.
WiresAreTrue ==
    /\ part = "dock_line" => DockLine!OnlyWholeFrames
    /\ part = "dock" =>
          /\ Dock!ReadAsSent
          /\ Dock!AskingIsNotTuning
    /\ part = "kiss" => Kiss!DecodesWhatWasSent
    /\ part = "wire" =>
          /\ Wire!StragglersAreShed
          /\ Wire!TtyHasOneOwner
          /\ Wire!WireHolderAsks
    /\ part = "link" => Link!CreditsAccounted

\* The radio is where the host believes it: the station frequency, the stored
\* channel, the tuning a connect had to clear, the second receiver and its
\* mute, the reading of the meter, the audio queued for an over and the over
\* that the gate carries.
RadioIsAsTold ==
    /\ part = "uvk5" => Uvk5!StationIsWhereTold
    /\ part = "tuner" => Tuner!DeafOversAreAskedFor
    /\ part = "store" =>
          /\ Store!StoredIsStored
          /\ Store!BootsWhole
    /\ part = "link" => Link!TuningSurvives
    /\ part = "kv4p" =>
          /\ Kv!TailIsSent
          /\ Kv!PacersArePaired
          /\ Kv!EncoderHasOneUser
    /\ part = "fm" =>
          /\ Fm!AskedForIsMuted
          /\ Fm!OneCadence
    /\ part = "rssi" => Rssi!ShownIsFresh
    /\ part = "gate" => Gate!PassesWholeOvers

\* What no step of a tuning request does: be answered with another's tuning,
\* move the carrier under an over, reset the radio onto a channel that was not
\* read back, wear the flash with what it already holds.
TuningIsCarefulSteps ==
    /\ part = "tuner" =>
          /\ Tuner!AcceptsTheTuned
          /\ Tuner!KeepsTheCarrier
    /\ part = "store" =>
          /\ Store!ResetsToTheImage
          /\ Store!WritesAChange
TuningIsCareful == [][TuningIsCarefulSteps]_vars

\* What the station shows and stores is so: an answered setting is in the file
\* and survives the next request, a socket shows the radio's state, the panel
\* what the gateway has, the ledger what happened and for how long, the doctor
\* what it found; and every file is whole after a crash or a fault.
ShownIsTrue ==
    /\ part = "config" =>
          /\ Config!AnsweredIsStored
          /\ Config!ShownIsStored
          /\ Config!RoutesReachTheRadio
          /\ Config!FileIsWhole
    /\ part = "chirp" =>
          /\ Chirp!NothingIsGuessed
          /\ Chirp!TheStationStarts
    /\ part = "events" =>
          /\ Events!ShownIsCurrent
          /\ Events!AlarmsAreHeard
    /\ part = "ledger" =>
          /\ Log!FileInOrder
          /\ Log!DurationIsTrue
    /\ part = "doctor" =>
          /\ Doc!LeavesItQuiet
          /\ Doc!ExitIsHonest
          /\ Doc!DiagnosisIsRight
    /\ part = "dstar_link" => Refl!ShownIsLinked
    /\ part = "gateway" =>
          /\ Gateway!RegisteredIsAnswered
          /\ Gateway!ReaderLives
    /\ part = "dvap" => Dvap!ConfirmedIsTrue

\* An over goes through whole and is no other: recorded in segments of one
\* over each, heard without a hole, keyed only while the reflector talks and
\* ended at the far end, decoded to its tail, its packets read as sent and its
\* lost ones counted, its keys reported once, its talker identified.
OversAreWhole ==
    /\ part = "taps" =>
          /\ Taps!ListenersAreNearLive
          /\ Taps!SegmentsAreOvers
          /\ Taps!NothingElseIsLost
    /\ part = "dtmf" =>
          /\ Keys!KeysOnce
          /\ Keys!EntriesAreOneCode
    /\ part = "station_id" => Ident!ContentIsIdentified
    /\ part = "dstar_over" =>
          /\ Relay!KeyedInOver
          /\ Relay!OutboundOversEnd
          /\ Relay!FinishedStaysFinished
    /\ part = "dsrp" =>
          /\ Dsrp!ReadAsSent
          /\ Dsrp!LossIsCounted
          /\ Dsrp!ChecksumIsX25
          /\ Dsrp!SyncOpensSuperframes
    /\ part = "decoder" =>
          /\ Decoder!PlaysInOrder
          /\ Decoder!TailIsPlayed
    /\ part = "vocoder" =>
          /\ Frames!GivesWhatWasSent
          /\ Frames!NeverWedges

\* One link, one decoder, one port, one scan: whatever was replaced, failed or
\* was shut down half way has let go of what it held, and no carrier and no
\* capture read is left behind.
OneAtATime ==
    /\ part = "shutdown" =>
          /\ Exit!NoCarrierWaitsForTheCodec
          /\ Exit!ReadIsOutOfTheDriver
          /\ Exit!EveryStepIsTaken
          /\ Exit!NobodyIsLeftKeyed
    /\ part = "scan" => Hop!ScanKeepsItsEngine
    /\ part = "presets" =>
          /\ Tune!AppliedIsTuned
          /\ Tune!ScanAndPresetApart
    /\ part = "multimon" => Pipe!OneDecoder
    /\ part = "mumble" =>
          /\ Mumble!OneLinkAtATime
          /\ Mumble!UnlinkedIsDeaf
          /\ Mumble!InItsChannel
    /\ part = "dstar_link" =>
          /\ Refl!RunningIsWhole
          /\ Refl!StoppedIsReleased
    /\ part = "dongle" =>
          /\ Dongle!OnePort
          /\ Dongle!ClosedIsFree
          /\ Dongle!AnswersItsFrame

\* What no step does: import over an entry that the export does not name, make
\* a recording longer than its cap, stop the scan where there is no carrier,
\* retune an over or listen to a locked out channel.
StepsAreCarefulSteps ==
    /\ part = "chirp" => Chirp!KeepsTheOthers
    /\ part = "taps" => Taps!GrowsBelowTheCap
    /\ part = "scan" =>
          /\ Hop!HoldsACarrier
          /\ Hop!LeavesOversTuned
    /\ part = "presets" => Tune!RetunesOffTheAir
StepsAreCareful == [][StepsAreCarefulSteps]_vars

-----------------------------------------------------------------------------
\* Each part's own fairness, on the steps of that part: timers fire, threads
\* run, tasks are scheduled, and a device or a peer that still answers answers.
\* Of the polls that are sent again and again one arrives (GatewayClient); a
\* subscriber's task and the cadence thread are let run (EventStream, FmCadence).
Fairness ==
    /\ \A c \in WireCallers : WF_vars(OnWire /\ Wire!CallSteps(c))
    /\ \A p \in FmPollers : SF_vars(OnFm /\ Fm!Polls(p)) /\ WF_vars(OnFm /\ Fm!Records(p))
    /\ \A r \in FmRoutes :
          WF_vars(OnFm /\ (Fm!SwitchesOn(r) \/ Fm!Observes(r) \/ Fm!Releases(r)))
    /\ WF_vars(OnFm /\ Fm!KeyOff)
    /\ WF_vars(OnGate /\ Gate!Asks)
    /\ WF_vars(OnGate /\ Gate!PollOnce)
    /\ \A t \in HopTasks : WF_vars(OnHop /\ Hop!Runs(t)) /\ WF_vars(OnHop /\ Hop!Cancelled(t))
    /\ WF_vars(OnHop /\ Hop!StopEnds)
    /\ WF_vars(OnHop /\ Hop!Passes)
    /\ WF_vars(OnHop /\ Hop!OverEnds)
    /\ WF_vars(OnRelay /\ Relay!Elapses("cap"))
    /\ WF_vars(OnRelay /\ Relay!_rx_watchdog)
    /\ WF_vars(OnPipe /\ Pipe!Takes)
    /\ WF_vars(OnPipe /\ Pipe!Writes)
    /\ WF_vars(OnPipe /\ Pipe!Joined)
    /\ WF_vars(OnDongle /\ Dongle!Answered)
    /\ WF_vars(OnDongle /\ Dongle!TimesOut)
    /\ WF_vars(OnDongle /\ Dongle!Closes)
    /\ WF_vars(OnDongle /\ Dongle!_dispatch)
    /\ \A w \in {"pool", "loop"} :
          /\ WF_vars(OnDongle /\ Dongle!Recovers(w))
          /\ WF_vars(OnDongle /\ Dongle!Attempt(w))
          /\ WF_vars(OnDongle /\ Dongle!Shakes(w))
    /\ WF_vars(OnEvents /\ Events!tick)
    /\ \A r \in EventsRoutes : WF_vars(OnEvents /\ Events!status_event(r))
    /\ \A p \in EventsRoutes \cup {"watch"} :
          /\ WF_vars(OnEvents /\ Events!publish(p))
          /\ WF_vars(OnEvents /\ Events!DropsSubscriber(p))
          /\ WF_vars(OnEvents /\ Events!Published(p))
    /\ \A c \in EventsClients : SF_vars(OnEvents /\ Events!_send(c))
    /\ WF_vars(OnLog /\ Log!handle)
    /\ WF_vars(OnLog /\ Log!close)
    /\ WF_vars(OnLog /\ Log!Joined)
    /\ WF_vars(OnLog /\ Log!Takes)
    /\ WF_vars(OnLog /\ Log!Writes)
    /\ WF_vars(OnDvap /\ Dvap!Gateway)
    /\ WF_vars(OnDvap /\ Dvap!_request)
    /\ WF_vars(OnDvap /\ Dvap!_await)
    /\ WF_vars(OnDvap /\ Dvap!TimesOut)
    /\ WF_vars(OnDvap /\ Dvap!Answered)
    /\ WF_vars(OnGateway /\ Gateway!Thread)
    /\ WF_vars(OnGateway /\ Gateway!Tick)
    /\ WF_vars(OnGateway /\ Gateway!CloseReturns)
    /\ SF_vars(OnGateway /\ Gateway!PollArrives)
    /\ WF_vars(OnExit /\ Exit!Step)
    /\ WF_vars(OnExit /\ Exit!SocketUnwinds)
    /\ \A c \in DOMAIN Exit!Device : WF_vars(OnExit /\ Exit!CallReturns(c))
FairSpec == Spec /\ Fairness

\* Whoever waits comes back, and what must end ends: a caller of the wire or of
\* the dongle whatever died under it, a request of the panel, an over of the
\* reflector at its cap, the decoder's close, the ledger's close with a disk
\* that hangs, and the process at a stop.
EndsCome ==
    /\ \A c \in WireCallers : (part = "wire" /\ Wire!InCall(c))
          ~> (part = "wire" /\ ~Wire!InCall(c))
    /\ \A w \in {"pool", "loop"} : (part = "dongle" /\ Dongle!InCall(w))
          ~> (part = "dongle" /\ ~Dongle!InCall(w))
    /\ (part = "dvap" /\ Dvap!InRequest)
          ~> (part = "dvap" /\ ~Dvap!InRequest)
    /\ (part = "dstar_over" /\ Relay!Keyed)
          ~> (part = "dstar_over" /\ ~Relay!Keyed)
    /\ (part = "multimon" /\ Pipe!Closing)
          ~> (part = "multimon" /\ Pipe!Closed)
    /\ (part = "ledger" /\ Log!Draining)
          ~> (part = "ledger" /\ Log!Closed)
    /\ (part = "shutdown" /\ Exit!Stopping)
          ~> (part = "shutdown" /\ Exit!Exited)

\* What follows the radio catches up with it: the mute of a bridge with the
\* second receiver, the polled busy with the squelch, a socket with the state,
\* the gateway's list with the client, and a scan of a quiet band with every
\* channel.
PartsCatchUp ==
    /\ \A on \in BOOLEAN : <>[](part = "fm" /\ Fm!LeftAloneAt(on))
                             => <>[](part = "fm" => Fm!MutedIf(on))
    /\ \A b \in BOOLEAN : <>[](part = "gate" /\ Gate!PolledAt(b))
                            => <>[](part = "gate" => Gate!SaysBusy(b))
    /\ \A c \in EventsClients : <>[](part = "events" => Events!UpToDate(c))
    /\ []<>(part = "gateway" => Gateway!KnownOrClosed)
    /\ \A freq \in {HopChannels[i] : i \in DOMAIN HopChannels} \ HopLockout :
          <>[](part = "scan" /\ Hop!ScansQuietBand)
              => []<>(part = "scan" => Hop!ListensTo(freq))

-----------------------------------------------------------------------------
(* A behaviour of the station in which a part runs is a behaviour of this   *)
(* part, so that what is proved of the part holds while it runs.            *)

\* A step of the station is a step of the part that runs, and none changes
\* which part that is (the gate in front of every step of Next).
LEMMA StepsAreOfAPart ==
    ASSUME [Next]_vars
    PROVE  /\ part' = part
           /\ part = "uvk5" =>
                 [Uvk5!Next]_(Uvk5!vars) /\ (UNCHANGED Uvk5!vars => UNCHANGED vars)
           /\ part = "tuner" =>
                 [Tuner!Next]_(Tuner!vars) /\ (UNCHANGED Tuner!vars => UNCHANGED vars)
           /\ part = "store" =>
                 [Store!Next]_(Store!vars) /\ (UNCHANGED Store!vars => UNCHANGED vars)
           /\ part = "rssi" =>
                 [Rssi!Next]_(Rssi!vars) /\ (UNCHANGED Rssi!vars => UNCHANGED vars)
           /\ part = "link" =>
                 [Link!Next]_(Link!vars) /\ (UNCHANGED Link!vars => UNCHANGED vars)
           /\ part = "kv4p" =>
                 [Kv!Next]_(Kv!vars) /\ (UNCHANGED Kv!vars => UNCHANGED vars)
           /\ part = "fm" =>
                 [Fm!Next]_(Fm!vars) /\ (UNCHANGED Fm!vars => UNCHANGED vars)
           /\ part = "gate" =>
                 [Gate!Next]_(Gate!vars) /\ (UNCHANGED Gate!vars => UNCHANGED vars)
           /\ part = "shutdown" =>
                 [Exit!Next]_(Exit!vars) /\ (UNCHANGED Exit!vars => UNCHANGED vars)
           /\ part = "scan" =>
                 [Hop!Next]_(Hop!vars) /\ (UNCHANGED Hop!vars => UNCHANGED vars)
           /\ part = "presets" =>
                 [Tune!Next]_(Tune!vars) /\ (UNCHANGED Tune!vars => UNCHANGED vars)
           /\ part = "multimon" =>
                 [Pipe!Next]_(Pipe!vars) /\ (UNCHANGED Pipe!vars => UNCHANGED vars)
           /\ part = "mumble" =>
                 [Mumble!Next]_(Mumble!vars) /\ (UNCHANGED Mumble!vars => UNCHANGED vars)
           /\ part = "dstar_link" =>
                 [Refl!Next]_(Refl!vars) /\ (UNCHANGED Refl!vars => UNCHANGED vars)
           /\ part = "dongle" =>
                 [Dongle!Next]_(Dongle!vars) /\ (UNCHANGED Dongle!vars => UNCHANGED vars)
           /\ part = "chirp" =>
                 [Chirp!Next]_(Chirp!vars) /\ (UNCHANGED Chirp!vars => UNCHANGED vars)
           /\ part = "taps" =>
                 [Taps!Next]_(Taps!vars) /\ (UNCHANGED Taps!vars => UNCHANGED vars)
           /\ part = "config" =>
                 [Config!Next]_(Config!vars) /\ (UNCHANGED Config!vars => UNCHANGED vars)
           /\ part = "events" =>
                 [Events!Next]_(Events!vars) /\ (UNCHANGED Events!vars => UNCHANGED vars)
           /\ part = "ledger" =>
                 [Log!Next]_(Log!vars) /\ (UNCHANGED Log!vars => UNCHANGED vars)
           /\ part = "doctor" =>
                 [Doc!Next]_(Doc!vars) /\ (UNCHANGED Doc!vars => UNCHANGED vars)
           /\ part = "gateway" =>
                 [Gateway!Next]_(Gateway!vars) /\ (UNCHANGED Gateway!vars => UNCHANGED vars)
           /\ part = "dvap" =>
                 [Dvap!Next]_(Dvap!vars) /\ (UNCHANGED Dvap!vars => UNCHANGED vars)
<1> USE DEF Next, vars, OnWire, OnDockLine, OnDock, OnUvk5, OnTuner, OnStore,
    OnFm, OnRssi, OnKiss, OnLink, OnKv, OnGate, OnConfig, OnChirp, OnEvents,
    OnLog, OnTaps, OnDoc, OnExit, OnHop, OnTune, OnKeys, OnPipe, OnIdent,
    OnMumble, OnRefl, OnRelay, OnDsrp, OnGateway, OnDvap, OnDongle, OnDecoder,
    OnFrames
<1>0. part' = part
  BY SMTT(30)
<1>1. part = "uvk5" =>
        [Uvk5!Next]_(Uvk5!vars) /\ (UNCHANGED Uvk5!vars => UNCHANGED vars)
  BY SMTT(30) DEF Uvk5!vars, Still14, Still13, Still12, Still11, Still10, Still9,
      Still8, Still7, Still6, Still5, Still4
<1>2. part = "tuner" =>
        [Tuner!Next]_(Tuner!vars) /\ (UNCHANGED Tuner!vars => UNCHANGED vars)
  BY SMTT(30) DEF Tuner!vars, Still14, Still13, Still12, Still11, Still10, Still9,
      Still8, Still7, Still6, Still5, Still4
<1>3. part = "store" =>
        [Store!Next]_(Store!vars) /\ (UNCHANGED Store!vars => UNCHANGED vars)
  BY SMTT(30) DEF Store!vars, Still14, Still13, Still12, Still11, Still10, Still9,
      Still8, Still7, Still6, Still5, Still4
<1>4. part = "rssi" =>
        [Rssi!Next]_(Rssi!vars) /\ (UNCHANGED Rssi!vars => UNCHANGED vars)
  BY SMTT(30) DEF Rssi!vars, Still14, Still13, Still12, Still11, Still10, Still9,
      Still8, Still7, Still6, Still5, Still4
<1>5. part = "link" =>
        [Link!Next]_(Link!vars) /\ (UNCHANGED Link!vars => UNCHANGED vars)
  BY SMTT(30) DEF Link!vars, Still14, Still13, Still12, Still11, Still10, Still9,
      Still8, Still7, Still6, Still5, Still4
<1>6. part = "kv4p" =>
        [Kv!Next]_(Kv!vars) /\ (UNCHANGED Kv!vars => UNCHANGED vars)
  BY SMTT(30) DEF Kv!vars, Still14, Still13, Still12, Still11, Still10, Still9,
      Still8, Still7, Still6, Still5, Still4
<1>7. part = "fm" =>
        [Fm!Next]_(Fm!vars) /\ (UNCHANGED Fm!vars => UNCHANGED vars)
  BY SMTT(30) DEF Fm!vars, Still14, Still13, Still12, Still11, Still10, Still9,
      Still8, Still7, Still6, Still5, Still4
<1>8. part = "gate" =>
        [Gate!Next]_(Gate!vars) /\ (UNCHANGED Gate!vars => UNCHANGED vars)
  BY SMTT(30) DEF Gate!vars, Still14, Still13, Still12, Still11, Still10, Still9,
      Still8, Still7, Still6, Still5, Still4
<1>9. part = "shutdown" =>
        [Exit!Next]_(Exit!vars) /\ (UNCHANGED Exit!vars => UNCHANGED vars)
  BY SMTT(30) DEF Exit!vars, Still14, Still13, Still12, Still11, Still10, Still9,
      Still8, Still7, Still6, Still5, Still4
<1>10. part = "scan" =>
        [Hop!Next]_(Hop!vars) /\ (UNCHANGED Hop!vars => UNCHANGED vars)
  BY SMTT(30) DEF Hop!vars, Still14, Still13, Still12, Still11, Still10, Still9,
      Still8, Still7, Still6, Still5, Still4
<1>11. part = "presets" =>
        [Tune!Next]_(Tune!vars) /\ (UNCHANGED Tune!vars => UNCHANGED vars)
  BY SMTT(30) DEF Tune!vars, Still14, Still13, Still12, Still11, Still10, Still9,
      Still8, Still7, Still6, Still5, Still4
<1>12. part = "multimon" =>
        [Pipe!Next]_(Pipe!vars) /\ (UNCHANGED Pipe!vars => UNCHANGED vars)
  BY SMTT(30) DEF Pipe!vars, Still14, Still13, Still12, Still11, Still10, Still9,
      Still8, Still7, Still6, Still5, Still4
<1>13. part = "mumble" =>
        [Mumble!Next]_(Mumble!vars) /\ (UNCHANGED Mumble!vars => UNCHANGED vars)
  BY SMTT(30) DEF Mumble!vars, Still14, Still13, Still12, Still11, Still10,
      Still9, Still8, Still7, Still6, Still5, Still4
<1>14. part = "dstar_link" =>
        [Refl!Next]_(Refl!vars) /\ (UNCHANGED Refl!vars => UNCHANGED vars)
  BY SMTT(30) DEF Refl!vars, Still14, Still13, Still12, Still11, Still10, Still9,
      Still8, Still7, Still6, Still5, Still4
<1>15. part = "dongle" =>
        [Dongle!Next]_(Dongle!vars) /\ (UNCHANGED Dongle!vars => UNCHANGED vars)
  BY SMTT(30) DEF Dongle!vars, Still14, Still13, Still12, Still11, Still10,
      Still9, Still8, Still7, Still6, Still5, Still4
<1>16. part = "chirp" =>
        [Chirp!Next]_(Chirp!vars) /\ (UNCHANGED Chirp!vars => UNCHANGED vars)
  BY SMTT(30) DEF Chirp!vars, Still14, Still13, Still12, Still11, Still10, Still9,
      Still8, Still7, Still6, Still5, Still4
<1>17. part = "taps" =>
        [Taps!Next]_(Taps!vars) /\ (UNCHANGED Taps!vars => UNCHANGED vars)
  BY SMTT(30) DEF Taps!vars, Still14, Still13, Still12, Still11, Still10, Still9,
      Still8, Still7, Still6, Still5, Still4
<1>18. part = "config" =>
        [Config!Next]_(Config!vars) /\ (UNCHANGED Config!vars => UNCHANGED vars)
  BY SMTT(30) DEF Config!vars, Still14, Still13, Still12, Still11, Still10,
      Still9, Still8, Still7, Still6, Still5, Still4
<1>19. part = "events" =>
        [Events!Next]_(Events!vars) /\ (UNCHANGED Events!vars => UNCHANGED vars)
  BY SMTT(30) DEF Events!vars, Still14, Still13, Still12, Still11, Still10,
      Still9, Still8, Still7, Still6, Still5, Still4
<1>20. part = "ledger" =>
        [Log!Next]_(Log!vars) /\ (UNCHANGED Log!vars => UNCHANGED vars)
  BY SMTT(30) DEF Log!vars, Still14, Still13, Still12, Still11, Still10, Still9,
      Still8, Still7, Still6, Still5, Still4
<1>21. part = "doctor" =>
        [Doc!Next]_(Doc!vars) /\ (UNCHANGED Doc!vars => UNCHANGED vars)
  BY SMTT(30) DEF Doc!vars, Still14, Still13, Still12, Still11, Still10, Still9,
      Still8, Still7, Still6, Still5, Still4
<1>22. part = "gateway" =>
        [Gateway!Next]_(Gateway!vars) /\ (UNCHANGED Gateway!vars => UNCHANGED vars)
  BY SMTT(30) DEF Gateway!vars, Still14, Still13, Still12, Still11, Still10,
      Still9, Still8, Still7, Still6, Still5, Still4
<1>23. part = "dvap" =>
        [Dvap!Next]_(Dvap!vars) /\ (UNCHANGED Dvap!vars => UNCHANGED vars)
  BY SMTT(30) DEF Dvap!vars, Still14, Still13, Still12, Still11, Still10, Still9,
      Still8, Still7, Still6, Still5, Still4
<1> QED BY <1>0, <1>1, <1>2, <1>3, <1>4, <1>5, <1>6, <1>7, <1>8, <1>9, <1>10,
    <1>11, <1>12, <1>13, <1>14, <1>15, <1>16, <1>17, <1>18, <1>19, <1>20, <1>21,
    <1>22, <1>23

\* What is proved of Uvk5Radio holds while it runs.
LEMMA Uvk5Runs ==
    Spec => [](part = "uvk5" => Uvk5!CarrierIsHeld /\ Uvk5!StationIsWhereTold)
<1>1. Init /\ part = "uvk5" => Uvk5!Init
  BY DEF Init
<1>2. [Next]_vars /\ part = "uvk5" => [Uvk5!Next]_(Uvk5!vars)
  BY StepsAreOfAPart
<1>3. [Next]_vars => ((part = "uvk5")' <=> part = "uvk5")
  BY StepsAreOfAPart
<1>4. Uvk5!Spec => [](Uvk5!CarrierIsHeld /\ Uvk5!StationIsWhereTold)
  BY CarrierFollowsTheKey, FaultsAssumption, PTL
<1> QED
  BY <1>1, <1>2, <1>3, <1>4, PTL DEF Spec, Uvk5!Spec

\* What is proved of DockTuner holds while it runs.
LEMMA TunerRuns ==
    Spec => /\ [](part = "tuner" => /\ Tuner!KeyedOnItsChannel
                               /\ Tuner!DeafOversAreAskedFor
                               /\ Tuner!LineMeansCarrier)
            /\ [][part = "tuner" => Tuner!AcceptsTheTuned /\ Tuner!KeepsTheCarrier]_vars
<1>1. Init /\ part = "tuner" => Tuner!Init
  BY DEF Init
<1>2. [Next]_vars /\ part = "tuner" => [Tuner!Next]_(Tuner!vars)
  BY StepsAreOfAPart
<1>3. [Next]_vars => ((part = "tuner")' <=> part = "tuner")
  BY StepsAreOfAPart
<1>4. Tuner!Spec =>
        /\ [](Tuner!KeyedOnItsChannel /\ Tuner!DeafOversAreAskedFor /\ Tuner!LineMeansCarrier)
        /\ Tuner!AcceptedIsTuned
        /\ Tuner!CarrierStaysPut
  BY OversGoOutWhereTold, RequestsAreAnsweredTrue, FaultsAssumption, PTL
<1>5. [Next]_vars /\ (part = "tuner" =>
        [Tuner!AcceptsTheTuned]_(Tuner!vars) /\ [Tuner!KeepsTheCarrier]_(Tuner!vars))
      => [part = "tuner" => Tuner!AcceptsTheTuned /\ Tuner!KeepsTheCarrier]_vars
  BY StepsAreOfAPart
<1> QED
  BY <1>1, <1>2, <1>3, <1>4, <1>5, PTL DEF Spec, Tuner!Spec,
      Tuner!AcceptedIsTuned, Tuner!CarrierStaysPut

\* What is proved of EepromStore holds while it runs.
LEMMA StoreRuns ==
    Spec => /\ [](part = "store" => Store!StoredIsStored /\ Store!BootsWhole)
            /\ [][part = "store" => Store!ResetsToTheImage /\ Store!WritesAChange]_vars
<1>1. Init /\ part = "store" => Store!Init
  BY DEF Init
<1>2. [Next]_vars /\ part = "store" => [Store!Next]_(Store!vars)
  BY StepsAreOfAPart
<1>3. [Next]_vars => ((part = "store")' <=> part = "store")
  BY StepsAreOfAPart
<1>4. Store!Spec =>
        /\ [](Store!StoredIsStored /\ Store!BootsWhole)
        /\ Store!ResetsOntoTheChannel
        /\ Store!WritesOnlyWhatDiffers
  BY StoredChannelsAreWhole, FaultsAssumption, PTL
<1>5. [Next]_vars /\ (part = "store" =>
        [Store!ResetsToTheImage]_(Store!vars) /\ [Store!WritesAChange]_(Store!vars))
      => [part = "store" => Store!ResetsToTheImage /\ Store!WritesAChange]_vars
  BY StepsAreOfAPart
<1> QED
  BY <1>1, <1>2, <1>3, <1>4, <1>5, PTL DEF Spec, Store!Spec,
      Store!ResetsOntoTheChannel, Store!WritesOnlyWhatDiffers

\* What is proved of RssiCadence holds while it runs.
LEMMA RssiRuns ==
    Spec => [](part = "rssi" => /\ Rssi!PausesEnd
                              /\ Rssi!ShownIsFresh
                              /\ Rssi!TornAssertIsCounted)
<1>1. Init /\ part = "rssi" => Rssi!Init
  BY DEF Init
<1>2. [Next]_vars /\ part = "rssi" => [Rssi!Next]_(Rssi!vars)
  BY StepsAreOfAPart
<1>3. [Next]_vars => ((part = "rssi")' <=> part = "rssi")
  BY StepsAreOfAPart
<1>4. Rssi!Spec => [](Rssi!PausesEnd /\ Rssi!ShownIsFresh /\ Rssi!TornAssertIsCounted)
  <2>1. Rssi!KeyersAssumption /\ Rssi!OneThread
    BY FaultsAssumption DEF Rssi!OneThread
  <2> QED
    BY <2>1, CadenceIsHeldOff, PTL
<1> QED
  BY <1>1, <1>2, <1>3, <1>4, PTL DEF Spec, Rssi!Spec

\* What is proved of KvLink holds while it runs.
LEMMA LinkRuns ==
    Spec => [](part = "link" => Link!CloseUnkeys /\ Link!TuningSurvives)
<1>1. Init /\ part = "link" => Link!Init
  BY DEF Init
<1>2. [Next]_vars /\ part = "link" => [Link!Next]_(Link!vars)
  BY StepsAreOfAPart
<1>3. [Next]_vars => ((part = "link")' <=> part = "link")
  BY StepsAreOfAPart
<1>4. Link!Spec => [](Link!CloseUnkeys /\ Link!TuningSurvives)
  BY LinkIsAccounted, FaultsAssumption, PTL
<1> QED
  BY <1>1, <1>2, <1>3, <1>4, PTL DEF Spec, Link!Spec

\* What is proved of KvRadio holds while it runs.
LEMMA KvRuns ==
    Spec => [](part = "kv4p" => /\ Kv!UnkeyedUnlessFaulty
                              /\ Kv!TailIsSent
                              /\ Kv!PacersArePaired
                              /\ Kv!EncoderHasOneUser)
<1>1. Init /\ part = "kv4p" => Kv!Init
  BY DEF Init
<1>2. [Next]_vars /\ part = "kv4p" => [Kv!Next]_(Kv!vars)
  BY StepsAreOfAPart
<1>3. [Next]_vars => ((part = "kv4p")' <=> part = "kv4p")
  BY StepsAreOfAPart
<1>4. Kv!Spec =>
        /\ [](Kv!UnkeyedUnlessFaulty /\ Kv!TailIsSent /\ Kv!PacersArePaired /\ Kv!EncoderHasOneUser)
  BY UnheldIsUnrequested, TailsAreSent, FaultsAssumption, PTL
<1> QED
  BY <1>1, <1>2, <1>3, <1>4, PTL DEF Spec, Kv!Spec

\* What is proved of FmCadence holds while it runs.
LEMMA FmRuns ==
    ASSUME ~FmLateAnswers
    PROVE  Spec => [](part = "fm" => Fm!AskedForIsMuted /\ Fm!OneCadence)
<1>1. Init /\ part = "fm" => Fm!Init
  BY DEF Init
<1>2. [Next]_vars /\ part = "fm" => [Fm!Next]_(Fm!vars)
  BY StepsAreOfAPart
<1>3. [Next]_vars => ((part = "fm")' <=> part = "fm")
  BY StepsAreOfAPart
<1>4. Fm!Spec => [](Fm!AskedForIsMuted /\ Fm!OneCadence)
  BY AskedForStaysMuted, FaultsAssumption, PTL
<1> QED
  BY <1>1, <1>2, <1>3, <1>4, PTL DEF Spec, Fm!Spec

\* What is proved of SquelchGate holds while it runs.
LEMMA GateRuns ==
    Spec => [](part = "gate" => Gate!PassesWholeOvers)
<1>1. Init /\ part = "gate" => Gate!Init
  BY DEF Init
<1>2. [Next]_vars /\ part = "gate" => [Gate!Next]_(Gate!vars)
  BY StepsAreOfAPart
<1>3. [Next]_vars => ((part = "gate")' <=> part = "gate")
  BY StepsAreOfAPart
<1>4. Gate!Spec => []Gate!PassesWholeOvers
  BY OversPassWhole, FaultsAssumption, ConstantsAssumption, PTL
<1> QED
  BY <1>1, <1>2, <1>3, <1>4, PTL DEF Spec, Gate!Spec

\* What is proved of Shutdown holds while it runs.
LEMMA ExitRuns ==
    Spec => [](part = "shutdown" => /\ Exit!NoCarrierWaitsForTheCodec
                                  /\ Exit!ReadIsOutOfTheDriver
                                  /\ Exit!EveryStepIsTaken
                                  /\ Exit!NobodyIsLeftKeyed)
<1>1. Init /\ part = "shutdown" => Exit!Init
  BY DEF Init
<1>2. [Next]_vars /\ part = "shutdown" => [Exit!Next]_(Exit!vars)
  BY StepsAreOfAPart
<1>3. [Next]_vars => ((part = "shutdown")' <=> part = "shutdown")
  BY StepsAreOfAPart
<1>4. Exit!Spec =>
        /\ [](Exit!NoCarrierWaitsForTheCodec /\ Exit!ReadIsOutOfTheDriver /\ Exit!EveryStepIsTaken /\ Exit!NobodyIsLeftKeyed)
  BY StopIsOrderly, FaultsAssumption, PTL
<1> QED
  BY <1>1, <1>2, <1>3, <1>4, PTL DEF Spec, Exit!Spec

\* What is proved of Scan holds while it runs.
LEMMA HopRuns ==
    Spec => /\ [](part = "scan" => Hop!ScanKeepsItsEngine)
            /\ [][part = "scan" => Hop!HoldsACarrier /\ Hop!LeavesOversTuned]_vars
<1>1. Init /\ part = "scan" => Hop!Init
  BY DEF Init
<1>2. [Next]_vars /\ part = "scan" => [Hop!Next]_(Hop!vars)
  BY StepsAreOfAPart
<1>3. [Next]_vars => ((part = "scan")' <=> part = "scan")
  BY StepsAreOfAPart
<1>4. Hop!Spec => []Hop!ScanKeepsItsEngine /\ Hop!StaysOnCarriers /\ Hop!OversStayTuned
  BY ScanIsTrueToItsPlan, FaultsAssumption, PTL
<1>5. [Next]_vars /\ (part = "scan" =>
        [Hop!HoldsACarrier]_(Hop!vars) /\ [Hop!LeavesOversTuned]_(Hop!vars))
      => [part = "scan" => Hop!HoldsACarrier /\ Hop!LeavesOversTuned]_vars
  BY StepsAreOfAPart
<1> QED
  BY <1>1, <1>2, <1>3, <1>4, <1>5, PTL DEF Spec, Hop!Spec, Hop!StaysOnCarriers,
      Hop!OversStayTuned

\* What is proved of PresetTuning holds while it runs.
LEMMA TuneRuns ==
    Spec => /\ [](part = "presets" => Tune!AppliedIsTuned /\ Tune!ScanAndPresetApart)
            /\ [][part = "presets" => Tune!RetunesOffTheAir]_vars
<1>1. Init /\ part = "presets" => Tune!Init
  BY DEF Init
<1>2. [Next]_vars /\ part = "presets" => [Tune!Next]_(Tune!vars)
  BY StepsAreOfAPart
<1>3. [Next]_vars => ((part = "presets")' <=> part = "presets")
  BY StepsAreOfAPart
<1>4. Tune!Spec =>
        /\ [](Tune!AppliedIsTuned /\ Tune!ScanAndPresetApart)
        /\ Tune!PresetsMoveNoCarrier
  BY PresetsAreTuned, FaultsAssumption, PTL
<1>5. [Next]_vars /\ (part = "presets" =>
        [Tune!RetunesOffTheAir]_(Tune!vars))
      => [part = "presets" => Tune!RetunesOffTheAir]_vars
  BY StepsAreOfAPart
<1> QED
  BY <1>1, <1>2, <1>3, <1>4, <1>5, PTL DEF Spec, Tune!Spec,
      Tune!PresetsMoveNoCarrier

\* What is proved of MultimonPipe holds while it runs.
LEMMA PipeRuns ==
    Spec => [](part = "multimon" => Pipe!OneDecoder)
<1>1. Init /\ part = "multimon" => Pipe!Init
  BY DEF Init
<1>2. [Next]_vars /\ part = "multimon" => [Pipe!Next]_(Pipe!vars)
  BY StepsAreOfAPart
<1>3. [Next]_vars => ((part = "multimon")' <=> part = "multimon")
  BY StepsAreOfAPart
<1>4. Pipe!Spec => []Pipe!OneDecoder
  BY OneDecoderLives, PTL
<1> QED
  BY <1>1, <1>2, <1>3, <1>4, PTL DEF Spec, Pipe!Spec

\* What is proved of MumbleLinks holds while it runs.
LEMMA MumbleRuns ==
    Spec => [](part = "mumble" => /\ Mumble!OneLinkAtATime
                                /\ Mumble!UnlinkedIsDeaf
                                /\ Mumble!InItsChannel)
<1>1. Init /\ part = "mumble" => Mumble!Init
  BY DEF Init
<1>2. [Next]_vars /\ part = "mumble" => [Mumble!Next]_(Mumble!vars)
  BY StepsAreOfAPart
<1>3. [Next]_vars => ((part = "mumble")' <=> part = "mumble")
  BY StepsAreOfAPart
<1>4. Mumble!Spec =>
        /\ [](Mumble!OneLinkAtATime /\ Mumble!UnlinkedIsDeaf /\ Mumble!InItsChannel)
  BY MumbleHasOneLink, FaultsAssumption, PTL
<1> QED
  BY <1>1, <1>2, <1>3, <1>4, PTL DEF Spec, Mumble!Spec

\* What is proved of DstarLink holds while it runs.
LEMMA ReflRuns ==
    Spec => [](part = "dstar_link" => /\ Refl!RunningIsWhole
                                    /\ Refl!StoppedIsReleased
                                    /\ Refl!ShownIsLinked)
<1>1. Init /\ part = "dstar_link" => Refl!Init
  BY DEF Init
<1>2. [Next]_vars /\ part = "dstar_link" => [Refl!Next]_(Refl!vars)
  BY StepsAreOfAPart
<1>3. [Next]_vars => ((part = "dstar_link")' <=> part = "dstar_link")
  BY StepsAreOfAPart
<1>4. Refl!Spec =>
        /\ [](Refl!RunningIsWhole /\ Refl!StoppedIsReleased /\ Refl!ShownIsLinked)
  BY ReflectorLinkIsWhole, PTL
<1> QED
  BY <1>1, <1>2, <1>3, <1>4, PTL DEF Spec, Refl!Spec

\* What is proved of DvDongle holds while it runs.
LEMMA DongleRuns ==
    Spec => [](part = "dongle" => /\ Dongle!OnePort
                                /\ Dongle!ClosedIsFree
                                /\ Dongle!AnswersItsFrame)
<1>1. Init /\ part = "dongle" => Dongle!Init
  BY DEF Init
<1>2. [Next]_vars /\ part = "dongle" => [Dongle!Next]_(Dongle!vars)
  BY StepsAreOfAPart
<1>3. [Next]_vars => ((part = "dongle")' <=> part = "dongle")
  BY StepsAreOfAPart
<1>4. Dongle!Spec =>
        /\ [](Dongle!OnePort /\ Dongle!ClosedIsFree /\ Dongle!AnswersItsFrame)
  BY DongleIsExchangedInTurn, FaultsAssumption, PTL
<1> QED
  BY <1>1, <1>2, <1>3, <1>4, PTL DEF Spec, Dongle!Spec

\* What is proved of ChirpImport holds while it runs.
LEMMA ChirpRuns ==
    Spec => /\ [](part = "chirp" => Chirp!TheStationStarts /\ Chirp!NothingIsGuessed)
            /\ [][part = "chirp" => Chirp!KeepsTheOthers]_vars
<1>1. Init /\ part = "chirp" => Chirp!Init
  BY DEF Init
<1>2. [Next]_vars /\ part = "chirp" => [Chirp!Next]_(Chirp!vars)
  BY StepsAreOfAPart
<1>3. [Next]_vars => ((part = "chirp")' <=> part = "chirp")
  BY StepsAreOfAPart
<1>4. Chirp!Spec =>
        /\ [](Chirp!TheStationStarts /\ Chirp!NothingIsGuessed)
        /\ Chirp!OthersStay
  BY ImportsAreSafe, ImportsGuessNothing, FaultsAssumption, PTL
<1>5. [Next]_vars /\ (part = "chirp" =>
        [Chirp!KeepsTheOthers]_(Chirp!vars))
      => [part = "chirp" => Chirp!KeepsTheOthers]_vars
  BY StepsAreOfAPart
<1> QED
  BY <1>1, <1>2, <1>3, <1>4, <1>5, PTL DEF Spec, Chirp!Spec, Chirp!OthersStay

\* What is proved of RxTaps holds while it runs.
LEMMA TapsRuns ==
    Spec => /\ [](part = "taps" => /\ Taps!ListenersAreNearLive
                              /\ Taps!SegmentsAreOvers
                              /\ Taps!NothingElseIsLost)
            /\ [][part = "taps" => Taps!GrowsBelowTheCap]_vars
<1>1. Init /\ part = "taps" => Taps!Init
  BY DEF Init
<1>2. [Next]_vars /\ part = "taps" => [Taps!Next]_(Taps!vars)
  BY StepsAreOfAPart
<1>3. [Next]_vars => ((part = "taps")' <=> part = "taps")
  BY StepsAreOfAPart
<1>4. Taps!Spec =>
        /\ [](Taps!ListenersAreNearLive /\ Taps!SegmentsAreOvers /\ Taps!NothingElseIsLost)
        /\ Taps!SegmentsAreCapped
  BY FramesAreTapped, FaultsAssumption, PTL
<1>5. [Next]_vars /\ (part = "taps" =>
        [Taps!GrowsBelowTheCap]_(Taps!vars))
      => [part = "taps" => Taps!GrowsBelowTheCap]_vars
  BY StepsAreOfAPart
<1> QED
  BY <1>1, <1>2, <1>3, <1>4, <1>5, PTL DEF Spec, Taps!Spec, Taps!SegmentsAreCapped

\* What is proved of ConfigStore holds while it runs.
LEMMA ConfigRuns ==
    Spec => [](part = "config" => /\ Config!AnsweredIsStored
                                /\ Config!ShownIsStored
                                /\ Config!RoutesReachTheRadio
                                /\ Config!FileIsWhole)
<1>1. Init /\ part = "config" => Config!Init
  BY DEF Init
<1>2. [Next]_vars /\ part = "config" => [Config!Next]_(Config!vars)
  BY StepsAreOfAPart
<1>3. [Next]_vars => ((part = "config")' <=> part = "config")
  BY StepsAreOfAPart
<1>4. Config!Spec =>
        /\ [](Config!AnsweredIsStored /\ Config!ShownIsStored /\ Config!RoutesReachTheRadio /\ Config!FileIsWhole)
  BY SettingsAreStored, FaultsAssumption, PTL
<1> QED
  BY <1>1, <1>2, <1>3, <1>4, PTL DEF Spec, Config!Spec

\* What is proved of EventStream holds while it runs.
LEMMA EventsRuns ==
    Spec => [](part = "events" => Events!ShownIsCurrent /\ Events!AlarmsAreHeard)
<1>1. Init /\ part = "events" => Events!Init
  BY DEF Init
<1>2. [Next]_vars /\ part = "events" => [Events!Next]_(Events!vars)
  BY StepsAreOfAPart
<1>3. [Next]_vars => ((part = "events")' <=> part = "events")
  BY StepsAreOfAPart
<1>4. Events!Spec => [](Events!ShownIsCurrent /\ Events!AlarmsAreHeard)
  BY SocketsAreServed, FaultsAssumption, PTL
<1> QED
  BY <1>1, <1>2, <1>3, <1>4, PTL DEF Spec, Events!Spec

\* What is proved of Ledger holds while it runs.
LEMMA LogRuns ==
    Spec => [](part = "ledger" => Log!FileInOrder /\ Log!DurationIsTrue)
<1>1. Init /\ part = "ledger" => Log!Init
  BY DEF Init
<1>2. [Next]_vars /\ part = "ledger" => [Log!Next]_(Log!vars)
  BY StepsAreOfAPart
<1>3. [Next]_vars => ((part = "ledger")' <=> part = "ledger")
  BY StepsAreOfAPart
<1>4. Log!Spec => [](Log!FileInOrder /\ Log!DurationIsTrue)
  BY LedgerIsTrue, FaultsAssumption, PTL
<1> QED
  BY <1>1, <1>2, <1>3, <1>4, PTL DEF Spec, Log!Spec

\* What is proved of Doctor holds while it runs.
LEMMA DocRuns ==
    Spec => [](part = "doctor" => /\ Doc!LeavesItQuiet
                                /\ Doc!ExitIsHonest
                                /\ Doc!DiagnosisIsRight)
<1>1. Init /\ part = "doctor" => Doc!Init
  BY DEF Init
<1>2. [Next]_vars /\ part = "doctor" => [Doc!Next]_(Doc!vars)
  BY StepsAreOfAPart
<1>3. [Next]_vars => ((part = "doctor")' <=> part = "doctor")
  BY StepsAreOfAPart
<1>4. Doc!Spec => [](Doc!LeavesItQuiet /\ Doc!ExitIsHonest /\ Doc!DiagnosisIsRight)
  BY DoctorTellsTheTruth, FaultsAssumption, PTL
<1> QED
  BY <1>1, <1>2, <1>3, <1>4, PTL DEF Spec, Doc!Spec

\* What is proved of GatewayClient holds while it runs.
LEMMA GatewayRuns ==
    Spec => [](part = "gateway" => /\ Gateway!RegisteredIsAnswered
                                 /\ Gateway!ReaderLives)
<1>1. Init /\ part = "gateway" => Gateway!Init
  BY DEF Init
<1>2. [Next]_vars /\ part = "gateway" => [Gateway!Next]_(Gateway!vars)
  BY StepsAreOfAPart
<1>3. [Next]_vars => ((part = "gateway")' <=> part = "gateway")
  BY StepsAreOfAPart
<1>4. Gateway!Spec => [](Gateway!RegisteredIsAnswered /\ Gateway!ReaderLives)
  BY RegistrationIsAnswered, PTL
<1> QED
  BY <1>1, <1>2, <1>3, <1>4, PTL DEF Spec, Gateway!Spec

\* What is proved of DvapControl holds while it runs.
LEMMA DvapRuns ==
    Spec => [](part = "dvap" => Dvap!ConfirmedIsTrue)
<1>1. Init /\ part = "dvap" => Dvap!Init
  BY DEF Init
<1>2. [Next]_vars /\ part = "dvap" => [Dvap!Next]_(Dvap!vars)
  BY StepsAreOfAPart
<1>3. [Next]_vars => ((part = "dvap")' <=> part = "dvap")
  BY StepsAreOfAPart
<1>4. Dvap!Spec => []Dvap!ConfirmedIsTrue
  BY ConfirmedLinksAreTrue, FaultsAssumption, PTL
<1> QED
  BY <1>1, <1>2, <1>3, <1>4, PTL DEF Spec, Dvap!Spec

\* CarrierIsHeld of every instance of the station: whatever key-ups are refused,
\* answers lost and calls crossed, a carrier is up exactly for a key that is held,
\* on the channel it was told, and a close leaves none (Uvk5Radio, DockTuner,
\* RssiCadence, KvLink, KvRadio).
THEOREM CarriersAreHeld == Spec => []CarrierIsHeld
BY Uvk5Runs, TunerRuns, RssiRuns, LinkRuns, KvRuns, PTL DEF CarrierIsHeld

\* OneAtATime of every instance of the station, whatever fails, is replaced or
\* is shut down half way (Scan, PresetTuning, MultimonPipe, MumbleLinks, DstarLink,
\* DvDongle, Shutdown).
THEOREM StationLetsGo == Spec => []OneAtATime
BY ExitRuns, HopRuns, TuneRuns, PipeRuns, MumbleRuns, ReflRuns, DongleRuns,
    PTL DEF OneAtATime

\* TuningIsCareful of every instance of the station: the answers of its one tuning
\* thread, the carrier under its requests, the reset and the writes of a store
\* (DockTuner, EepromStore).
THEOREM TuningStaysCareful == Spec => TuningIsCareful
BY TunerRuns, StoreRuns, PTL DEF TuningIsCareful, TuningIsCarefulSteps

\* StepsAreCareful of every instance of the station: the entries an export does not
\* name, the cap of a recording, the carriers a scan stays on and the overs in
\* progress (ChirpImport, RxTaps, Scan, PresetTuning).
THEOREM StepsStayCareful == Spec => StepsAreCareful
BY ChirpRuns, TapsRuns, HopRuns, TuneRuns, PTL DEF StepsAreCareful,
    StepsAreCarefulSteps

\* RadioIsAsTold of every instance of the station: the two UV-K5 drivers and their
\* settings store, the kv4p link and its key, the mutes for a broadcast receiver,
\* the meter and the squelch gate, when a silence is answered before it is asked
\* for again (Uvk5Radio, DockTuner, EepromStore, KvLink, KvRadio, FmCadence,
\* RssiCadence, SquelchGate).
THEOREM RadioStaysAsTold ==
    ASSUME ~FmLateAnswers
    PROVE  Spec => []RadioIsAsTold
BY Uvk5Runs, TunerRuns, StoreRuns, LinkRuns, KvRuns, FmRuns, RssiRuns, GateRuns,
    PTL DEF RadioIsAsTold

\* ShownIsTrue of every instance of the station: settings and lists that are answered
\* and stored, sockets and ledger, the doctor's verdict, links and registrations
\* (ConfigStore, ChirpImport, EventStream, Ledger, Doctor, DstarLink, GatewayClient,
\* DvapControl).
THEOREM StationShowsTheTruth == Spec => []ShownIsTrue
BY ConfigRuns, ChirpRuns, EventsRuns, LogRuns, DocRuns, ReflRuns, GatewayRuns,
    DvapRuns, PTL DEF ShownIsTrue
=============================================================================
