# TLA+ for radio-server

Specifications of `radio_server`, model-checked with TLC on small instances; the core is also proved
with TLAPS for every value of the constants. Paths below are relative to `src/`, and to
`src/radio_server/` where they name a Python file.

radio-server puts a half-duplex two-way radio behind a web API. Everything that keys the transmitter
or reads the receiver shares **one** radio, and nearly all of the difficulty is in that sentence: an
asyncio loop with many tasks, worker threads that a cancellation does not call back, timer threads
that must act when everything else is stuck, and radio calls that may raise at any time. Behind the
radio call is a second system of its own: a serial wire with a reader thread, a firmware that may
answer late or not at all, and a channel that somebody can change at the knobs.

## 1. The system

| Part | State it keeps | Operations | Talks to |
|---|---|---|---|
| Arbiter (`arbiter/state.py`) | `_transmitting`, `_receiving` | acquire/release TX, begin/end receive | written by TX sessions and the pump, read by pump, scan, holder |
| TX session and slot (`tx/session.py`) | `_keyed`, last activity; slot holder | feed, key-up, close; try_acquire, release | radio, arbiter, station ID |
| TX lockout (`tx/lockout.py`) | none | wait out the radio's serial lockout on the loop | radio |
| Time-out timer (`tx/tot.py`) | `_keyed`, `_locked`, `_timer`, `_token` | ptt, transmit, fire, close | wraps every radio |
| RX pump (`rx/pump.py`), hub (`rx/hub.py`), recorder (`recording/`) | `_task`, `_reader`, `_inflight`; listeners' queues; open segment | start, stop, run; publish; write, end | radio, gate, controller, arbiter |
| Demand counter, routes (`api/app.py`) | `rx_demand`, closures over radio and pump | acquire/release RX, sockets, `/ptt`, `/transmit`, `/radio/select`, settings, presets | everything |
| Holder (`api/holder.py`), stop (`shutdown.py`) | radio, pump, scan runner, controller, lock | start, stop, rebuild, restore; bounded calls | factory, arbiter |
| Mumble link (`link/`) | running flag, tasks, queue, session; active link | start, stop, relay, connect, disconnect | slot, sessions, pump demand |
| D-STAR (`dstar/`) | mode latch, stream ids, session, slot flag; gateway socket; link cache | header/data/end, watchdog, cuts, teardown; register, link, unlink | slot, sessions, gateway, vocoder |
| Vocoder (`vocoder/`) | port, generation, reader, decode FIFO | encode, decode, flush, recover, close | DV Dongle |
| Controller (`controller/`, `audio/dtmf.py`, `auth/`) | entry buffer, session state, login window; multimon's process | step, dispatch, login, ID; feed, write | radio, services, gate |
| Station ID (`services/station_id.py`) | last ID, pending flag | tick, key-up, periodic, sign-off ID | controller, TX sessions |
| Scan (`scan/`) | engine phase, runner task | start, stop, tick | radio, arbiter, events |
| Gates and cadences (`activity/`) | open flag, hang, readings, poll threads | gate, poll, observe, start, stop | radio, bridges |
| AIOC cable (`backends/aioc_baofeng.py`, `uvk5/tuner.py`) | line, staged and committed channel, wire reservation | ptt, tune, commit, store | sound card, dock |
| UV-K5 dock (`backends/uvk5/`) | handle, generation, waiters, keyed, split | request, reconnect, key on and off | serial port |
| kv4p HT (`backends/kv4p/`) | credit window, desired state, pacer buffer | connect, reconcile, ptt, transmit, close | serial port |
| Events and ledger (`api/events.py`, `eventlog/`) | bounded queues, files | publish, subscribe, drain | all |
| Configuration (`config/`), presets (`presets.py`, `chirp.py`) | settings in memory, file, live radio | validate, save, import, apply | routes, boot |
| Diagnostics (`doctor.py`) | what it changed on the radio | probes, restore, verdict | radio |

### What is hard in it

* **Awaits.** Between two awaits the loop is sequential, across one anything goes: another talker
  claims the slot, a listener arrives while the pump is being stopped, a second request connects
  while the first waits for its bridge.
* **Threads under the loop.** A capture read runs on a worker thread; cancelling the task does not
  stop the thread. The time-out timer, the serial readers, the pacers, the polls and the ledger's
  writer are threads of their own; plain routes run in a thread pool.
* **Failure on the way out.** A refused key-up and a `ptt(False)` that raises hit code that is
  half-way through a change; so do a lost answer, a port that is taken, a full disk.
* **Bounded waits.** Every join is bounded and then given up; what it waited for may still be there.
* **Answers that come late.** A reply may belong to the request before; a status may be published
  after a newer one.
* **State in two places.** The channel, the second receiver, the settings, the link and the credit
  are known to the host and true somewhere else.

What makes the parts correct: one talker at a time; the receive side down exactly while someone
talks; nobody keyed for ever; the slot and the arbiter always come back; one reader in the driver;
a radio that is on the air exactly when it is told, and where it is told; wires that deliver what was
sent or nothing; what is shown and stored is what is so; an over goes through whole and identified.

## 2. The modules

The core, whose interleavings cross component borders, has a module and a run (or more) each:

| Module | Models | |
|---|---|---|
| `Transmitter` | abstract: one over at a time, the receive side down meanwhile | |
| `TxKeying` | slot, arbiter, TX sessions, the three kinds of talkers, the two slotless drivers of the line | implements `Transmitter`; `TxKeyingProofs` |
| `TotRadio` | the time-out timer between keying threads and the radio | theorems in the module |
| `RxReader` | demand counter, pump task, reader thread, arbiter's receive mark, backend swap | theorems in the module |
| `Controller` | the over-the-air session: gate, verifier, station ID, dispatcher, and the controller over them | `ControllerProofs` |
| `MCController` | model values and a view for TLC | |

Around it are thirty-three parts. They meet the core at calls the core models as outcomes (a key-up
that is refused, an over that breaks), and share no state with each other, so `MCStation` runs each
whole at its own bounds: a behaviour of `MCStation` is a behaviour of one part. `Station` declares
the state they share out. `StationParts` (the radios and their wires), `StationPaths` (what runs
between a radio and a talker, a listener or a link) and `StationShown` (what is stored and shown) hold
the instances of the parts that are proved about, with the theorems; `MCStation` has the others and
composes them all.

| Part | Module | Models | Source |
|---|---|---|---|
| wire | `Uvk5Wire` (theorems) | callers, reader threads, reconnect and close on the dock's tty | `backends/uvk5/transport.py` |
| dock_line | `DockFrames` | the dock's deframer on a damaged stream | `backends/uvk5/frames.py` |
| dock | `DockMessages` | what each message is packed into and read as, short and long forms | `backends/uvk5/frames.py` |
| uvk5 | `Uvk5Radio` (theorem) | key-up and key-off by register writes, split retune, writer thread | `backends/uvk5/radio.py` |
| tuner | `DockTuner` (theorem) | staged and committed channels, re-assertion before each over | `backends/aioc_baofeng.py`, `uvk5/tuner.py` |
| store | `EepromStore` (theorem) | a channel written to the radio's storage, reboot onto it | `uvk5/tuner.py`, `uvk5/vfo.py` |
| fm | `FmCadence` (theorem) | whether the radio plays its second receiver, and the mute that follows | `activity/broadcast_fm_poll.py`, `api/app.py` |
| rssi | `RssiCadence` (theorem) | the meter's poll, which a key-up must keep off the wire | `activity/rssi_poll.py`, `aioc_baofeng.py` |
| gate | `SquelchGate` (theorem) | software squelch, polled squelch | `activity/gate.py` |
| kiss | `KissFrames` | the KISS deframer on any stream | `backends/kv4p/frames.py` |
| link | `KvLink` (theorem) | flow-control credit, desired-state sequence, handshake, close | `backends/kv4p/transport.py` |
| kv4p | `KvRadio` (theorem) | keying, encoder, pacer, tail | `backends/kv4p/radio.py`, `pacer.py` |
| taps | `RxTaps` (theorem) | what the pump does with a frame: hub and recorder | `rx/pump.py`, `rx/hub.py`, `recording/` |
| dtmf | `DtmfKeys` | keys held and released, detectors, framer | `audio/dtmf.py` |
| multimon | `MultimonPipe` (theorem) | the child process, its writer and its reaping | `audio/dtmf.py` |
| station_id | `StreamingId` (theorem) | the ten-minute rule of the streaming talkers | `services/station_id.py`, `tx/session.py` |
| scan | `Scan` (theorem) | engine and runner, beside carriers and overs | `scan/` |
| presets | `PresetTuning` (theorem) | a preset field by field beside routes, scan and overs | `presets.py`, `api/app.py` |
| chirp | `ChirpImport` (theorem) | rows to presets, merge, replacement of the file, crash | `chirp.py`, `config/save.py` |
| config | `ConfigStore` (theorem) | settings in memory, in the file, in the live radio | `api/app.py`, `config/` |
| events | `EventStream` (theorem) | status events of routes, bounded queues, reader's death alarm | `api/events.py`, `api/app.py` |
| ledger | `Ledger` (theorem) | events to records, hand-off, writer, drain | `eventlog/` |
| mumble | `MumbleLinks` (theorem) | connect, disconnect, channel, mutes | `link/` |
| dstar_link | `DstarLink` (theorem) | connect and teardown of what a link holds | `dstar/manager.py`, `dstar/bridge.py` |
| dstar_over | `DstarOver` | mode latch, streams, both feeders, watchdog, cuts | `dstar/bridge.py` |
| dsrp | `DsrpStream` | header with checksum, packets, sequence counting | `dstar/dsrp.py`, `header.py`, `bridge.py` |
| gateway | `GatewayClient` (theorem) | registration and keep-alive over UDP | `dstar/client.py` |
| dvap | `DvapControl` (theorem) | remote control with retries, cache of what is linked | `dstar/remote_client.py`, `dvap_manager.py` |
| dongle | `DvDongle` (theorem) | one exchange at a time, recovery, close | `vocoder/dvdongle.py` |
| decoder | `DecodeStream` | frames in the chip, FIFO, flush | `vocoder/dvdongle.py` |
| vocoder | `VocoderFrames` | the dongle's packets | `vocoder/frames.py` |
| doctor | `Doctor` (theorem) | what a probe leaves behind, verdict, exit code | `doctor.py` |
| shutdown | `Shutdown` (theorem) | the order of the stop, bounded calls, interpreter exit | `api/app.py`, `shutdown.py`, `__main__.py` |

The run `progress` is the same module under `FairSpec`, for the twelve parts that promise to get
somewhere, each under the fairness of its own threads. Each module's header says what is abstracted; its comments name the code.
Integers that matter are kept (the checksum is the real X.25 one), sizes are scaled down: `Byte` is a
stand-in for 256, a payload is one or two bytes, times are ticks.

### TxKeying

A step is the code between two awaits of the event loop. `pc[t]` is the await a talker is parked on;
the keying calls of a session are operators on a record (`keyed`, `tx`, `line`) that give the set of
outcomes (a radio call may raise before or after it took effect), so one step can make several calls
in the code's order.

* Browsers follow `audio_tx` and `talker_slot`: claim, handshake, frames, idle wait, refusal (an await
  before the exit), exit. The Mumble relay follows `_mumble_to_rf`, the D-STAR relay `_emit_rx_pcm`,
  `_end_rx`, the watchdog and `_force_unkey`.
* `transmitting` is the arbiter, `keyed` the sessions with `_keyed` set, `line` the PTT line with who
  raised it. `RestPtt` and `TimeOutTimer` drive the line behind the backs of all.
* Abstracted: audio, formats, recordings, ID audio (its failure is the `transmit` fault), statistics,
  the Mumble queue, the D-STAR stream ids. A frame is "good", "empty" or "malformed".

### TotRadio

Callers and timers are threads; the flags change under the lock in one step and the wrapped radio is
called in another. The wrapped radio is the AIOC: refusals before anything is opened, a one-shot that
keys for its clip and un-keys after it, a `ptt(False)` that always drives the line. Timers are a pool
of names, reused after they end; a state in which all are alive is a bound, not a behaviour.

### RxReader

`task`, `reader` and `inflight` are the pump's fields, per pump because a swap leaves the old one
behind. A run of the pump's task and its worker thread share a name (`Pumps \X Slots`); names are
reused when nothing refers to them. `route` is the `rx_pump` of the closures in `create_app`, `radio`
the holder's: they differ between a rebuild and the re-pointing, and after a rollback. The stop of a
pump is three steps: up to the join, up to the wait for the read, and the rest. `closed` is a
`close()` that has begun on its thread.

### Controller

`step`, `trigger` and `open_session` run on the loop without an await, so each is one step; what is
hard is inside it. The calls of a step come in the code's order as operators on a state record, and
every call of the radio may be refused (nothing on the air) or break (the over was out), after which
the code skips what the model skips: `_keying` reports and goes on, or raises again when it is strict;
an exception nothing catches ends the step, and the pump swallows it.

* `auth` and `last` are the Session, which outlives a swap of the radio; `consumed` is the verifier's,
  `sent` and `lastId` are StationId's, and a swap makes both anew. `wired` says that the controller's
  `on_event` is the hub's. `ledger` is the last session event the hub was told.
* `now` is the clock. A service takes up to `Render` to render, so its over goes out at a later time
  than the `now` that the rest of the step was handed: that is why the ten-minute rule holds up to
  `IdInterval + Render` and no better.
* A code is a value, and `CodeAt` gives the code of each TOTP step; two steps may share one.
* `idAt`, `lapsed`, `used` and `did` are history: what was really on the air, and what was reported.
* Abstracted: the DTMF decoder (a frame completes any two entries at most; `DtmfKeys` has the decoder), audio, the link behind `on_link`, the
  attached scan, the fixed-code verifier. The clock is taken not to go back; the code reads
  `time.time`, which may, and then IDs are late by as much and a burned code may return.

## 3. The runs

| Run | Expect | Shows |
|---|---|---|
| `tx_all` | pass | safety of the keying and its refinement, every radio call may raise |
| `tx_live` | pass | liveness, and that nobody is stranded, when `ptt(False)` does not raise |
| `tx_stranded` | violation | a `ptt(False)` that raises strands the arbiter |
| `tot_one` | pass | one keying thread: every key is capped, every carrier ends |
| `tot_race` | violation | two key commands cross: a key without a watchdog |
| `rx_listen` | pass | the reader follows the demand on a fixed backend |
| `rx_swap` | pass | one task per pump with swaps and every fault; stops end |
| `rx_tworeaders` | violation | two threads of one pump in the driver |
| `rx_rollback` | violation | a failed swap leaves those who listen without a reader |
| `ctl_all` | pass | the session with every fault, both settings of auth and swaps: IDs on time, opens recorded, codes good once, closes signed off |
| `station` | pass | the thirty-three parts, with every fault their code survives |
| `progress` | pass | twelve parts get where they must: callers come back, overs and the process end, mutes, meters, sockets and lists catch up |

The properties of `station` are conjunctions over the parts, by what a listener would notice:

* `CarrierIsHeld`: a radio is on the air exactly when somebody holds its key, after a close, a refused
  key-up, a lost answer, a poll across the assert.
* `RadioIsAsTold`: channel, storage, second receiver, meter, tuning across a connect, queued audio.
* `TuningIsCareful` (steps): no request is answered with another's tuning, none moves the carrier under
  an over, no reset onto a channel that was not read back.
* `WiresAreTrue`: whole frames or none, replies to whoever holds the wire, credit accounted for.
* `OversAreWhole`: recordings, sockets, D-STAR streams, decoded tails, keys and identifications.
* `OneAtATime`: one link, decoder, port, scan; nothing left by what was replaced or shut down.
* `StepsAreCareful` (steps): no import over an entry the export does not name, no segment past its cap,
  no retune of an over.
* `ShownIsTrue`: settings, events, ledger, link panels, diagnoses; files whole after a crash.

### Bounds

Two browsers, one Mumble relay and one D-STAR relay are every kind of talker and the one kind of which
there may be several, twice. Two keying threads and three timers let an old timer, a superseded one
and a live one coexist. Three listeners let one leave while another stays and a third comes; two pumps
(three where a rollback needs a third) and two or three slots let an old task, its thread and a new
task coexist. No counter is capped there: the demand is bounded by the listeners. The controller's
clock ends at `MaxTime` = 6 with a time-out, an ID interval and a TOTP step of 2 and renderings of up
to 1: long enough for a session to open, lapse and be followed by another, for a code to leave its
window, and for an ID to fall due between two overs and inside one. A frame completes at most two
entries (`Frames`); with a third, a link command behind two slow services would go out later than
`IdInterval + Render`. `MCController`'s view leaves out `did`, which only tells of the step before and
which no guard and no invariant reads; the properties over it are about steps.

In `MCStation` the bound of each part lets its worst case happen: three openings of the wire (a reader
superseded twice), two callers that want two registers, two damaged bytes in two frames, two faults
after each other in tuner and store (a lost answer, then a hand on the knob), three generations of the
dongle's port after the first, one more frame than a queue or a chip holds, two ID intervals and two
overs beyond them, two scan tasks, four configuration requests.
A socket's queue takes three events, so that two statuses and an alarm can wait together; with a shorter
one the socket is cut off before they can stand in the wrong order. The bounds are the `Max...` constants.

### Faults that are left out, and what they break

The runs leave out what the table names: a constant's value, or, where the constant is already there,
the definition. With it the module violates the definition it states; the code line is the reason. To
see a trace, set the constant in the module's instance and make the definition an invariant (or a
property) of the run.

| Module | Constant | Refutes | Where |
|---|---|---|---|
| `TxKeying` | the D-STAR relay beside a browser | `KeyedHoldsSlot` | `dstar/bridge.py:750`; `tx/session.py:373` says such a talker is refused |
| `TotRadio` | a key-up that is refused | `LatchMeansOverrun` | `tx/tot.py:155` |
| `TotRadio` | a fire past its check, then a re-key | `FreshKeyStands` | `tx/tot.py:140`; `tot.py:153` says "a fresh start" |
| `RxReader` | a swap during a listener's stop | `NoCloseUnderRead` | `rx/pump.py:389`, against `pump.py:404` |
| `RxReader` | `"read_raises"` | `DemandIsServed` | `rx/pump.py:373` |
| `RxReader` | a listener during a swap | `NoStrayReader` | `api/app.py:936` |
| `Controller` | a key after the time-out, before the sweep | `EndsAreSignedOff` | `auth/session.py:148`, against `controller/engine.py:560` |
| `Controller` | a swap; or auth off and a service that raises | `EveryOpenIsRecorded` | `api/app.py:1248`; `controller/engine.py:584` |
| `Uvk5Wire` | a late answer | `ReplyReachesItsAsker` | `uvk5/transport.py:490` |
| `Uvk5Wire` | `"unplug"` with `"close_in_reconnect"` or two `Repairers` | `TtyHasOneOwner` | `uvk5/transport.py`, `reconnect` |
| `DockFrames` | one stray byte | `StrayByteCostsNoFrame` | `uvk5/frames.py:247` |
| `Uvk5Radio` | a lost retune, then the split cleared | `KeyedWhereTold` | `uvk5/radio.py:678` |
| `Uvk5Radio` | `PacerOverlaps`, `"drop_lost"` | `CarrierIsHeld` | `uvk5/radio.py:973` |
| `DockTuner` | two `Routes` | `AcceptedIsTuned` | `aioc_baofeng.py:1455` |
| `DockTuner` | `Overlaps` | `CarrierStaysPut` | `aioc_baofeng.py:1449` |
| `DockTuner` | `"store_fails"` | `FailedStoreIsWaitedFor` | `uvk5/tuner.py:1292` |
| `EepromStore` | `"ack_lies"` | `StoredIsStored` | `uvk5/tuner.py:862` |
| `FmCadence` | `LateAnswers`, or two `Routes` | `AskedForIsMuted` | `api/app.py:2052` |
| `RssiCadence` | a stalled poller at the assert | `AssertIsQuiet` | `activity/rssi_poll.py:116` |
| `RssiCadence` | `OutlastsPoll = FALSE` | `TornAssertIsCounted` | `aioc_baofeng.py:705` |
| `KvLink` | a HELLO with a smaller window (`HelloWindow` < `Window`) | `CreditsAccounted` | `kv4p/transport.py:396` |
| `KvLink` | an old report with the number | `ConfirmedIsApplied` | `kv4p/transport.py:560` |
| `KvRadio` | `"starved"` lead-in | `UnkeyedIsUnrequested` | `kv4p/radio.py:523` |
| `KvRadio` | the time-out's thread beside the talker's | `TailIsSent` | `kv4p/radio.py:485` |
| `Scan` | `StartsInStop` | `ScanKeepsItsEngine` | `scan/runner.py:130` |
| `PresetTuning` | `Overlaps`; a refused field | `AppliedIsTuned`, `RetunesOffTheAir`; `RefusedIsNotHalfTuned` | `api/app.py:1914`; `presets.py:283` |
| `ConfigStore` | `Overlaps` | `AnsweredIsStored`, `ShownIsStored` | `api/app.py:2338` |
| `ConfigStore` | `"write_fails"`, `"build_fails"`; `"torn"` | `RoutesReachTheRadio`; `FileIsWhole` | `api/app.py:2388`, `2374`; `config/save.py` |
| `ConfigStore` | an undeclared block | `OnlyDeclaredIsOffered` | `api/app.py:2351` |
| `EventStream` | `Overlaps`; a full drain | `ShownIsCurrent`; `PublishIsTotal` | `api/app.py:1926`; `api/events.py:222` |
| `Ledger` | a full queue; two `Keyers`; `"full"` disk | `FileIsPrefix`; `DurationIsTrue`; `LossIsCounted` | `eventlog/sink.py:153`; `eventlog/log.py:50` |
| `RxTaps` | `TxFits` | `SegmentsAreOvers` | `rx/pump.py:243` |
| `DtmfKeys` | `Mode = "buffered"`, keys a window apart | `KeysOnce` | `audio/dtmf.py` |
| `StreamingId` | `"id_fails"`, `"closing_fails"` | `ContentIsIdentified` | `services/station_id.py:297` |
| `MumbleLinks` | `Overlaps`; `"quick"` | `OneLinkAtATime`; `InItsChannel` | `link/manager.py:89`; `link/pymumble_client.py:161` |
| `DstarLink` | `Overlaps` | `RunningIsWhole` | `dstar/manager.py:162` |
| `DstarOver` | `"late_cut"` | `OutboundOversEnd` | `dstar/bridge.py:1028` |
| `DsrpStream` | `"swapped"` | `LossIsCounted` | `dstar/bridge.py:592` |
| `DvapControl` | `"late"` | `ConfirmedIsTrue` | `dstar/remote_client.py:208` |
| `DvDongle` | `"late"`; `"reader_dies"` | `AnswersItsFrame`; `LoopNeverWaits` | `vocoder/dvdongle.py:178`; `dstar/bridge.py:764` |
| `DecodeStream` | `Retains` | `TailIsPlayed` | `vocoder/dvdongle.py:633` |
| `Doctor` | none needed; a lost answer to the forcing write | `VersionIsRead`; `RegistersAsFound` | `doctor.py:1134`; `doctor.py:2604` |
| `Shutdown` | `"capture"`, `"codec"`, `"ptt"` in `Wedges` | `ProcessExits` | `rx/pump.py:437`, `dstar/bridge.py:519` |
| `Shutdown` | `Demanders = {"socket"}`: it unwinds during the graceful window | `ReadIsOutOfTheDriver` | `rx/pump.py:386` |

### Fairness

Every timed wait ends (`wait_for`, bounded joins, the lockout sleep, the watchdog, request deadlines),
so the step after it is weakly fair; tasks that are ready run; timer, reader, poll and writer threads
run. That nobody talks for ever is strong fairness of `Stalls` and is an assumption about people, which
the time-out timer backs for the line but not for the slot. Nothing is assumed of a thread inside a
radio call: a read may never return, a clip may play for ever. In `progress` the fairness of each
part is that of its module: a caller's own steps (`Uvk5Wire`, `DvDongle`, `DvapControl`), the watchdog
and the drain (`DstarOver`), the writer (`Ledger`, `MultimonPipe`), the sending loop (`EventStream`),
the poll (`FmCadence`, `SquelchGate`, `RssiCadence`, `GatewayClient`), the ticking task (`Scan`) and the
sequence of the stop (`Shutdown`). No network or radio is assumed to answer, with one exception: a
gateway that is reachable in the end is what "the list catches up" is about.

## 4. The proofs

All theorems hold for every value of the constants under the named assumptions of each module (the
kinds of talkers are disjoint, the null values are outside their sets, listeners are finite).

* `TxKeyingProofs`. The inductive invariant says of the keying record that it is "good" (at most one
  keyed, the latch set while one is), that the slot matches the scopes, and that keyed browsers and
  relays are inside theirs. Neither half is inductive alone: that a browser's exit may clear the
  arbiter needs that nobody else is keyed, which needs that key-up asked the arbiter. The operators
  (`CloseOutcomes`, `KeyUpOutcomes`, ...) have lemmas of their own, so each action is a few lines.
  `NobodyIsStranded` is the same argument with the assumption that `ptt(False)` does not raise;
  `Refinement` maps every step to an over's start, its end, a strand or a stutter.
* `TotRadio`. `OneTimerLives` for any number of threads; `SoleKeyerIsCapped` for one keying
  thread, a working key-down and key-ups shorter than `tot`. All three assumptions are needed: the
  violation runs are what happens without them.
* `RxReader`. `OneTaskAtATime` holds through swaps and faults; `DemandStartsAndStops` for a fixed
  backend and a card that does not die. Its invariant counts: the demand is the cardinality of the set
  of listeners that are on, and an old task that still unwinds is ordered before its successor's first
  step (the loop is first in, first out), which is why the receive mark is right.

* `ControllerProofs`. `Core` says of the state record that the stamp of the last ID is no later than an
  ID that was on the air, that no over lapsed, and that a code accepted once is still burned or out of
  every window to come. Each operator has a lemma that it keeps `Core` at the `now` the step was handed,
  and says how far the clock ran meanwhile; `BurnedLater` carries the burn to a later clock. That the
  idle sweep may close a session at a stale `now` is where the argument is not local: a session that an
  entry of the frame touched is not idle. `OversIdentified`, `OpensRecorded` and `CodesBurn` follow, for
  every timing, every `CodeAt` and every fault. The two action properties (`IdleSessionsRunNothing`,
  `ClosesAreSigned`) come from a second lemma per operator, of what it adds to the reports of its step:
  a close is reported only behind an ID or behind the report of its failure, a command only in a session
  the gate had admitted; `OperationReports` puts them together entry by entry.
* `Uvk5Wire`. `WireIsOrderly` for any callers and any number of reconnecting threads: a superseded
  reader is harmless because the handle's number is the generation's (`Numbered`) and an answer is
  handed out only in the reader's own generation; that the new reader takes a fresh place needs that
  readers are numbered in order (`InOrder`, a fact about a cardinality). `TtyIsOwned` needs more: one
  reconnecting thread, and close not beside it; without either TLC has the trace.
* `DockTuner`. `OversGoOutWhereTold`: each of the key-up's three frames establishes what the line then
  relies on (`OnChannel`, `Listened`, `Modulated`), and what may touch it later is recorded; the
  argument needs that no tuning thread is past its check while the line is up (`RoutesWait`).
  `RequestsAreAnsweredTrue` is the step property: the answer of a tuning request is of its own tuning,
  and no request moves the carrier under an over. It needs the one tuning thread.
* `StationParts`, `StationPaths`, `StationShown`. A part's variables are the shared cells `c1` ... `c14` here, so a theorem about
  `Tune!Spec` is about the module with those variables. Each has its module's `IInv`, which names what
  the property alone leaves out:
  * `StreamingId`, `OversAreIdentifiedInTime`: as long as no identification is lost the stamp is the
    time of the last one on the air (`StampIsTrue`), so what is sent after asking is in time.
  * `Uvk5Radio`, `CarrierFollowsTheKey`: past key-off's write the carrier is down, confirmed it is up,
    and one thread at a time is on the way (`Apart`). Where the synthesiser stands after each write of
    a key-up or key-off is `Placed`; a retune that stayed lost has set `deaf`.
  * `EepromStore`, `StoredChannelsAreWhole`: what a store still has to write is what the image still
    lacks, from whichever step of it an answer was lost.
  * `RssiCadence`, `CadenceIsHeldOff`: a key-up that counts on the pause is counted itself (a
    cardinality), and a poll past its check holds the wire that the assert needs.
  * `KvLink`, `LinkIsAccounted`: every credit is free, paid, in the device's buffer, under way back or
    lost with a frame no device took. The costs of a queue are counted by cardinality and not summed by
    recursion, so that they can be reasoned about: one bijection for the tail of a sequence. Around it
    stand what is queued for a device (`EndsIn`: the last state under way is the one the device will
    be in), that a device that is down has nothing queued (`Awake`), and that only a session that heard
    its device goes on (`Retuned`, `Unkeyed`).
  * `KvRadio`, `UnheldIsUnrequested`: with any number of threads a carrier without a key was asked for
    by a thread that is on its way out, or its un-keying was refused (`AskedForAKey`). `TailsAreSent`,
    for one keying thread: an encoder, a tick and a queue have one keying's units at a time (`Turns`),
    they stand in the order in which they were queued (`Lined`), and every unit is on the air, given up
    or in one of the three (`Accounted`). What is heard of a sequence is the n-th of its loud places
    (`Heard`), counted by cardinality, and `KvRanks` proves that this leaves none out.
  * `FmCadence`, `AskedForStaysMuted`: while a poll is about to record, no route is half way
    (`InTurn`), and what it then records of a receiver that was asked for is not that it is off
    (`AskedStands`); the assumptions held are as many as the routes that hold one (`Holding`).
  * `SquelchGate`, `OversPassWhole`: the gate keeps one deadline where the property looks at the whole
    past; the deadline is that of the last frame at the closing level (`HeldUntil`).
  * `Scan`, `ScanIsTrueToItsPlan`, and `PresetTuning`, `PresetsAreTuned`: where the tuner stands between
    two awaits of the engine or two fields of a preset. `Scan` takes as a hypothesis that filtering the
    locked-out entries off a list leaves a list without them (`SelectSeq` is recursive in the library);
    TLC evaluates it.
  * `ChirpImport`, `ImportsAreSafe`: what stands in the scratch file is what was validated
    (`UnderWay`), so the server starts from whatever a crash leaves; and a merge replaces in place and
    appends (`ChirpMerges`). The rows kept and the entries new are counted, not folded (`Nth`): the n-th
    of a set of places, so that a list's length is a cardinality. `ImportsGuessNothing` needs that the
    n-th of some places is one of them (`NthIs`): it is the least up to which there are n, and that there
    is a least one is the library's `WFMin`, in place of an induction along the list.
  * `ConfigStore`, `SettingsAreStored`: one request is under way (`OneRequest`), and its step says what
    the file has already and the memory has not (`IsAt`); when none is, the two agree (`Agree`). It is
    for requests that do not overlap and rebuilds and writes that succeed, as the table of faults says.
  * `EventStream`, `SocketsAreServed`: what waits for a served socket ends in the state of the radio, or
    the socket shows it already, or the publisher has it in its list (`Ends`, `ToCome`); the alarms in
    its queue are those it still has to hear (`Sums`, a function over the queue and not a fold).
    It is for publishers that take turns. The routes publish from the thread pool and need not: two
    that overlap leave a socket with the older status as its last one.
  * `Ledger`, `LedgerIsTrue`: an event in the hub happened at the present tick (`HubIsOfNow`), so the
    time that the log keeps of a key-up is its keyer's; the records in the queue, in the writer's hand
    (`InPen`) and in the file are numbered in one order (`RecordsAreInOrder`). It is for one keyer; the
    bounds on the queue, the clock and the number of events are any.
  * `GatewayClient`, `RegistrationIsAnswered`: an acknowledgement in the inbox is of this start
    (`OfThisStart`), because a start opens a new socket. It needs no assumption.
  * `DvapControl`, `ConfirmedLinksAreTrue`: at each step of an exchange the datagrams that wait answer
    what this exchange asked (`AtHash`, `AtStatus`), or nobody is asking (`AtRest`, `LoggedOut`); so what
    is cached as confirmed (`CacheIsTrue`) is what the gateway said after its last change.
  * `Doctor`, `DoctorTellsTheTruth`: what a probe found is true of the radio as long as the probe holds
    the port (`Found`), and the radio is keyed only in the mode that was agreed to (`AskedFirst`,
    `OpensAndKeys`, `InItsMode`).
  * `RxTaps`, `FramesAreTapped`: an open segment ends with the last frame read, of the over in
    progress (`EndsNow`), and all of a segment has passed (`Filed`); what waits for a listener is a gapless end of what it could have
    heard (`NearLive`), which taking from its head, dropping from its head and adding at its end keep.
    It is for `TxFits` false: an over of one's own that fits between two reads joins two segments.
  * `MultimonPipe`, `MumbleLinks`, `DstarLink`, `DvDongle`, `Shutdown`: one of each at a time, and nothing
    of the last one left (`ReflectorLinkIsWhole` adds that the link shown is the link held); a bridge that is being stopped is counted by its request's step, a port by
    its generation, a step of the stop by the steps before it.
* `MCStation`. `CarriersAreHeld`, `RadioStaysAsTold`, `StationLetsGo`, `StationShowsTheTruth`,
  `TuningStaysCareful` and `StepsStayCareful` are `CarrierIsHeld`, `RadioIsAsTold`, `OneAtATime`,
  `ShownIsTrue`, `TuningIsCareful` and `StepsAreCareful` of the whole station: a step of the station is a step of the part that runs, and a
  stutter of the part is one of the station (`StepsAreOfAPart`), so each part's theorem holds while it
  runs. `FaultsAssumption` collects what the parts' theorems assume, and is what the table of faults says
  one cannot do without: no scan priority while a scan is replaced, one tuning, one RSSI-keying, one
  kv4p-keying thread and one route that switches the second receiver, no `"late"` answer of the dongle,
  no `"quick"` join in Mumble, no `"ack_lies"` of the storage, no `"drop_lost"`, no `"late"` datagram of the gateway's remote control,
  one keyer that the ledger hears, settings that can be written and built, a demand that the
  controller keeps while the stop goes on. `LinkWindow <= LinkHelloWindow` is the firmware's:
  `DEFAULT_WINDOW_SIZE` is its own buffer, which it announces. `RadioStaysAsTold` also assumes
  `~FmLateAnswers`, in its statement and not in `FaultsAssumption`: `progress` has late answers.

The joint theorems have corollaries for the single properties that the runs check.

Only model-checked: liveness (`SlotComesBack`, `ReceiverResumes`, `CarrierDrops`, `StopsEnd`, the fair
refinement, `progress`), which is beyond the prover, and of `station` the properties `WiresAreTrue`,
`OversAreWhole` and `TypeOK`: each has at least one part that says what a fold or a filter over a
sequence computes (the deframers, the dock's messages, the D-STAR streams), whose induction the prover
cannot instantiate. Of their conjuncts those of `Uvk5Wire`, `KvLink`'s credits,
`StreamingId`'s and those of `RxTaps` are proved with the theorems above.

## 5. Not modelled

* `backends/base.py`, `mock.py`, `factory.py`, `signalink_v71.py`: protocol, double, construction, stub.
* `config/spec.py`: a table of keys with their converters. `config/secrets.py`, `enroll.py`: read or
  printed once.
* `doctor.py`'s first-start wizard, link test and listings; `logsafe.py`: linear I/O.
* Speech, Morse and tone synthesis, HTTP fetches, Opus, resampling: audio and I/O.
* Read-only routes, request authentication, static files, the React client, `scripts/` (benches and
  installers).
* `TotRadio.close` and `ScanEngine.sweep`: sequential, and what they do is a subset of what is modelled.

What would come next: the parts of `MCStation` composed with the core at the calls that join them
(`TxKeying` over `TotRadio` over `DockTuner`), and a theorem for `DstarOver` (an ended stream never keys).
