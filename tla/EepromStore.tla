----------------------------- MODULE EepromStore ----------------------------
(***************************************************************************)
(* Storing a channel in a UV-K5 by reading and writing its EEPROM over the *)
(* dock and rebooting it onto the channel (EepromTuner in backends/uvk5/   *)
(* tuner.py, the layout in vfo.py).  Every conversation needs a session    *)
(* that a reboot ends, and every exchange is tried once more after a fresh *)
(* handshake.                                                              *)
(***************************************************************************)
EXTENDS Naturals, Sequences, FiniteSets

CONSTANTS
    Images,         \* VFO images
    Bands,          \* bands of the radio
    BandOf(_),      \* VfoImage.band
    HelloAttempts,  \* REBOOT_HELLO_ATTEMPTS
    MaxJobs,        \* bound on the channels stored
    MaxFaults,      \* bound on the faults
    StoreFaults     \* {"lost", "power", "locked", "ack_lies"}

Nothing == "nothing"
VFOs == {0, 1}

VARIABLES
    rom,      \* the EEPROM: attributes, two VFO records a band, the boot band
    radio,    \* the channel the radio runs, its session, its lock screen
    job,      \* what is being stored, the step, retries and what was read
    ok,       \* _session_ok
    jobs, faults

vars == <<rom, radio, job, ok, jobs, faults>>

Boots(r) == r.rec[r.boot][0]
Fault(kind) == kind \in StoreFaults /\ faults < MaxFaults /\ faults' = faults + 1
Fresh(pc, image, how, hellos) ==
    [pc |-> pc, image |-> image, step |-> 1, retried |-> FALSE, hellos |-> hellos,
     how |-> how, back |-> "read"]
NoJob == Fresh("idle", Nothing, "store", 0)

Init ==
    /\ \E image \in Images :
          rom = [attr |-> {BandOf(image)}, boot |-> BandOf(image),
                 rec |-> [b \in Bands |-> [v \in VFOs |-> IF b = BandOf(image) THEN image ELSE Nothing]]]
    /\ radio = [runs |-> Boots(rom), session |-> FALSE, locked |-> FALSE]
    /\ job = NoJob /\ ok = FALSE /\ jobs = 0 /\ faults = 0

\* What write_channel patches, in order, and then reads back; the read after
\* the reboot is the last of an apply.
Holds(step) ==
    LET band == BandOf(job.image) IN
    CASE step = 1 -> band \in rom.attr
      [] step = 2 -> rom.rec[band][0] = job.image
      [] step = 3 -> rom.rec[band][1] = job.image
      [] step = 4 -> rom.boot = band
      [] step \in {5, 7} -> rom.rec[band][0] = job.image
      [] step = 6 -> rom.rec[band][1] = job.image
Patched(step) ==
    LET band == BandOf(job.image) IN
    CASE step = 1 -> [rom EXCEPT !.attr = @ \cup {band}]
      [] step = 2 -> [rom EXCEPT !.rec[band][0] = job.image]
      [] step = 3 -> [rom EXCEPT !.rec[band][1] = job.image]
      [] step = 4 -> [rom EXCEPT !.boot = band]

Goes(pc) == job' = [job EXCEPT !.pc = pc]
Fails == job' = NoJob
Moves == job' = IF job.step = 6 /\ job.how = "apply" THEN [job EXCEPT !.pc = "reset", !.step = 7]
                ELSE IF job.step >= 6 THEN Fresh("stored", job.image, job.how, 0)
                ELSE [job EXCEPT !.pc = "read", !.step = @ + 1, !.retried = FALSE]

\* HybridTuner stores; EepromTuner applies, which is a store, a reset and a look.
Begins(image, how) ==
    /\ job.pc \in {"idle", "stored"} /\ jobs < MaxJobs
    /\ jobs' = jobs + 1 /\ ok' = FALSE
    /\ job' = Fresh("hello", image, how, 1)
    /\ UNCHANGED <<rom, radio, faults>>

\* A handshake: answered, refused by a locked radio, or unanswered so often.
Hello ==
    /\ job.pc = "hello"
    /\ \/ /\ ~radio.locked /\ radio' = [radio EXCEPT !.session = TRUE] /\ ok' = TRUE
          /\ Goes(job.back) /\ UNCHANGED faults
       \/ radio.locked /\ ok' = FALSE /\ Fails /\ UNCHANGED <<radio, faults>>
       \/ /\ Fault("lost") /\ ok' = FALSE
          /\ radio' \in {radio, [radio EXCEPT !.session = ~radio.locked]}
          /\ IF job.hellos > 1 THEN job' = [job EXCEPT !.hellos = @ - 1] ELSE Fails
    /\ UNCHANGED <<rom, jobs>>

\* An exchange that gets no answer shakes hands once more and tries again.
Unanswered(back) ==
    /\ ok' = FALSE
    /\ IF job.retried THEN Fails
       ELSE job' = [job EXCEPT !.pc = "hello", !.hellos = 1, !.retried = TRUE, !.back = back]

\* A store that writes every record.
ReadBeforeWriting ==
    /\ job.pc = "read"
    /\ \/ /\ radio.session /\ UNCHANGED <<ok, faults>>
          /\ IF job.step <= 4 THEN Goes("write")
             ELSE IF Holds(job.step) THEN Moves ELSE Fails
       \/ ~radio.session /\ Unanswered("read") /\ UNCHANGED faults
       \/ Fault("lost") /\ Unanswered("read")
    /\ UNCHANGED <<rom, radio, jobs>>

\* What already holds is not written; a read-back that differs is an error.
Read ==
    /\ job.pc = "read"
    /\ \/ /\ radio.session /\ UNCHANGED <<ok, faults>>
          /\ IF job.step <= 4 THEN IF Holds(job.step) THEN Moves ELSE Goes("write")
             ELSE IF Holds(job.step) THEN Moves ELSE Fails
       \/ ~radio.session /\ Unanswered("read") /\ UNCHANGED faults
       \/ Fault("lost") /\ Unanswered("read")
    /\ UNCHANGED <<rom, radio, jobs>>

Write ==
    /\ job.pc = "write"
    /\ \/ radio.session /\ rom' = Patched(job.step) /\ Moves /\ UNCHANGED <<ok, faults>>
       \/ radio.session /\ Fault("ack_lies") /\ Moves /\ UNCHANGED <<rom, ok>>
       \/ ~radio.session /\ Unanswered("write") /\ UNCHANGED <<rom, faults>>
       \/ /\ Fault("lost") /\ Unanswered("write")
          /\ rom' \in IF radio.session THEN {rom, Patched(job.step)} ELSE {rom}
    /\ UNCHANGED <<radio, jobs>>

\* The reset is sent and not answered: the settle time, then four handshakes.
Reset ==
    /\ job.pc = "reset"
    /\ \/ radio' = [radio EXCEPT !.runs = Boots(rom), !.session = FALSE] /\ UNCHANGED faults
       \/ Fault("lost") /\ UNCHANGED radio
    /\ ok' = FALSE
    /\ job' = [job EXCEPT !.pc = "hello", !.hellos = HelloAttempts, !.retried = FALSE, !.back = "read"]
    /\ UNCHANGED <<rom, jobs>>

PowerCycle ==
    /\ Fault("power")
    /\ radio' = [radio EXCEPT !.runs = Boots(rom), !.session = FALSE]
    /\ UNCHANGED <<rom, job, ok, jobs>>

Locks ==
    /\ Fault("locked") /\ radio' = [radio EXCEPT !.locked = TRUE, !.session = FALSE]
    /\ UNCHANGED <<rom, job, ok, jobs>>

Next ==
    \/ \E image \in Images, how \in {"store", "apply"} : Begins(image, how)
    \/ Hello \/ Read \/ Write \/ Reset \/ PowerCycle \/ Locks

Spec == Init /\ [][Next]_vars

TypeOK ==
    /\ rom \in [attr : SUBSET Bands, boot : Bands, rec : [Bands -> [VFOs -> Images \cup {Nothing}]]]
    /\ radio \in [runs : Images, session : BOOLEAN, locked : BOOLEAN]
    /\ job \in [pc : {"idle", "hello", "read", "write", "reset", "stored"},
                image : Images \cup {Nothing}, step : 1 .. 7, retried : BOOLEAN,
                hellos : 0 .. HelloAttempts, how : {"store", "apply"}, back : {"read", "write"}]
    /\ ok \in BOOLEAN /\ jobs \in 0 .. MaxJobs /\ faults \in 0 .. MaxFaults

\* A store that returned has the channel in both VFOs of its band, with its
\* attribute, and the radio will boot onto it.
StoredIsStored ==
    job.pc = "stored" =>
        LET band == BandOf(job.image) IN
        /\ \A v \in VFOs : rom.rec[band][v] = job.image
        /\ band \in rom.attr /\ rom.boot = band

\* Switched off at any moment, the radio comes up on a whole channel, in a band
\* that its attributes know: the boot band moves last.
BootsWhole == Boots(rom) \in Images /\ rom.boot \in rom.attr

\* The radio is reset only onto what was read back.
ResetsToTheImage == Reset /\ radio' # radio => radio'.runs = job.image
ResetsOntoTheChannel == [][ResetsToTheImage]_vars

\* A radio that answers is not written what it already holds, so that flash is
\* not worn by setting a channel again.
WritesAChange == Write /\ ~job.retried => ~Holds(job.step)
WritesOnlyWhatDiffers == [][WritesAChange]_vars

-----------------------------------------------------------------------------
(* For any images, bands and number of channels, when a write that is      *)
(* acknowledged was done: what the steps behind a store have put there.    *)
StoreAssumption ==
    /\ \A image \in Images : BandOf(image) \in Bands
    /\ HelloAttempts \in Nat
    /\ "ack_lies" \notin StoreFaults

TypedRom ==
    rom \in [attr : SUBSET Bands, boot : Bands, rec : [Bands -> [VFOs -> Images \cup {Nothing}]]]
TypedJob ==
    job \in [pc : {"idle", "hello", "read", "write", "reset", "stored"},
             image : Images \cup {Nothing}, step : 1 .. 7, retried : BOOLEAN,
             hellos : Nat, how : {"store", "apply"}, back : {"read", "write"}]
TypedRadio == radio \in [runs : Images, session : BOOLEAN, locked : BOOLEAN]

\* Where a conversation stands, and where a handshake goes back to.
Busy == job.pc \in {"hello", "read", "write", "reset"}
Stands ==
    /\ Busy \/ job.pc = "stored" => job.image \in Images
    /\ job.pc = "reset" => job.step = 7
    /\ job.pc = "write" \/ (job.pc = "hello" /\ job.back = "write") => job.step <= 4
    /\ job.pc = "hello" /\ job.back = "write" => job.retried

\* Every step behind the present one holds, and none undoes an earlier one.
Behind ==
    LET band == BandOf(job.image) IN
    Busy =>
        /\ job.step > 1 => band \in rom.attr
        /\ job.step > 2 => rom.rec[band][0] = job.image
        /\ job.step > 3 => rom.rec[band][1] = job.image
        /\ job.step > 4 => rom.boot = band

\* A write that is not a second attempt is of what the read found different.
Differs == job.pc = "write" /\ ~job.retried => ~Holds(job.step)

OnTheWay == TypedRom /\ TypedJob /\ Stands /\ Behind /\ Differs /\ BootsWhole /\ StoredIsStored
IInv == TypedRadio /\ OnTheWay
=============================================================================
