------------------------------- MODULE Doctor -------------------------------
(***************************************************************************)
(* The diagnostic (doctor.py): one run of one mode against one radio.  Its *)
(* tests key a transmitter and write registers, so that what it leaves     *)
(* behind, and the exit code and the diagnosis it ends with, are what      *)
(* matters, whatever fails on the way and wherever it is interrupted.      *)
(***************************************************************************)
EXTENDS Naturals, FiniteSets

CONSTANTS
    Firmwares,     \* "dock", "classic_dock", "stock", "kiss", "pre_kiss", "dead"
    MaxReads,      \* readings of a listening mode
    DoctorFaults   \* {"unread", "force_unsure", "unseen", "drop_lost"}

VARIABLES
    world,  \* what the run meets: the terminal, the operator, the radio, ...
    run,    \* the run: mode, step, exit code, diagnosis
    radio,  \* keyed, and its registers
    port,   \* the doctor has the port open
    aired,  \* the radio has transmitted
    heard,  \* readings that carried something, and all
    faulted

vars == <<world, run, radio, port, aired, heard, faulted>>

Backends == {"baofeng", "kv4p", "uvk5"}
Keying == {"key_test", "tx_tone"}
Listening == {"rx_level", "rssi", "dtmf", "rx_capture"}
Modes == Keying \cup Listening \cup {"checks", "rx_noise"}
Docks == {"dock", "classic_dock"}
Registers == {"r30", "r37", "r47", "r48"}
None == "none"
NoExit == 9
Interrupted == 3
Fault(kind) == kind \in DoctorFaults /\ ~faulted /\ faulted' = TRUE

Init ==
    /\ world \in [tty : BOOLEAN, confirms : BOOLEAN, config : BOOLEAN, free : BOOLEAN,
                  firmware : Firmwares, known : BOOLEAN, keys : BOOLEAN, hears : BOOLEAN]
    /\ run \in [mode : Modes, backend : Backends, pc : {"main"}, exit : {NoExit}, says : {None}]
    /\ radio = [keyed |-> FALSE, regs |-> [r \in Registers |-> "found"], cache |-> {}]
    /\ port = FALSE /\ aired = FALSE /\ heard = [some |-> 0, all |-> 0] /\ faulted = FALSE

At(pc) == run.pc = pc
To(pc) == run' = [run EXCEPT !.pc = pc]
Exits(code) == run' = [run EXCEPT !.pc = "exited", !.exit = code]
Says(what, code) == run' = [run EXCEPT !.pc = "exited", !.exit = code, !.says = what]

\* The radio answers the host: the line of an AIOC always does.
Answers ==
    CASE run.backend = "baofeng" -> TRUE
      [] run.backend = "kv4p" -> world.firmware = "kiss"
      [] run.backend = "uvk5" -> world.firmware \in Docks

\* ---- main() and what each mode asks before it touches the radio ----
Skips ==
    \/ run.mode = "rx_noise" /\ run.backend # "uvk5"
    \/ run.mode = "rssi" /\ run.backend = "kv4p"

main ==
    /\ At("main")
    /\ CASE ~world.config -> Exits(1)
         [] world.config /\ Skips -> Exits(2)
         [] world.config /\ ~Skips /\ run.mode \in Keying /\ ~world.tty -> Exits(2)
         [] world.config /\ ~Skips /\ run.mode \in Keying /\ world.tty /\ ~world.confirms -> Exits(1)
         [] OTHER -> To(IF run.mode = "checks" THEN "checks" ELSE "open")
    /\ UNCHANGED <<world, radio, port, aired, heard, faulted>>

\* A port that another process has claimed, or a radio that does not answer.
build_backend ==
    /\ At("open")
    /\ IF world.free /\ Answers
       THEN /\ port' = TRUE
            /\ To(CASE run.mode \in Keying -> "key"
                    [] run.mode \in Listening -> "listen"
                    [] run.mode = "rx_noise" -> "cache")
       ELSE Exits(1) /\ UNCHANGED port
    /\ UNCHANGED <<world, radio, aired, heard, faulted>>

\* ---- the checks: the serial port, then the connect probe ----
check_serial ==
    /\ At("checks")
    /\ IF ~world.free THEN Says("busy", 1) /\ UNCHANGED port
       ELSE IF run.backend = "baofeng" THEN Says("ready", 0) /\ UNCHANGED port
       ELSE To("connect") /\ port' = TRUE
    /\ UNCHANGED <<world, radio, aired, heard, faulted>>

\* The second probe opens the port itself; the first one lets go of it before,
\* but only when its own elicit failed.
Elicits == ~port' /\ world.free

kv4p_connect_probe ==
    /\ At("connect") /\ run.backend = "kv4p"
    /\ port' = FALSE
    /\ IF Answers THEN Says("ready", 0)
       ELSE Says(IF Elicits /\ world.firmware = "pre_kiss" THEN "pre_kiss" ELSE "silent", 1)
    /\ UNCHANGED <<world, radio, aired, heard, faulted>>

uvk5_connect_probe ==
    /\ At("connect") /\ run.backend = "uvk5"
    /\ IF Answers THEN To("version") /\ UNCHANGED port
       ELSE /\ port' = FALSE
            /\ Says(IF Elicits /\ world.firmware = "stock" THEN "stock" ELSE "silent", 1)
    /\ UNCHANGED <<world, radio, aired, heard, faulted>>

\* The version: asked for while the transport still has the port claimed.
hello_probe ==
    /\ At("version")
    /\ Says(IF ~port /\ world.firmware = "classic_dock" THEN "version" ELSE "unread", 0)
    /\ port' = FALSE
    /\ UNCHANGED <<world, radio, aired, heard, faulted>>

\* ---- keying: the line, the register or the command; then hold, then drop ----
Refuses == ~world.keys \/ (run.backend = "uvk5" /\ ~world.known)

KeyUp ==
    /\ At("key")
    /\ \/ /\ Refuses /\ (run.backend # "baofeng" \/ run.mode = "tx_tone")
          /\ Exits(1) /\ port' = FALSE /\ UNCHANGED <<radio, aired, faulted>>
       \/ /\ Refuses /\ run.backend = "baofeng" /\ run.mode = "key_test"   \* the wrong line
          /\ To("hold") /\ UNCHANGED <<radio, aired, port, faulted>>
       \/ /\ ~Refuses
          /\ radio' = [radio EXCEPT !.keyed = TRUE] /\ aired' = TRUE
          /\ To("hold") /\ UNCHANGED <<port, faulted>>
       \/ /\ ~Refuses /\ run.mode = "key_test" /\ run.backend # "baofeng"
          /\ Fault("unseen")                      \* keyed, and not reported as such
          /\ radio' = [radio EXCEPT !.keyed = TRUE] /\ aired' = TRUE
          /\ To("unseen") /\ UNCHANGED port
    /\ UNCHANGED <<world, heard>>

\* The hold ends, or is interrupted: the way out drops the carrier and closes.
KeyDown ==
    /\ run.pc \in {"hold", "unseen"}
    /\ \/ radio' = [radio EXCEPT !.keyed = FALSE] /\ UNCHANGED faulted
       \/ /\ Fault("drop_lost") /\ UNCHANGED radio
          /\ run.mode = "key_test" /\ run.backend # "baofeng"
    /\ \/ run.pc = "unseen" /\ Exits(1)
       \/ /\ run.pc = "hold"
          /\ IF run.mode = "key_test" /\ run.backend # "baofeng"
             THEN Exits(IF radio'.keyed THEN 1 ELSE 0)
             ELSE To("ask")
       \/ run.pc = "hold" /\ Exits(Interrupted)
    /\ port' = FALSE
    /\ UNCHANGED <<world, aired, heard>>

\* What the operator saw, or heard on another radio, decides.
Asks ==
    /\ At("ask")
    /\ Exits(IF aired THEN 0 ELSE 1)
    /\ UNCHANGED <<world, radio, port, aired, heard, faulted>>

\* ---- listening: readings until the time is over ----
Listens ==
    /\ At("listen") /\ heard.all < MaxReads
    /\ \E some \in {0} \cup {IF world.hears THEN 1 ELSE 0} :
        heard' = [some |-> heard.some + some, all |-> heard.all + 1]
    /\ UNCHANGED <<world, run, radio, port, aired, faulted>>
\* The end, or an interruption; each mode has its own idea of having heard.
Finishes(mode, ok) ==
    /\ At("listen") /\ run.mode = mode
    /\ port' = FALSE
    /\ Exits(Interrupted) \/ Exits(IF ok THEN 0 ELSE 1)
    /\ UNCHANGED <<world, radio, aired, faulted>>

rx_level == Finishes("rx_level", heard.some > 0) /\ UNCHANGED heard
rssi_meter == Finishes("rssi", heard.some > 0) /\ UNCHANGED heard
\* What is left in the decoder's buffer is decoded too.
dtmf ==
    \E last \in {0} \cup {IF world.hears THEN 1 ELSE 0} :
        /\ heard.some + last <= MaxReads /\ heard' = [heard EXCEPT !.some = @ + last]
        /\ Finishes("dtmf", heard.some + last > 0)
\* The file may not be writable.
rx_capture ==
    \E written \in BOOLEAN : Finishes("rx_capture", heard.some > 0 /\ written) /\ UNCHANGED heard

\* ---- rx_noise: cache, force, measure, restore ----
Caches ==
    /\ At("cache")
    /\ \/ radio' = [radio EXCEPT !.cache = {"r30", "r47", "r48"}] /\ UNCHANGED faulted
       \/ Fault("unread") /\ \E lost \in {"r30", "r47", "r48"} :
            radio' = [radio EXCEPT !.cache = {"r30", "r47", "r48"} \ {lost}]
    /\ To("force")
    /\ UNCHANGED <<world, port, aired, heard>>

Forces ==
    /\ At("force")
    /\ radio' = [radio EXCEPT !.regs = [r \in Registers |-> "forced"]]
    /\ \/ To("measure") /\ UNCHANGED <<port, faulted>>
       \/ Fault("force_unsure") /\ Exits(1) /\ port' = FALSE   \* written, and an error
    /\ UNCHANGED <<world, aired, heard>>

\* A register that could not be cached gets a value that opens (r30, r48) or
\* mutes (r47) the receiver.
Restores ==
    /\ At("measure")
    /\ radio' = [radio EXCEPT !.regs =
           [r \in Registers |-> CASE r \in radio.cache -> "found"
                                  [] r = "r47" /\ r \notin radio.cache -> "muted"
                                  [] OTHER -> @[r]]]
    /\ port' = FALSE
    /\ Exits(Interrupted) \/ Exits(IF world.hears THEN 0 ELSE 1)
    /\ UNCHANGED <<world, aired, heard, faulted>>

Next ==
    \/ main \/ build_backend
    \/ check_serial \/ kv4p_connect_probe \/ uvk5_connect_probe \/ hello_probe
    \/ KeyUp \/ KeyDown \/ Asks
    \/ Listens \/ rx_level \/ rssi_meter \/ dtmf \/ rx_capture
    \/ Caches \/ Forces \/ Restores

Spec == Init /\ [][Next]_vars

Steps == {"main", "open", "checks", "connect", "version", "key", "hold", "unseen", "ask", "listen", "cache",
          "force", "measure", "exited"}
Diagnoses == {None, "busy", "ready", "silent", "stock", "pre_kiss", "version", "unread"}
Codes == {0, 1, 2, Interrupted}
Runs == [mode : Modes, backend : Backends, exit : Codes \cup {NoExit}, pc : Steps, says : Diagnoses]
Radios == [keyed : BOOLEAN, regs : [Registers -> {"found", "forced", "muted"}], cache : SUBSET Registers]

TypeOK ==
    /\ run \in Runs /\ radio \in Radios
    /\ {port, aired, faulted} \subseteq BOOLEAN /\ heard \in [some : 0 .. MaxReads, all : 0 .. MaxReads]

Exited == run.pc = "exited"

\* Whatever failed and wherever it was interrupted, the doctor leaves the radio
\* off the air and the port free, and never keyed it without an operator who
\* said so at a terminal.
LeavesItQuiet ==
    /\ Exited => ~radio.keyed /\ ~port
    /\ aired => world.tty /\ world.confirms /\ run.mode \in Keying

\* Exit code 0 says that what was tested works: the radio transmitted and is
\* off again, something was heard, the radio is the one the backend drives.
ExitIsHonest ==
    run.exit = 0 =>
        CASE run.mode \in Keying -> aired /\ ~radio.keyed
          [] run.mode \in Listening \cup {"rx_noise"} -> world.hears
          [] run.mode = "checks" -> world.free /\ Answers

\* The diagnosis names the firmware that is there.
DiagnosisIsRight ==
    (Exited /\ run.mode = "checks" /\ world.config /\ world.free) =>
        /\ run.backend = "uvk5" => (run.says = "stock" <=> world.firmware = "stock")
        /\ run.backend = "kv4p" => (run.says = "pre_kiss" <=> world.firmware = "pre_kiss")

\* Why: where the run is says what has been asked, opened and found so far.
AskedFirst ==
    /\ run.mode \in Keying /\ ~(run.pc \in {"main", "exited"}) => world.tty /\ world.confirms
    /\ aired => world.tty /\ world.confirms /\ run.mode \in Keying
OpensAndKeys ==
    /\ radio.keyed => run.pc \in {"hold", "unseen"}
    /\ port => run.pc \notin {"main", "open", "checks", "ask", "exited"}
    /\ run.pc = "hold" => aired \/ (run.backend = "baofeng" /\ run.mode = "key_test")
InItsMode ==
    /\ run.pc \in {"key", "hold", "unseen", "ask"} => run.mode \in Keying
    /\ run.pc = "listen" => run.mode \in Listening
    /\ run.pc \in {"cache", "force", "measure"} => run.mode = "rx_noise"
    /\ run.pc \in {"checks", "connect", "version"} => run.mode = "checks"
    /\ run.pc = "open" => run.mode # "checks"
Found ==
    /\ run.pc # "exited" => run.exit = NoExit
    /\ run.pc \in {"connect", "version"} => world.free
    /\ run.pc = "version" => run.backend = "uvk5" /\ Answers
    /\ heard.some > 0 => world.hears
IInv ==
    /\ run \in Runs /\ radio \in Radios /\ heard \in [some : Nat, all : Nat]
    /\ AskedFirst /\ OpensAndKeys /\ InItsMode /\ Found
    /\ LeavesItQuiet /\ ExitIsHonest /\ DiagnosisIsRight

\* A dock that answers the plaintext HELLO has its version read.
VersionIsRead == run.says = "unread" => world.firmware # "classic_dock"

\* Every register that the noise test touched is put back.
RegistersAsFound == Exited => \A r \in Registers : radio.regs[r] # "forced"
=============================================================================
