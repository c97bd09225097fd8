------------------------------ MODULE Shutdown ------------------------------
(***************************************************************************)
(* The way out of the process: the graceful window of __main__, the        *)
(* lifespan of api/app.py with DStarBridge._teardown, MumbleBridge.stop *)
(* and RadioHolder.stop in it, and the interpreter's exit.                 *)
(*                                                                         *)
(* The steps run on the event loop, one after the other.  A step that may  *)
(* block runs its call on a daemon thread under a deadline (call_bounded)  *)
(* and walks away when it expires.  A capture read and a decode run on the *)
(* worker of a pool, and the interpreter joins those when it exits.        *)
(* Meanwhile the sockets that the graceful window cancelled unwind.        *)
(*                                                                         *)
(* A deadline is longer than any call that returns: it expires on a call   *)
(* to a device that does not answer any more, and on no other.             *)
(***************************************************************************)
EXTENDS Naturals, Sequences

CONSTANTS Parts,       \* what may be up: "dstar", "mumble"
          Demanders,   \* who has the receive pump up: "dstar", "mumble",
                       \* "controller", "socket"
          Keyers,      \* who keys: "dstar", "mumble", "web", "post"
          Wedges,      \* calls that may never return, by what they wait for:
                       \* "codec", "codec_close", "ptt", "close", "capture"
          StepFaults   \* steps that may raise: "dvap", "scan", "decoder"

VARIABLES
    pc,        \* the step of the way out
    asking,    \* the bounded call of the step has been made
    up,        \* the parts that are up
    demand,    \* who still has the receive pump up
    pump,      \* the receive pump's task is there
    waiting,   \* the callers of its stop that wait for the read
    calls,     \* calls on threads that have not returned
    keyer,     \* who transmits
    line,      \* the push-to-talk line is asserted
    wedged,    \* the devices that do not answer
    asked      \* the parts that have been asked to close

vars == <<pc, asking, up, demand, pump, waiting, calls, keyer, line, wedged, asked>>

Steps == <<"serving", "graceful", "unkey", "codec", "dstar", "dstar_rx", "dvap",
           "mumble", "mumble_rx", "ptt_off", "scan", "pump", "reader", "decoder",
           "close", "ledger", "exiting", "exited">>

At(step) == CHOOSE i \in 1..Len(Steps) : Steps[i] = step
After(step) == Steps[At(step) + 1]
Reached(step) == At(pc) >= At(step)

\* What a call waits for; who is joined by the interpreter.
Device == [c \in {"codec.close", "codec.decode", "ptt.off", "radio.close",
                  "capture.read"} |->
              CASE c = "codec.decode" -> "codec"
                [] c = "codec.close" -> "codec_close"
                [] c = "ptt.off" -> "ptt"
                [] c = "radio.close" -> "close"
                [] c = "capture.read" -> "capture"]
\* Every bounded call on an executor's worker.
ExecutorCalls == DOMAIN Device

PoolCalls == {"codec.decode", "capture.read"}

Init ==
    /\ pc = "serving"
    /\ asking = FALSE
    /\ up \in SUBSET Parts
    /\ demand = {d \in Demanders : d \in Parts => d \in up}
    /\ pump = (demand # {})
    /\ waiting = {}
    /\ calls = {}
    /\ keyer = "none"
    /\ line = FALSE
    /\ wedged \in SUBSET Wedges
    /\ asked = {}

-----------------------------------------------------------------------------
(* What goes on around the steps. *)

Living(k) ==
    CASE k = "dstar"  -> "dstar" \in up /\ ~Reached("codec")
      [] k = "mumble" -> "mumble" \in up /\ ~Reached("mumble_rx")
      [] k \in {"web", "post"} -> ~Reached("unkey")

KeyUp(k) ==
    /\ keyer = "none" /\ ~line
    /\ Living(k)
    /\ keyer' = IF k = "post" THEN "none" ELSE k
    /\ line' = TRUE
    /\ UNCHANGED <<pc, asking, up, demand, pump, waiting, calls, wedged, asked>>

\* A web talker's session also ends when its socket unwinds.
KeyDown ==
    /\ keyer # "none"
    /\ Living(keyer) \/ keyer = "web"
    /\ "ptt" \notin wedged
    /\ keyer' = "none"
    /\ line' = FALSE
    /\ UNCHANGED <<pc, asking, up, demand, pump, waiting, calls, wedged, asked>>

CaptureRead ==
    /\ pump
    /\ keyer = "none"
    /\ "capture.read" \notin calls
    /\ calls' = calls \cup {"capture.read"}
    /\ UNCHANGED <<pc, asking, up, demand, pump, waiting, keyer, line, wedged, asked>>

Decode ==
    /\ "dstar" \in up /\ ~Reached("codec")
    /\ "codec.decode" \notin calls
    /\ calls' = calls \cup {"codec.decode"}
    /\ UNCHANGED <<pc, asking, up, demand, pump, waiting, keyer, line, wedged, asked>>

\* A call returns if its device answers; the end of ptt(False) and of
\* radio.close() is a line that is down.
CallReturns(c) ==
    /\ c \in calls
    /\ Device[c] \notin wedged
    /\ calls' = calls \ {c}
    /\ line' = IF c \in {"ptt.off", "radio.close"} THEN FALSE ELSE line
    /\ UNCHANGED <<pc, asking, up, demand, pump, waiting, keyer, wedged, asked>>

-----------------------------------------------------------------------------
(* RxPump.stop. *)

\* The first caller takes the task away and waits for the read; another one
\* finds no task and returns at once.
StopPump(who) ==
    /\ pump' = FALSE
    /\ waiting' = IF pump THEN waiting \cup {who} ELSE waiting

ReadIsOut == "capture.read" \notin calls \/ "capture" \in wedged

StopReturns(who) ==
    /\ who \in waiting
    /\ ReadIsOut
    /\ waiting' = waiting \ {who}

\* _release_rx: the last one out stops the pump.
ReleaseRx(who) ==
    /\ demand' = demand \ {who}
    /\ IF who \in demand /\ demand' = {} THEN StopPump(who)
       ELSE UNCHANGED <<pump, waiting>>

\* A cancelled socket unwinds: its listener lets the pump go.
SocketUnwinds ==
    /\ Reached("unkey")
    /\ pc # "exited"
    /\ "socket" \in demand
    /\ ReleaseRx("socket")
    /\ UNCHANGED <<pc, asking, up, calls, keyer, line, wedged, asked>>

SocketReturns ==
    /\ StopReturns("socket")
    /\ UNCHANGED <<pc, asking, up, demand, pump, calls, keyer, line, wedged, asked>>

-----------------------------------------------------------------------------
(* The steps. *)

Moves == pc' = After(pc)

Signal ==
    /\ pc \in {"serving", "graceful"}
    /\ Moves
    /\ UNCHANGED <<asking, up, demand, pump, waiting, calls, keyer, line, wedged, asked>>

\* _force_unkey: straight to the line, on the loop, before the codec.
Unkeyed == line' = FALSE

ForceUnkey ==
    /\ pc = "unkey"
    /\ "dstar" \in up => "ptt" \notin wedged
    /\ Moves
    /\ IF "dstar" \in up
       THEN /\ Unkeyed
            /\ keyer' = IF keyer = "dstar" THEN "none" ELSE keyer
       ELSE UNCHANGED <<keyer, line>>
    /\ UNCHANGED <<asking, up, demand, pump, waiting, calls, wedged, asked>>

\* call_bounded: the call goes to a daemon thread; the loop moves on when
\* it has returned, and at the deadline of one that does not.
Bounded(step, c, needed) ==
    /\ pc = step
    /\ \/ /\ ~needed /\ ~asking
          /\ Moves
          /\ UNCHANGED <<asking, calls, asked>>
       \/ /\ needed /\ ~asking
          /\ asking' = TRUE
          /\ calls' = calls \cup {c}
          /\ asked' = asked \cup {step}
          /\ UNCHANGED pc
       \/ /\ asking
          /\ c \notin calls \/ Device[c] \in wedged
          /\ asking' = FALSE
          /\ Moves
          /\ UNCHANGED <<calls, asked>>
    /\ UNCHANGED <<up, demand, pump, waiting, keyer, line, wedged>>

CodecClose == Bounded("codec", "codec.close", "dstar" \in up)


\* A step that asks a part to close and waits for nothing.  One that raises
\* is logged, and the next step is taken.
Asked(step) == asked' = asked \cup {step} /\ Moves

AskStep(step) ==
    /\ pc = step
    /\ Asked(step)
    /\ UNCHANGED <<asking, up, demand, pump, waiting, calls, keyer, line, wedged>>

\* The tasks of a bridge are cancelled and joined; then its demand goes.
StopBridge(step, who) ==
    /\ pc = step
    /\ Moves
    /\ asked' = asked \cup {step}
    /\ IF who \in up
       THEN /\ ReleaseRx(who)
            /\ keyer' = IF keyer = who THEN "none" ELSE keyer
            /\ line' = IF keyer = who THEN FALSE ELSE line
       ELSE UNCHANGED <<demand, pump, waiting, keyer, line>>
    /\ UNCHANGED <<asking, up, calls, wedged>>

BridgeReturns(step, who) ==
    /\ pc = step
    /\ Moves
    /\ IF who \in waiting THEN StopReturns(who) ELSE UNCHANGED waiting
    /\ UNCHANGED <<asking, up, demand, pump, calls, keyer, line, wedged, asked>>

\* The holder drops the line if the arbiter says that somebody transmits.
ArbiterTransmits == keyer # "none"

PttOff == Bounded("ptt_off", "ptt.off", ArbiterTransmits)

PumpStop ==
    /\ pc = "pump"
    /\ Moves
    /\ StopPump("holder")
    /\ asked' = asked \cup {"pump"}
    /\ UNCHANGED <<asking, up, demand, calls, keyer, line, wedged>>

ReaderJoin ==
    /\ pc = "reader"
    /\ Moves
    /\ IF "holder" \in waiting THEN StopReturns("holder") ELSE UNCHANGED waiting
    /\ UNCHANGED <<asking, up, demand, pump, calls, keyer, line, wedged, asked>>

RadioClose == Bounded("close", "radio.close", TRUE)

\* The interpreter joins the workers of the pools, with no deadline.
InterpreterExit ==
    /\ pc = "exiting"
    /\ calls \cap PoolCalls = {}
    /\ Moves
    /\ line' = FALSE
    /\ UNCHANGED <<asking, up, demand, pump, waiting, calls, keyer, wedged, asked>>

Step ==
    \/ Signal \/ ForceUnkey \/ CodecClose
    \/ StopBridge("dstar", "dstar") \/ BridgeReturns("dstar_rx", "dstar")
    \/ AskStep("dvap")
    \/ StopBridge("mumble", "mumble") \/ BridgeReturns("mumble_rx", "mumble")
    \/ PttOff \/ AskStep("scan") \/ PumpStop \/ ReaderJoin \/ AskStep("decoder")
    \/ RadioClose \/ AskStep("ledger") \/ InterpreterExit

Next ==
    \/ Step
    \/ \E k \in Keyers : KeyUp(k)
    \/ KeyDown \/ CaptureRead \/ Decode \/ SocketUnwinds \/ SocketReturns
    \/ \E c \in DOMAIN Device : CallReturns(c)

Spec == Init /\ [][Next]_vars

\* The loop takes the steps, the sockets' tasks run, and a device that
\* answers answers.
FairSpec ==
    /\ Spec
    /\ WF_vars(Step)
    /\ WF_vars(SocketUnwinds) /\ WF_vars(SocketReturns)
    /\ \A c \in DOMAIN Device : WF_vars(CallReturns(c))

-----------------------------------------------------------------------------
TypeOK ==
    /\ \E i \in 1..Len(Steps) : pc = Steps[i]
    /\ asking \in BOOLEAN
    /\ up \subseteq Parts
    /\ demand \subseteq Demanders
    /\ pump \in BOOLEAN
    /\ waiting \subseteq Demanders \cup {"holder"}
    /\ calls \subseteq DOMAIN Device
    /\ keyer \in Keyers \cup {"none"}
    /\ line \in BOOLEAN
    /\ wedged \subseteq Wedges

\* While the loop waits for the codec, the D-STAR side's carrier is down: a
\* codec that does not answer holds no transmitter keyed.
NoCarrierWaitsForTheCodec ==
    pc \in {"codec", "dstar"} => keyer # "dstar" /\ (line => keyer # "none")

\* The radio is closed when no capture read is in the driver any more, but
\* for one that will never come back.
ReadIsOutOfTheDriver ==
    "close" \in asked /\ "capture.read" \in calls => "capture" \in wedged

\* Whatever raised, and whatever did not answer, every step has been taken
\* by the exit.
EveryStepIsTaken ==
    pc = "exited" => {"dstar", "dvap", "mumble", "scan", "pump", "decoder",
                      "close", "ledger"} \subseteq asked

\* The line is down when the radio's scan is stopped, whoever held the
\* transmitter, unless the radio does not answer.
NobodyIsLeftKeyed == Reached("scan") /\ line => "ptt" \in wedged

\* A stop ends in an exit.
Stopping == pc = "unkey"
Exited == pc = "exited"
ProcessExits == Stopping ~> Exited

-----------------------------------------------------------------------------
(* Why, while the controller has the receive pump up and nobody keys by      *)
(* POST: the pump stays up until the holder stops it and waits for its read, *)
(* and a line that is asserted has a keyer who still lives, or one the       *)
(* holder's own unkeying finds.                                              *)
ExitAssumption ==
    /\ Keyers \subseteq {"dstar", "mumble", "web"}
    /\ "controller" \in Demanders \ Parts

Taken ==
    /\ Reached("dstar_rx") => "dstar" \in asked
    /\ Reached("mumble") => "dvap" \in asked
    /\ Reached("mumble_rx") => "mumble" \in asked
    /\ Reached("pump") => "scan" \in asked
    /\ Reached("reader") => "pump" \in asked
    /\ Reached("close") => "decoder" \in asked
    /\ Reached("ledger") => "close" \in asked
    /\ Reached("exiting") => "ledger" \in asked

\* Which bounded call is being waited for.
Waits ==
    /\ asking => pc \in {"codec", "ptt_off", "close"}
    /\ pc = "close" /\ asking => "close" \in asked
    /\ "close" \in asked => Reached("close")

Reads ==
    /\ "controller" \in demand
    /\ pump <=> ~Reached("reader")
    /\ waiting = IF pc = "reader" THEN {"holder"} ELSE {}
    /\ Reached("decoder") => ReadIsOut

Keyed ==
    /\ line => keyer # "none"
    /\ keyer = "dstar" => "dstar" \in up /\ ~Reached("codec")
    /\ keyer = "mumble" => "mumble" \in up /\ ~Reached("mumble_rx")
    /\ pc = "ptt_off" /\ asking /\ line => "ptt.off" \in calls
    /\ NobodyIsLeftKeyed

OnTheWay == \E i \in 1..Len(Steps) : pc = Steps[i]

IInv == OnTheWay /\ Taken /\ Waits /\ Reads /\ Keyed
=============================================================================
