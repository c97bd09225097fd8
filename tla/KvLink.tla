------------------------------- MODULE KvLink -------------------------------
(***************************************************************************)
(* The link to a kv4p HT (backends/kv4p/transport.py): the credit window   *)
(* that every frame to the device spends from, the sequence numbers by     *)
(* which a desired state is known to be applied, the connect handshake     *)
(* that must not cost the operator's stored tuning, and close.             *)
(*                                                                         *)
(* Two threads write: the one that holds the radio, with desired states,   *)
(* and the pacer, with audio.  The device is external: it takes frames in  *)
(* order, gives their bytes back, copies a desired state whole, stores its *)
(* tuning and reports.  A frame's cost is 2 for a state and 1 for audio.   *)
(***************************************************************************)
EXTENDS Integers, Sequences, FiniteSets

CONSTANTS
    Window,       \* the window a session starts with
    HelloWindow,  \* the window a booting device announces
    MaxSequence,  \* bound on the desired states sent
    MaxReports,   \* bound on the reports under way
    LinkFaults    \* what may go wrong, one of them in a behaviour

\* Opening the port may always reset the device, which is deaf until it says
\* HELLO.  "resets": it may reset later.  "write_fails": the serial write raises.
LinkAssumption ==
    /\ {Window, HelloWindow, MaxSequence, MaxReports} \subseteq Nat /\ MaxSequence # 0
    /\ LinkFaults \subseteq {"none", "resets", "write_fails"}

VARIABLES
    host,    \* credits, window, sequence, applied, the last state reported, closed
    at,      \* where the state thread is
    wants,   \* the sequence number it waits for
    spent,   \* each thread's frame, paid for and not yet written
    out,     \* frames under way to the device
    inp,     \* reports under way to the host
    dev,     \* the device: up, applied, ptt, reports, tuned (its stored tuning), and
             \* the fault of this behaviour
    lost     \* credits whose frames no device will ever give back

vars == <<host, at, wants, spent, out, inp, dev, lost>>

Threads == {"state", "audio"}
Cost(f) == IF f.kind = "state" THEN 2 ELSE 1
NoFrame == [kind |-> "none"]
Audio == [kind |-> "audio"]
Desired(n, ptt, tuned) == [kind |-> "state", seq |-> n, ptt |-> ptt, tuned |-> tuned]
States == [kind : {"state"}, seq : 1 .. MaxSequence, ptt : BOOLEAN, tuned : BOOLEAN]
Frames == {Audio} \cup States

\* What a queue of frames costs, and what a queue of reports gives back.
Count(s, V) == Cardinality({i \in 1 .. Len(s) : s[i] \in V})
CostOf(s) == Len(s) + Count(s, States)

State == [applied : 0 .. MaxSequence, ptt : BOOLEAN, reports : BOOLEAN]
NoState == [applied |-> 0, ptt |-> FALSE, reports |-> FALSE]
Snapshot(d) == [applied |-> d.applied, ptt |-> d.ptt, reports |-> d.reports]
Refund(n) == [kind |-> "window", size |-> n]
Report(d) == [kind |-> "report", state |-> Snapshot(d)]
Hello(d) == [kind |-> "hello", state |-> Snapshot(d)]
RefundOf(s) == Count(s, {Refund(1)}) + 2 * Count(s, {Refund(2)})
Reports == [kind : {"window"}, size : {1, 2}] \cup [kind : {"report", "hello"}, state : State]

Device(up, reports, n, fault) ==
    [up |-> up, applied |-> n, ptt |-> FALSE, reports |-> reports, tuned |-> TRUE, fault |-> fault]
Silent(fault) == Device(FALSE, FALSE, 0, fault)

Init ==
    /\ host = [credits |-> Window, window |-> Window, sequence |-> 0, applied |-> 0,
               state |-> NoState, known |-> FALSE, closed |-> FALSE]
    /\ at = "passive" /\ wants = 0
    /\ spent = [t \in Threads |-> NoFrame]
    /\ out = <<>> /\ inp = <<>> /\ lost = 0
    /\ \E fault \in LinkFaults :
          dev \in {Silent(fault), Device(TRUE, FALSE, 0, fault), Device(TRUE, TRUE, 1, fault)}

-----------------------------------------------------------------------------
(* The flow-controlled write, by either thread.                            *)

\* The window has room for the frame: its cost is taken under the lock.
Spend(t, f) ==
    /\ spent[t] = NoFrame /\ host.credits >= Cost(f)
    /\ spent' = [spent EXCEPT ![t] = f]

\* The write itself, outside the lock.
Writes(t) ==
    /\ spent[t] # NoFrame
    /\ spent' = [spent EXCEPT ![t] = NoFrame]
    /\ IF dev.up THEN out' = Append(out, spent[t]) /\ UNCHANGED lost
       ELSE lost' = lost + Cost(spent[t]) /\ UNCHANGED out
    /\ UNCHANGED <<host, at, wants, inp, dev>>

\* A write that raises costs the credit all the same; the caller's wait ends.
WriteRaises(t) ==
    /\ dev.fault = "write_fails" /\ spent[t] # NoFrame
    /\ spent' = [spent EXCEPT ![t] = NoFrame]
    /\ lost' = lost + Cost(spent[t])
    /\ at' = IF t = "audio" THEN at
             ELSE IF at = "applying" THEN "ready"
             ELSE IF at = "closing" THEN "stopping" ELSE "failed"
    /\ UNCHANGED <<host, wants, out, inp, dev>>

\* send_desired_state: the next number, then the frame.
SendsState(ptt, tuned) ==
    /\ host.sequence < MaxSequence
    /\ LET f == Desired(host.sequence + 1, ptt, tuned) IN
       /\ Spend("state", f)
       /\ host' = [host EXCEPT !.sequence = @ + 1, !.credits = @ - Cost(f)]
       /\ wants' = f.seq

\* The deadline is long: credits that are under way back come before it.
Starved ==
    /\ host.credits < 2 /\ spent = [t \in Threads |-> NoFrame] /\ out = <<>>
    /\ \A i \in 1 .. Len(inp) : inp[i].kind # "window"

\* No credit until the deadline: Kv4pTimeout, out of connect.
Starves(next) ==
    /\ Starved
    /\ at' = next
    /\ UNCHANGED <<host, wants, spent, out, inp, dev, lost>>

SendsAudio ==
    /\ at \in {"ready", "applying", "closing"} /\ ~host.closed
    /\ Spend("audio", Audio)
    /\ host' = [host EXCEPT !.credits = @ - 1]
    /\ UNCHANGED <<at, wants, out, inp, dev, lost>>

-----------------------------------------------------------------------------
(* connect.                                                                *)

Acknowledged == host.known /\ host.state.reports

\* A board that already reports is read and never written to.
PassiveHit ==
    /\ at = "passive" /\ Acknowledged
    /\ host' = [host EXCEPT !.sequence = host.state.applied]
    /\ at' = "ready"
    /\ UNCHANGED <<wants, spent, out, inp, dev, lost>>

PassiveMiss ==
    /\ at = "passive" /\ ~Acknowledged
    /\ at' = "eliciting"
    /\ UNCHANGED <<host, wants, spent, out, inp, dev, lost>>

\* The probe carries zeros for the tuning: the device stores them.
Elicits ==
    /\ at = "eliciting"
    /\ SendsState(FALSE, FALSE)
    /\ at' = "listening"
    /\ UNCHANGED <<out, inp, dev, lost>>

ElicitsAgain ==
    /\ at = "listening" /\ spent["state"] = NoFrame /\ ~Acknowledged
    /\ at' = "eliciting"
    /\ UNCHANGED <<host, wants, spent, out, inp, dev, lost>>

\* The echo is there: count from what the device has applied, and put the
\* tuning back.
Heard ==
    /\ at = "listening" /\ spent["state"] = NoFrame /\ Acknowledged
    /\ host' = [host EXCEPT !.sequence = host.state.applied]
    /\ at' = "restoring"
    /\ UNCHANGED <<wants, spent, out, inp, dev, lost>>

Restores ==
    /\ at = "restoring"
    /\ SendsState(FALSE, TRUE)
    /\ at' = "confirming"
    /\ UNCHANGED <<out, inp, dev, lost>>

\* The deadline of any step of the handshake.
ConnectFails ==
    /\ at \in {"eliciting", "listening", "confirming"} /\ spent["state"] = NoFrame
    /\ at' = "failed"
    /\ UNCHANGED <<host, wants, spent, out, inp, dev, lost>>

-----------------------------------------------------------------------------
(* A connected radio: desired states, each awaited.                        *)

Requests(ptt) ==
    /\ at = "ready"
    /\ SendsState(ptt, TRUE)
    /\ at' = "applying"
    /\ UNCHANGED <<out, inp, dev, lost>>

\* await_applied: the device has reported that number or a later one.
Applied(from, next) ==
    /\ at = from /\ spent["state"] = NoFrame /\ host.applied >= wants
    /\ at' = next
    /\ UNCHANGED <<host, wants, spent, out, inp, dev, lost>>

AwaitTimesOut ==
    /\ at = "applying" /\ spent["state"] = NoFrame /\ host.applied < wants
    /\ at' = "ready"
    /\ UNCHANGED <<host, wants, spent, out, inp, dev, lost>>

\* close echoes the last state with PTT off, waits a little and goes on anyway.
CloseBegins ==
    /\ at = "ready" /\ host.known
    /\ SendsState(FALSE, TRUE)
    /\ at' = "closing"
    /\ UNCHANGED <<out, inp, dev, lost>>

CloseGoesOn ==
    /\ \/ at = "closing" /\ spent["state"] = NoFrame
       \/ at = "ready" /\ (~host.known \/ Starved)
    /\ at' = "stopping"
    /\ UNCHANGED <<host, wants, spent, out, inp, dev, lost>>

CloseEnds ==
    /\ at = "stopping" /\ spent["audio"] = NoFrame
    /\ host' = [host EXCEPT !.closed = TRUE]
    /\ at' = "closed"
    /\ UNCHANGED <<wants, spent, out, inp, dev, lost>>

-----------------------------------------------------------------------------
(* The reader thread.                                                      *)

Learn(h, s) == [h EXCEPT !.state = s, !.known = TRUE, !.applied = s.applied]

Dispatches ==
    /\ inp # <<>> /\ ~host.closed
    /\ inp' = Tail(inp)
    /\ LET r == Head(inp) IN
       host' = CASE r.kind = "window" -> [host EXCEPT !.credits = @ + r.size]
                 [] r.kind = "report" -> Learn(host, r.state)
                 [] OTHER -> Learn([host EXCEPT !.credits = @ + HelloWindow - host.window,
                                                !.window = HelloWindow], r.state)
    /\ UNCHANGED <<at, wants, spent, out, dev, lost>>

-----------------------------------------------------------------------------
(* The device.                                                             *)

\* A frame is taken: its bytes are given back and a desired state is applied,
\* which stores the tuning it carries.  With reports on the state is echoed.
DeviceTakes ==
    /\ dev.up /\ out # <<>> /\ Len(inp) + 2 <= MaxReports
    /\ out' = Tail(out)
    /\ LET f == Head(out) IN
       IF f.kind = "audio" THEN inp' = Append(inp, Refund(1)) /\ UNCHANGED dev
       ELSE /\ dev' = [dev EXCEPT !.applied = f.seq, !.ptt = f.ptt, !.reports = TRUE,
                                  !.tuned = f.tuned]
            /\ inp' = Append(Append(inp, Refund(2)), Report(dev'))
    /\ UNCHANGED <<host, at, wants, spent, lost>>

DeviceReports ==
    /\ dev.up /\ dev.reports /\ inp = <<>>
    /\ host.state # Snapshot(dev) \/ ~host.known
    /\ inp' = Append(inp, Report(dev))
    /\ UNCHANGED <<host, at, wants, spent, out, dev, lost>>

DeviceBoots ==
    /\ ~dev.up /\ Len(inp) < MaxReports
    /\ dev' = [dev EXCEPT !.up = TRUE]
    /\ inp' = Append(inp, Hello(dev'))
    /\ UNCHANGED <<host, at, wants, spent, out, lost>>

\* A reset forgets the frames it has not taken, and everything but the tuning.
DeviceResets ==
    /\ dev.fault = "resets" /\ dev.up /\ lost <= Window
    /\ dev' = [Silent(dev.fault) EXCEPT !.tuned = dev.tuned]
    /\ out' = <<>>
    /\ lost' = lost + CostOf(out)
    /\ UNCHANGED <<host, at, wants, spent, inp>>

-----------------------------------------------------------------------------
StateThread ==
    \/ PassiveHit \/ PassiveMiss \/ Elicits \/ ElicitsAgain \/ Heard \/ Restores \/ ConnectFails
    \/ \E ptt \in BOOLEAN : Requests(ptt)
    \/ Applied("confirming", "ready") \/ Applied("applying", "ready")
    \/ AwaitTimesOut \/ CloseBegins \/ CloseGoesOn \/ CloseEnds
    \/ at \in {"eliciting", "restoring"} /\ Starves("failed")

Next ==
    \/ StateThread
    \/ SendsAudio
    \/ \E t \in Threads : Writes(t) \/ WriteRaises(t)
    \/ Dispatches
    \/ DeviceTakes \/ DeviceReports \/ DeviceBoots \/ DeviceResets

Spec == Init /\ [][Next]_vars

-----------------------------------------------------------------------------
TypeOK ==
    /\ host \in [credits : Int, window : Nat, sequence : 0 .. MaxSequence,
                 applied : 0 .. MaxSequence, state : State, known : BOOLEAN, closed : BOOLEAN]
    /\ at \in {"passive", "eliciting", "listening", "restoring", "confirming", "ready",
               "applying", "closing", "stopping", "closed", "failed"}
    /\ wants \in 0 .. MaxSequence
    /\ spent \in [Threads -> Frames \cup {NoFrame}]
    /\ out \in Seq(Frames) /\ inp \in Seq(Reports)
    /\ dev \in [up : BOOLEAN, applied : 0 .. MaxSequence, ptt : BOOLEAN, reports : BOOLEAN,
                tuned : BOOLEAN, fault : LinkFaults]
    /\ lost \in Nat

\* Every credit is somewhere: free, paid for a frame, in the device's buffer,
\* or under way back; what the two threads, the refunds and a HELLO do to it in
\* whatever order, none is made, and only a frame no device took loses one.
Paid(f) == IF f = NoFrame THEN 0 ELSE Cost(f)
CreditsAccounted ==
    /\ host.credits + Paid(spent["state"]) + Paid(spent["audio"]) + CostOf(out) + RefundOf(inp)
          + lost = host.window
    /\ host.credits >= 0

NoStateUnderWay ==
    /\ spent["state"] = NoFrame
    /\ \A i \in 1 .. Len(out) : out[i].kind # "state"

\* connect may have to write zeros over the operator's stored tuning to get an
\* answer; once it has returned, and what it sent has arrived, they are gone, but
\* for a device that resets between the two.
TuningSurvives == dev.fault # "resets" /\ at \in {"ready", "applying", "closing", "closed"} /\ NoStateUnderWay => dev.tuned

\* However requests and their time-outs fell, a closed radio is not left keyed,
\* unless the write of the echo itself failed.
CloseUnkeys == dev.fault # "write_fails" /\ at = "closed" /\ NoStateUnderWay => ~dev.ptt

\* When connect returns, the device has applied the write that restores the
\* tuning: what await_applied waits for.  A repeated probe has the same number.
ConfirmedIsApplied == [][at = "confirming" /\ at' = "ready" => dev.tuned]_vars

(* What makes them inductive.                                              *)

Typed ==
    /\ TypeOK
    /\ host.window \in {Window, HelloWindow}
    /\ spent["state"] \in States \cup {NoFrame} /\ spent["audio"] \in {Audio, NoFrame}
    /\ at \in {"passive", "eliciting", "restoring", "ready", "stopping", "closed"}
          => spent["state"] = NoFrame

\* A device that is down has no frames and no carrier; what was heard of it
\* came when it was up, and connect goes on only when something was.
Awake ==
    /\ ~dev.up => out = <<>> /\ ~dev.ptt
    /\ dev.fault # "resets" /\ (host.known \/ \E i \in 1 .. Len(inp) : inp[i].kind # "window")
          => dev.up
    /\ at \in {"restoring", "confirming", "ready", "applying", "closing"} => host.known

\* What the device is told last, by the frames of s, is in G; by none, it was told.
Latest(s, i) == s[i].kind = "state" /\ \A j \in 1 .. Len(s) : j > i => s[j].kind # "state"
EndsIn(s, G, told) ==
    /\ \A i \in 1 .. Len(s) : Latest(s, i) => s[i] \in G
    /\ (\A i \in 1 .. Len(s) : s[i].kind # "state") => told

\* A frame of the two credits that keyed the device is still in the window.
Powered == dev.fault # "write_fails" /\ dev.ptt => host.window - lost >= 2

TunedFrames == {f \in States : f.tuned}
Retuned ==
    dev.fault # "resets" =>
    /\ at = "passive" => dev.tuned /\ \A i \in 1 .. Len(out) : out[i].kind # "state"
    /\ at = "confirming" /\ spent["state"] = NoFrame => EndsIn(out, TunedFrames, dev.tuned)
    /\ at \in {"ready", "applying", "closing", "stopping", "closed"}
          => EndsIn(out, TunedFrames, dev.tuned)
    /\ at \in {"confirming", "applying", "closing"} => spent["state"] \in TunedFrames \cup {NoFrame}

UnkeyedFrames == {f \in States : ~f.ptt}
Unkeyed ==
    dev.fault # "write_fails" =>
    /\ at \in {"closing", "stopping", "closed"} /\ spent["state"] = NoFrame
          => EndsIn(out, UnkeyedFrames, ~dev.ptt)
    /\ at = "closing" => spent["state"] \in UnkeyedFrames \cup {NoFrame}

IInv == Typed /\ Awake /\ CreditsAccounted /\ Powered /\ Retuned /\ Unkeyed
=============================================================================
