------------------------------- MODULE RxTaps -------------------------------
(***************************************************************************)
(* What the receive pump does with a frame (the loop of rx/pump.py): the   *)
(* audio hub hands it to the listeners (rx/hub.py) and the recorder writes *)
(* it into a segment (recording/recorder.py).                              *)
(*                                                                         *)
(* The loop looks at the arbiter, awaits a read, and handles the frame in  *)
(* one step: nothing awaits between the gate and the recorder.  Listeners  *)
(* come, go and take frames, and transmissions begin and end, at any       *)
(* await; a write may fail.                                                *)
(***************************************************************************)
EXTENDS Naturals, Sequences

CONSTANTS Listeners,   \* the sockets and bridges that listen
          QueueSize,   \* frames queued for one listener
          MaxSeconds,  \* the length at which a segment rolls over
          TxFits,      \* a transmission may begin and end within one read
          MaxFrames, MaxTime, MaxTx, MaxFaults,
          TapFaults    \* "open_fails", "write_fails", "close_fails"

VARIABLES
    frame,     \* frames read so far: a frame is its number
    pc,        \* the pump: at the top of its loop or in a read
    tx,        \* the arbiter: a transmission is under way
    txs,       \* transmissions so far
    over,      \* stretches of continuous receive so far
    open,      \* the receive has not been interrupted since the last frame
    passed,    \* the over of each frame that has passed the gate, 0 if none
    queue,     \* what each listener has still to hear; "out" if not there
    since,     \* the frame at which each listener came
    segment,   \* the open segment: its frames and when it began
    files,     \* the finished segments
    failed,    \* frames that a disk fault has cost
    now, faults

vars == <<pc, tx, txs, frame, over, open, passed, queue, since, segment, files, failed,
          now, faults>>

Closed == [open |-> FALSE, frames |-> << >>, began |-> 0]

loop == <<pc, tx, txs>>

Init ==
    /\ pc = "top"
    /\ tx = FALSE
    /\ txs = 0
    /\ frame = 0
    /\ over = 0
    /\ open = FALSE
    /\ passed = [f \in 1..MaxFrames |-> 0]
    /\ queue = [l \in Listeners |-> [in |-> FALSE, frames |-> << >>]]
    /\ since = [l \in Listeners |-> 0]
    /\ segment = Closed
    /\ files = {}
    /\ failed = {}
    /\ now = 0
    /\ faults = 0

-----------------------------------------------------------------------------
(* The hub. *)

\* A hub whose queues have no limit.
QueuedUnbounded(frames, f) == Append(frames, f)

\* publish: a full queue gives up its oldest frame.
Queued(frames, f) ==
    IF Len(frames) < QueueSize THEN Append(frames, f)
    ELSE Append(Tail(frames), f)

Publish(f) ==
    queue' = [l \in Listeners |->
                 IF queue[l].in
                 THEN [queue[l] EXCEPT !.frames = Queued(queue[l].frames, f)]
                 ELSE queue[l]]

Subscribe(l) ==
    /\ UNCHANGED loop
    /\ ~queue[l].in
    /\ queue' = [queue EXCEPT ![l] = [in |-> TRUE, frames |-> << >>]]
    /\ since' = [since EXCEPT ![l] = frame]
    /\ UNCHANGED <<frame, over, open, passed, segment, files, failed, now,
                   faults>>

Unsubscribe(l) ==
    /\ UNCHANGED loop
    /\ queue[l].in
    /\ queue' = [queue EXCEPT ![l] = [in |-> FALSE, frames |-> << >>]]
    /\ UNCHANGED <<frame, over, open, passed, since, segment, files, failed,
                   now, faults>>

Take(l) ==
    /\ UNCHANGED loop
    /\ queue[l].frames # << >>
    /\ queue' = [queue EXCEPT ![l].frames = Tail(@)]
    /\ UNCHANGED <<frame, over, open, passed, since, segment, files, failed,
                   now, faults>>

-----------------------------------------------------------------------------
(* The recorder. *)

Kept(s) == IF s.frames = << >> THEN {} ELSE {s.frames}

Fault(kind) ==
    /\ kind \in TapFaults
    /\ faults < MaxFaults
    /\ faults' = faults + 1

\* end_segment: a close that fails is swallowed, and the segment is gone
\* from the recorder either way.
EndSegment ==
    /\ segment' = Closed
    /\ files' = files \cup Kept(segment)

\* A cap that is looked at when the segment is opened only.
NeverRolls == FALSE

RollsOver == segment.open /\ now - segment.began >= MaxSeconds

Opened == IF RollsOver \/ ~segment.open
          THEN [open |-> TRUE, frames |-> << >>, began |-> now]
          ELSE segment

\* write: roll over at the cap, open lazily, append.  A fault abandons the
\* segment with what it had, and the frame.
Write(f) ==
    \/ /\ segment' = [Opened EXCEPT !.frames = Append(@, f)]
       /\ files' = IF RollsOver THEN files \cup Kept(segment) ELSE files
       /\ UNCHANGED <<failed, faults>>
    \/ /\ Fault("open_fails")
       /\ ~segment.open \/ RollsOver
       /\ segment' = Closed
       /\ files' = files \cup Kept(segment)
       /\ failed' = failed \cup {f}
    \/ /\ Fault("write_fails")
       /\ segment' = Closed
       /\ files' = files \cup Kept(segment)
       /\ failed' = failed \cup {f}

-----------------------------------------------------------------------------
(* A pass of the pump. *)

\* The top of the loop: while keyed nothing is read, and the segment ends.
Ends == EndSegment

StandsDown ==
    /\ pc = "top"
    /\ tx
    /\ Ends
    /\ open' = FALSE
    /\ UNCHANGED loop
    /\ UNCHANGED <<frame, over, passed, queue, since, failed, now, faults>>

Read ==
    /\ pc = "top"
    /\ ~tx
    /\ pc' = "reading"
    /\ UNCHANGED <<tx, txs, frame, over, open, passed, queue, since, segment,
                   files, failed, now, faults>>

\* A frame that passes the gate: first to the hub, then to the recorder.
Passes ==
    /\ pc = "reading"
    /\ pc' = "top"
    /\ frame < MaxFrames
    /\ frame' = frame + 1
    /\ open' = TRUE
    /\ over' = IF open THEN over ELSE over + 1
    /\ passed' = [passed EXCEPT ![frame'] = over']
    /\ Publish(frame')
    /\ Write(frame')
    /\ UNCHANGED <<tx, txs, since, now>>

\* A frame that the gate stops ends the segment.
Stopped ==
    /\ pc = "reading"
    /\ pc' = "top"
    /\ frame < MaxFrames
    /\ frame' = frame + 1
    /\ open' = FALSE
    /\ Ends
    /\ UNCHANGED <<tx, txs, over, passed, queue, since, failed, now, faults>>

\* The pump is stopped at an await, a read under way or not.
PumpStops ==
    /\ pc' = "top"
    /\ open
    /\ open' = FALSE
    /\ Ends
    /\ UNCHANGED <<tx, txs, frame, over, passed, queue, since, failed, now, faults>>

\* A transmission, at any await of the loop.
TxBegins ==
    /\ ~tx
    /\ txs < MaxTx
    /\ tx' = TRUE
    /\ txs' = txs + 1
    /\ UNCHANGED <<pc, frame, over, open, passed, queue, since, segment, files,
                   failed, now, faults>>

TxEnds ==
    /\ tx
    /\ TxFits \/ (pc = "top" /\ ~segment.open)
    /\ tx' = FALSE
    /\ open' = FALSE
    /\ UNCHANGED <<pc, txs, frame, over, passed, queue, since, segment, files,
                   failed, now, faults>>

Tick ==
    /\ UNCHANGED loop
    /\ now < MaxTime
    /\ now' = now + 1
    /\ UNCHANGED <<frame, over, open, passed, queue, since, segment, files,
                   failed, faults>>

Next ==
    \/ StandsDown \/ Read \/ Passes \/ Stopped \/ PumpStops
    \/ TxBegins \/ TxEnds \/ Tick
    \/ \E l \in Listeners : Subscribe(l) \/ Unsubscribe(l) \/ Take(l)

Spec == Init /\ [][Next]_vars

-----------------------------------------------------------------------------
TypeOK ==
    /\ pc \in {"top", "reading"}
    /\ tx \in BOOLEAN
    /\ txs \in 0..MaxTx
    /\ frame \in 0..MaxFrames
    /\ over \in 0..MaxFrames
    /\ open \in BOOLEAN
    /\ passed \in [1..MaxFrames -> 0..MaxFrames]
    /\ \A l \in Listeners : Len(queue[l].frames) <= QueueSize
    /\ since \in [Listeners -> 0..MaxFrames]
    /\ segment.open \in BOOLEAN
    /\ failed \subseteq 1..MaxFrames
    /\ now \in 0..MaxTime
    /\ faults \in 0..MaxFaults

Heard(l) == {f \in since[l] + 1..frame : passed[f] # 0}

\* What waits of some frames heard is the latest of them, in order, with no hole.
NearLive(q, heard) ==
    /\ \A i \in 1..Len(q) : q[i] \in heard
    /\ q # << >> => \A f \in heard : f >= q[1] => \E i \in 1..Len(q) : q[i] = f
    /\ \A i, j \in 1..Len(q) : i < j => q[i] < q[j]

\* What waits for a listener are the latest frames that passed since it
\* came, with no hole: a slow one loses the oldest, and no other notices.
ListenersAreNearLive ==
    \A l \in Listeners : NearLive(queue[l].frames, Heard(l))

Segments == files \cup Kept(segment)

\* A segment is one continuous receive: its frames follow one another with
\* no gap of the gate and no transmission between them, and no frame is in
\* two segments.
SegmentsAreOvers ==
    /\ \A s \in Segments :
          /\ \A i \in 1..Len(s) : passed[s[i]] = passed[s[1]]
          /\ \A i \in 2..Len(s) : s[i] = s[i - 1] + 1
    /\ \A s, t \in Segments : s # t =>
          \A i \in 1..Len(s), j \in 1..Len(t) : s[i] # t[j]

\* Every frame that passed the gate is in a segment, but for the ones that a
\* fault of the disk has cost: one each.
NothingElseIsLost ==
    \A f \in 1..frame : passed[f] # 0 =>
        \/ f \in failed
        \/ \E s \in Segments : \E i \in 1..Len(s) : s[i] = f

\* No frame is added to a segment that has reached the cap.
GrowsBelowTheCap ==
    segment.open /\ segment'.open /\ Len(segment'.frames) > Len(segment.frames)
        => now - segment.began < MaxSeconds
SegmentsAreCapped == [][GrowsBelowTheCap]_vars

\* The frames that passed are those of the past, and the present over is the
\* last one; an open segment ends with the last frame read.
TapsAssumption ==
    /\ QueueSize \in Nat \ {0}
    /\ {MaxSeconds, MaxFrames} \subseteq Nat

Frames == 1..MaxFrames
Numbered ==
    /\ frame \in 0..MaxFrames /\ over \in Nat /\ open \in BOOLEAN
    /\ passed \in [1..MaxFrames -> Nat]
    /\ \A f \in 1..MaxFrames : f > frame => passed[f] = 0
    /\ open => frame # 0 /\ passed[frame] = over /\ over # 0

Waiting ==
    /\ since \in [Listeners -> Nat] /\ \A l \in Listeners : since[l] <= frame
    /\ queue \in [Listeners -> [in : BOOLEAN, frames : Seq(Frames)]]
    /\ \A l \in Listeners : ~queue[l].in => queue[l].frames = << >>

EndsNow ==
    /\ segment \in [open : BOOLEAN, frames : Seq(Frames), began : Nat] /\ now \in Nat
    /\ ~segment.open => segment.frames = << >>
    /\ segment.frames \notin files
    /\ segment.open =>
          open /\ segment.frames # << >> /\ segment.frames[Len(segment.frames)] = frame

Filed ==
    /\ files \subseteq Seq(Frames)
    /\ \A s \in Segments : s # << >> /\ \A i \in 1..Len(s) : s[i] <= frame /\ passed[s[i]] # 0

IInv ==
    /\ Numbered /\ Waiting /\ EndsNow /\ Filed
    /\ ListenersAreNearLive /\ SegmentsAreOvers /\ NothingElseIsLost
=============================================================================
