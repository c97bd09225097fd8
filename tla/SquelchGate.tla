----------------------------- MODULE SquelchGate ----------------------------
(***************************************************************************)
(* Which received frames carry a signal (activity/gate.py): the software   *)
(* squelch with its two thresholds and its hang time, and the gate polled  *)
(* from a thread because reading the radio's own squelch takes long.       *)
(***************************************************************************)
EXTENDS Integers, Sequences

CONSTANTS
    OnLevel, OffLevel,  \* on_threshold and off_threshold
    Hang,               \* hang
    Levels,             \* audio levels: frame_rms
    MaxFrames, MaxTime, MaxFaults

GateAssumption == OffLevel < OnLevel /\ Hang \in Nat

VARIABLES
    frames,  \* every frame judged: its time and level
    now,
    vad,     \* AudioLevelGate: _open and _active_until, and its verdict
    polled,  \* PolledGate: _busy, its threads' life, the answer in flight
    squelch, \* the radio's own squelch is open
    faults

vars == <<frames, now, vad, polled, squelch, faults>>

Init ==
    /\ frames = <<>> /\ now = 0
    /\ vad = [open |-> FALSE, until |-> 0, says |-> FALSE]
    /\ polled = [busy |-> FALSE, on |-> FALSE, pc |-> "wait", answer |-> FALSE]
    /\ squelch \in BOOLEAN /\ faults = 0

Ticks ==
    /\ now < MaxTime /\ now' = now + 1
    /\ UNCHANGED <<frames, vad, polled, squelch, faults>>

\* A frame opens the gate at the upper threshold and holds it at the lower; a
\* quieter one passes until the hang has run out.
AudioLevelGate(level) ==
    LET held == level >= IF vad.open THEN OffLevel ELSE OnLevel
        hangs == vad.open /\ now < vad.until
    IN  /\ Len(frames) < MaxFrames
        /\ frames' = Append(frames, [at |-> now, level |-> level])
        /\ vad' = [open |-> held \/ hangs,
                   until |-> IF held THEN now + Hang ELSE IF hangs THEN vad.until ELSE 0,
                   says |-> held \/ hangs]
        /\ UNCHANGED <<now, polled, squelch, faults>>

\* ---- the polled gate ----
Starts ==
    /\ ~polled.on
    /\ polled' = [polled EXCEPT !.on = TRUE]
    /\ UNCHANGED <<frames, now, vad, squelch, faults>>

Asks ==
    /\ polled.on /\ polled.pc = "wait"
    /\ polled' = [polled EXCEPT !.pc = "record", !.answer = squelch]
    /\ UNCHANGED <<frames, now, vad, squelch, faults>>

\* A radio that cannot be asked reads as not busy.
PollOnce ==
    /\ polled.pc = "record"
    /\ \/ polled' = [polled EXCEPT !.pc = "wait", !.busy = polled.answer] /\ UNCHANGED faults
       \/ /\ faults < MaxFaults /\ faults' = faults + 1
          /\ polled' = [polled EXCEPT !.pc = "wait", !.busy = FALSE]
    /\ UNCHANGED <<frames, now, vad, squelch>>

Stops ==
    /\ polled.on /\ polled.pc = "wait"
    /\ polled' = [polled EXCEPT !.on = FALSE]
    /\ UNCHANGED <<frames, now, vad, squelch, faults>>

SquelchMoves ==
    /\ faults < MaxFaults /\ faults' = faults + 1 /\ squelch' = ~squelch
    /\ UNCHANGED <<frames, now, vad, polled>>

Next ==
    \/ Ticks \/ \E level \in Levels : AudioLevelGate(level)
    \/ Starts \/ Asks \/ PollOnce \/ Stops \/ SquelchMoves

Spec == Init /\ [][Next]_vars
FairSpec == Spec /\ WF_vars(Asks) /\ WF_vars(PollOnce)

TypeOK ==
    /\ \A i \in 1 .. Len(frames) : frames[i] \in [at : 0 .. MaxTime, level : Levels]
    /\ now \in 0 .. MaxTime /\ squelch \in BOOLEAN /\ faults \in 0 .. MaxFaults
    /\ vad \in [open : BOOLEAN, until : 0 .. MaxTime + Hang, says : BOOLEAN]
    /\ polled \in [busy : BOOLEAN, on : BOOLEAN, pc : {"wait", "record"}, answer : BOOLEAN]

\* Frame n passes if and only if a loud frame opened the gate at or before it,
\* and from that frame on to this one no pause between frames of at least the
\* lower threshold was as long as the hang: one over is not chopped at its
\* quiet words, and noise between the thresholds opens nothing.
Carried(i, n) ==
    LET keeps == {k \in i .. n : frames[k].level >= OffLevel} IN
    \A j \in i .. n : \E k \in keeps : k <= j /\ (k = j \/ frames[j].at < frames[k].at + Hang)
PassesWholeOvers ==
    LET n == Len(frames) IN
    n > 0 => vad.says = (\E i \in 1 .. n : frames[i].level >= OnLevel /\ Carried(i, n))

\* The polled verdict follows the radio's squelch as long as it is polled.
PolledAt(b) == polled.on /\ squelch = b
SaysBusy(b) == polled.busy = b
BusyFollowsSquelch == \A b \in BOOLEAN : <>[]PolledAt(b) => <>[]SaysBusy(b)

-----------------------------------------------------------------------------
(* For any levels, thresholds and hang: the gate stands open exactly after *)
(* a frame that passes, and closes the hang after the last frame that held *)
(* it.                                                                     *)
LevelsAssumption == Levels \subseteq Int /\ {OnLevel, OffLevel} \subseteq Int

Judged ==
    /\ frames \in Seq([at : Nat, level : Int]) /\ now \in Nat
    /\ vad \in [open : BOOLEAN, until : Nat, says : BOOLEAN]
    /\ \A i, j \in 1 .. Len(frames) : i < j => frames[i].at <= frames[j].at
    /\ \A i \in 1 .. Len(frames) : frames[i].at <= now

HeldUntil ==
    vad.open => \E k \in 1 .. Len(frames) :
        /\ frames[k].level >= OffLevel /\ vad.until = frames[k].at + Hang
        /\ \A j \in k + 1 .. Len(frames) : frames[j].level < OffLevel

IInv ==
    /\ Judged /\ HeldUntil /\ PassesWholeOvers
    /\ vad.says = vad.open /\ (frames = <<>> => ~vad.open)
=============================================================================
