------------------------------ MODULE TotRadio ------------------------------
(***************************************************************************)
(* The transmitter time-out timer (tx/tot.py), a wrapper around the radio. *)
(*                                                                         *)
(* Callers are threads: the event loop, which keys for the talkers, the    *)
(* services and POST /transmit, and the worker threads of POST /ptt.  Each *)
(* timer is a thread of its own.  The wrapper changes its flags under a    *)
(* lock and calls the wrapped radio after letting the lock go, so a call   *)
(* is two steps, and what other threads do in between is the point.        *)
(***************************************************************************)
EXTENDS TLAPS

CONSTANTS Callers,     \* the threads that key
          Timers,      \* the timer threads; a bound on those alive at once
          NoTimer,
          Faults,      \* the calls of the wrapped radio that may raise
          SlowKeyUp    \* a key-up may take longer than tot

ASSUME TimersAssumption == NoTimer \notin Timers
ASSUME FaultsAssumption == Faults \subseteq {"key_up", "key_down"}

VARIABLES
    token,    \* _token: the live timer
    timer,    \* where each timer thread is
    keyed,    \* _keyed: an explicit ptt(True) is held
    locked,   \* _locked: a time-out fired, audio is dropped
    pc,       \* where each caller is
    radioKeyed,  \* the wrapped radio's own streaming flag
    line         \* its PTT line

vars == <<token, timer, keyed, locked, pc, radioKeyed, line>>
flags == <<token, timer, keyed, locked>>
wire == <<radioKeyed, line>>

Init ==
    /\ token = NoTimer
    /\ timer = [k \in Timers |-> "none"]
    /\ keyed = FALSE
    /\ locked = FALSE
    /\ pc = [c \in Callers |-> "idle"]
    /\ radioKeyed = FALSE
    /\ line = FALSE

Goto(c, p) == pc' = [pc EXCEPT ![c] = p]

\* Mutants of the cancelling: none at all, and one that keeps the object.
NotCancelled == timer

CancelledButKept ==
    [k \in Timers |->
        IF k = token /\ timer[k] = "armed" THEN "cancelled" ELSE timer[k]]

\* _disarm cancels the live timer; one that has expired already runs on and
\* finds its token superseded.
Cancelled ==
    [k \in Timers |->
        IF k = token /\ timer[k] = "armed" THEN "none" ELSE timer[k]]

Disarm == token' = NoTimer /\ timer' = Cancelled

Arm ==
    \E k \in Timers :
        /\ timer[k] = "none"
        /\ token' = k
        /\ timer' = [Cancelled EXCEPT ![k] = "armed"]

-----------------------------------------------------------------------------
(* ptt(on): the flags under the lock, then the wrapped call.               *)

PttOn(c) ==
    /\ pc[c] = "idle"
    /\ locked' = FALSE
    /\ keyed' = TRUE
    /\ Arm
    /\ Goto(c, "on")
    /\ UNCHANGED wire

PttOff(c) ==
    /\ pc[c] = "idle"
    /\ locked' = FALSE
    /\ keyed' = FALSE
    /\ Disarm
    /\ Goto(c, "off")
    /\ UNCHANGED wire

\* The wrapped ptt(True) is a no-op on a radio that is keyed already.
RadioOn(c) ==
    /\ pc[c] = "on"
    /\ radioKeyed' = TRUE
    /\ line' = (line \/ ~radioKeyed)
    /\ Goto(c, "idle")
    /\ UNCHANGED flags

\* A refused key-up raises through ptt; nothing puts the flags back.
RadioRefuses(c) ==
    /\ "key_up" \in Faults
    /\ pc[c] = "on" /\ ~radioKeyed
    /\ Goto(c, "idle")
    /\ UNCHANGED <<flags, wire>>

\* The wrapped ptt(False): the radio forgets its key before it drives the
\* line, so a failure leaves the line as it was.
KeyOff ==
    /\ radioKeyed' = FALSE
    /\ line' \in {FALSE} \cup {l \in {line} : "key_down" \in Faults}

RadioOff(c) ==
    /\ pc[c] = "off"
    /\ KeyOff
    /\ Goto(c, "idle")
    /\ UNCHANGED flags

-----------------------------------------------------------------------------
(* transmit: dropped when locked, a one-shot when nothing is held.         *)

\* Mutant: only streams are watched.
TransmitUncapped(c) ==
    /\ pc[c] = "idle"
    /\ ~locked
    /\ Goto(c, IF keyed THEN "frame" ELSE "oneshot")
    /\ UNCHANGED <<flags, wire>>

Transmit(c) ==
    /\ pc[c] = "idle"
    /\ ~locked
    /\ \/ keyed /\ Goto(c, "frame") /\ UNCHANGED <<token, timer>>
       \/ ~keyed /\ Goto(c, "oneshot") /\ Arm
    /\ UNCHANGED <<keyed, locked, wire>>

After(p) == IF p = "oneshot" THEN "return" ELSE "idle"

\* A keyed radio queues the audio and returns at once; a radio that refuses
\* the clip raises.
RadioQueues(c) ==
    /\ pc[c] \in {"oneshot", "frame"}
    /\ radioKeyed \/ "key_up" \in Faults
    /\ Goto(c, After(pc[c]))
    /\ UNCHANGED <<flags, wire>>

\* A radio that is not keyed keys itself for the clip.
ClipStarts(c) ==
    /\ pc[c] \in {"oneshot", "frame"}
    /\ ~radioKeyed
    /\ line' = TRUE
    /\ Goto(c, IF pc[c] = "oneshot" THEN "playing" ELSE "playing frame")
    /\ UNCHANGED <<flags, radioKeyed>>

\* It drops the line after it, without looking whether ptt(True) came in.
ClipEnds(c) ==
    /\ pc[c] \in {"playing", "playing frame"}
    /\ line' \in {FALSE} \cup {l \in {line} : "key_down" \in Faults}
    /\ Goto(c, IF pc[c] = "playing" THEN "return" ELSE "idle")
    /\ UNCHANGED <<flags, radioKeyed>>

\* The `finally` of a one-shot transmit.
Return(c) ==
    /\ pc[c] = "return"
    /\ IF locked THEN UNCHANGED <<token, timer>> ELSE Disarm
    /\ Goto(c, "idle")
    /\ UNCHANGED <<keyed, locked, wire>>

-----------------------------------------------------------------------------
(* The timer threads.                                                      *)

Expires(k) ==
    /\ timer[k] = "armed"
    /\ SlowKeyUp \/ \A c \in Callers : pc[c] \notin {"on", "oneshot"}
    /\ timer' = [timer EXCEPT ![k] = "expired"]
    /\ UNCHANGED <<token, keyed, locked, pc, wire>>

\* Mutants: a time-out that only latches the audio off, and one that drops
\* the line of a stream only.
FiresWithoutDrop(k) ==
    /\ timer[k] = "expired"
    /\ timer' = [timer EXCEPT ![k] = "none"]
    /\ token' = NoTimer
    /\ keyed' = FALSE
    /\ locked' = (locked \/ keyed)
    /\ UNCHANGED <<pc, wire>>

FiresForStreams(k) ==
    /\ timer[k] = "expired"
    /\ timer' = [timer EXCEPT ![k] = IF keyed THEN "dropping" ELSE "none"]
    /\ token' = NoTimer
    /\ keyed' = FALSE
    /\ locked' = (locked \/ keyed)
    /\ UNCHANGED <<pc, wire>>

\* _fire under the lock: a superseded timer ends here.
Fires(k) ==
    /\ timer[k] = "expired"
    /\ IF k # token
       THEN /\ timer' = [timer EXCEPT ![k] = "none"]
            /\ UNCHANGED <<token, keyed, locked>>
       ELSE /\ timer' = [timer EXCEPT ![k] = "dropping"]
            /\ token' = NoTimer
            /\ keyed' = FALSE
            /\ locked' = (locked \/ keyed)
    /\ UNCHANGED <<pc, wire>>

\* _fire after the lock: the forced ptt(False), whose failure is swallowed.
Drops(k) ==
    /\ timer[k] = "dropping"
    /\ timer' = [timer EXCEPT ![k] = "none"]
    /\ KeyOff
    /\ UNCHANGED <<token, keyed, locked, pc>>

-----------------------------------------------------------------------------
CallerStep(c) ==
    \/ PttOn(c) \/ PttOff(c) \/ RadioOn(c) \/ RadioRefuses(c) \/ RadioOff(c)
    \/ Transmit(c) \/ RadioQueues(c) \/ ClipStarts(c) \/ ClipEnds(c) \/ Return(c)

TimerStep(k) == Expires(k) \/ Fires(k) \/ Drops(k)

Next == (\E c \in Callers : CallerStep(c)) \/ (\E k \in Timers : TimerStep(k))

Spec == Init /\ [][Next]_vars

\* Timers run out, and their threads are scheduled; a caller may stay
\* parked in the wrapped radio for ever while a clip plays, but not in a
\* key command, nor in a single frame (wait_drained is bounded).
Fairness ==
    /\ \A c \in Callers : WF_vars(pc[c] = "playing frame" /\ ClipEnds(c))
    /\ \A k \in Timers : WF_vars(TimerStep(k))
    /\ \A c \in Callers : WF_vars(RadioOn(c) \/ RadioRefuses(c) \/ RadioOff(c))

FairSpec == Spec /\ Fairness

-----------------------------------------------------------------------------
(* Every variable has its type.                                            *)
TypeOK ==
    /\ token \in Timers \cup {NoTimer}
    /\ timer \in [Timers -> {"none", "armed", "expired", "dropping"}]
    /\ keyed \in BOOLEAN /\ locked \in BOOLEAN
    /\ pc \in [Callers -> {"idle", "on", "off", "frame", "oneshot", "playing",
                           "playing frame", "return"}]
    /\ radioKeyed \in BOOLEAN /\ line \in BOOLEAN

\* The live timer has not run out, or its thread is about to take the lock.
Watched == token # NoTimer

\* Somebody is on the way to drop the line.
Dropping ==
    \/ \E k \in Timers : timer[k] = "dropping"
    \/ \E c \in Callers : pc[c] = "off"

\* A streamed frame that passed the latch check before the time-out and
\* reached the radio after it: the radio keys for that one frame.
Straggling == \E c \in Callers : pc[c] = "playing frame"

(* The promise of the class: no keying path holds PTT with no watchdog to  *)
(* drop it, whatever the keyer is stuck in (but for one straggling frame). *)
KeyIsCapped == line => Watched \/ Dropping \/ Straggling

(* The watchdog's memory of the live timer is right: the token names a     *)
(* timer that will still run, and no cancelled or superseded timer is left *)
(* armed to cut a later over.                                              *)
OneLiveTimer ==
    /\ token # NoTimer => timer[token] \in {"armed", "expired"}
    /\ \A k \in Timers : timer[k] = "armed" => k = token

(* A key command held on the wire is one the watchdog knows as held: a     *)
(* one-shot that overran never inherits the latch of a stream.             *)
HeldIsKnown ==
    radioKeyed => keyed \/ Dropping

(* The latch follows a time-out of a streamed over that really was on the  *)
(* air, as the module's docstring has it ("after tot seconds of continuous *)
(* key").                                                                  *)
LatchMeansOverrun == [][~locked /\ locked' => radioKeyed]_vars

(* "An explicit key command is always a fresh start": once the calls have  *)
(* returned and no timer thread is on its way, a held key is on the air.   *)
FreshKeyStands ==
    keyed /\ ~Dropping /\ (\A c \in Callers : pc[c] = "idle") => radioKeyed

(* A carrier always ends, even under a caller that never returns from the  *)
(* radio, unless explicit key commands keep coming.                        *)
CarrierDrops ==
    []<>~line \/ (\E c \in Callers : []<><<PttOn(c)>>_vars)

-----------------------------------------------------------------------------
(* Theorems, checked by TLAPS.  With any number of callers and any fault,  *)
(* the watchdog's own bookkeeping is right (OneTimerLives).  That a key is *)
(* capped needs more: one caller at a time, a key-up shorter than tot and  *)
(* a ptt(False) that does not raise (SoleKeyerIsCapped); the runs show     *)
(* that the first of these cannot be left out.                             *)
Bookkeeping == TypeOK /\ OneLiveTimer

\* What one step does to the timers: nothing, cancel, arm, or move one on.
LEMMA CancelIsSafe ==
    ASSUME Bookkeeping
    PROVE  /\ Cancelled \in [Timers -> {"none", "armed", "expired", "dropping"}]
           /\ \A k \in Timers : Cancelled[k] # "armed"
<1> USE DEF Bookkeeping, TypeOK, OneLiveTimer, Cancelled
<1>1. Cancelled \in [Timers -> {"none", "armed", "expired", "dropping"}]
  OBVIOUS
<1>2. \A k \in Timers : Cancelled[k] # "armed"
  OBVIOUS
<1> QED BY <1>1, <1>2

LEMMA DisarmKeeps ==
    ASSUME Bookkeeping, Disarm
    PROVE  /\ timer' \in [Timers -> {"none", "armed", "expired", "dropping"}]
           /\ token' = NoTimer
           /\ OneLiveTimer'
BY CancelIsSafe DEF Disarm, OneLiveTimer

LEMMA ArmKeeps ==
    ASSUME Bookkeeping, Arm
    PROVE  /\ timer' \in [Timers -> {"none", "armed", "expired", "dropping"}]
           /\ token' \in Timers
           /\ timer'[token'] = "armed"
           /\ OneLiveTimer'
<1>1. PICK k \in Timers : token' = k /\ timer' = [Cancelled EXCEPT ![k] = "armed"]
  BY DEF Arm
<1>2. Cancelled \in [Timers -> {"none", "armed", "expired", "dropping"}]
  BY CancelIsSafe
<1>3. \A j \in Timers : Cancelled[j] # "armed"
  BY CancelIsSafe
<1>4. timer' \in [Timers -> {"none", "armed", "expired", "dropping"}]
  BY <1>1, <1>2
<1>5. timer'[k] = "armed" /\ \A j \in Timers : timer'[j] = "armed" => j = k
  BY <1>1, <1>2, <1>3
<1> QED BY <1>1, <1>4, <1>5 DEF OneLiveTimer

LEMMA CallerKeepsBooks ==
    ASSUME Bookkeeping, NEW c \in Callers, CallerStep(c)
    PROVE  Bookkeeping'
<1> USE DEF Bookkeeping
<1>1. CASE PttOn(c)
  <2>1. Arm /\ locked' = FALSE /\ keyed' = TRUE /\ Goto(c, "on") /\ UNCHANGED wire
    BY <1>1 DEF PttOn
  <2> QED BY <2>1, ArmKeeps DEF TypeOK, Goto, wire
<1>2. CASE PttOff(c)
  <2>1. Disarm /\ locked' = FALSE /\ keyed' = FALSE /\ Goto(c, "off") /\ UNCHANGED wire
    BY <1>2 DEF PttOff
  <2> QED BY <2>1, DisarmKeeps DEF TypeOK, Goto, wire
<1>3. CASE RadioOn(c)
  BY <1>3 DEF RadioOn, TypeOK, OneLiveTimer, Goto, flags
<1>4. CASE RadioRefuses(c)
  BY <1>4 DEF RadioRefuses, TypeOK, OneLiveTimer, Goto, flags, wire
<1>5. CASE RadioOff(c)
  BY <1>5 DEF RadioOff, KeyOff, TypeOK, OneLiveTimer, Goto, flags
<1>6. CASE Transmit(c)
  <2>1. CASE keyed
    BY <1>6, <2>1 DEF Transmit, TypeOK, OneLiveTimer, Goto, wire
  <2>2. CASE ~keyed
    <3>1. Arm /\ UNCHANGED <<keyed, locked, wire>> /\ Goto(c, "oneshot")
      BY <1>6, <2>2 DEF Transmit
    <3> QED BY <3>1, ArmKeeps DEF TypeOK, Goto, wire
  <2> QED BY <2>1, <2>2
<1>7. CASE RadioQueues(c)
  <2>1. After(pc[c]) \in {"return", "idle"}
    BY DEF After
  <2> QED BY <1>7, <2>1 DEF RadioQueues, TypeOK, OneLiveTimer, Goto, flags, wire
<1>8. CASE ClipStarts(c)
  BY <1>8 DEF ClipStarts, TypeOK, OneLiveTimer, Goto, flags
<1>9. CASE ClipEnds(c)
  BY <1>9 DEF ClipEnds, TypeOK, OneLiveTimer, Goto, flags
<1>10. CASE Return(c)
  <2>1. CASE locked
    BY <1>10, <2>1 DEF Return, TypeOK, OneLiveTimer, Goto, wire
  <2>2. CASE ~locked
    <3>1. Disarm /\ UNCHANGED <<keyed, locked, wire>> /\ Goto(c, "idle")
      BY <1>10, <2>2 DEF Return
    <3> QED BY <3>1, DisarmKeeps DEF TypeOK, Goto, wire
  <2> QED BY <2>1, <2>2
<1> QED BY <1>1, <1>2, <1>3, <1>4, <1>5, <1>6, <1>7, <1>8, <1>9, <1>10 DEF CallerStep

LEMMA TimerKeepsBooks ==
    ASSUME Bookkeeping, NEW k \in Timers, TimerStep(k)
    PROVE  Bookkeeping'
<1> USE DEF Bookkeeping, TypeOK, OneLiveTimer, wire
<1>1. CASE Expires(k)
  BY <1>1 DEF Expires
<1>2. CASE Fires(k)
  <2>1. CASE k # token
    BY <1>2, <2>1 DEF Fires
  <2>2. CASE k = token
    BY <1>2, <2>2 DEF Fires
  <2> QED BY <2>1, <2>2
<1>3. CASE Drops(k)
  BY <1>3 DEF Drops, KeyOff
<1> QED BY <1>1, <1>2, <1>3 DEF TimerStep

LEMMA BooksKept ==
    ASSUME Bookkeeping, [Next]_vars
    PROVE  Bookkeeping'
<1>1. CASE \E c \in Callers : CallerStep(c)
  BY <1>1, CallerKeepsBooks
<1>2. CASE \E k \in Timers : TimerStep(k)
  BY <1>2, TimerKeepsBooks
<1>3. CASE UNCHANGED vars
  BY <1>3 DEF vars, Bookkeeping, TypeOK, OneLiveTimer
<1> QED BY <1>1, <1>2, <1>3 DEF Next

LEMMA BooksInit == Init => Bookkeeping
BY TimersAssumption DEF Init, Bookkeeping, TypeOK, OneLiveTimer

(* The variables keep their types, whatever threads call and whatever the  *)
(* radio refuses.                                                          *)
THEOREM TypeCorrect == Spec => []TypeOK
<1>1. Bookkeeping => TypeOK
  BY DEF Bookkeeping
<1> QED BY <1>1, BooksInit, BooksKept, PTL DEF Spec

(* _arm and _disarm keep at most one timer that can cut an over, and the   *)
(* token names it, under every interleaving of callers and timer threads.  *)
THEOREM OneTimerLives == Spec => []OneLiveTimer
<1>1. Bookkeeping => OneLiveTimer
  BY DEF Bookkeeping
<1> QED BY <1>1, BooksInit, BooksKept, PTL DEF Spec

-----------------------------------------------------------------------------
(* A single caller c.  The parts say what the flags are worth at each      *)
(* point of its calls: a held key is always watched, a one-shot never runs *)
(* under a held key, and the line is high only for a key the radio holds,  *)
(* for a clip, or while somebody is dropping it.                           *)
SoleInv(c) ==
    /\ line => radioKeyed \/ Dropping \/ pc[c] \in {"playing", "playing frame"}
    /\ pc[c] = "playing" /\ line => Watched \/ Dropping
    /\ radioKeyed => keyed \/ Dropping
    /\ keyed => Watched
    /\ pc[c] = "on" => keyed
    /\ pc[c] \in {"on", "oneshot"} => Watched /\ timer[token] = "armed"
    /\ pc[c] \in {"oneshot", "playing", "return"} => ~keyed

LEMMA SoleImplies ==
    ASSUME NEW c, Callers = {c}, SoleInv(c)
    PROVE  KeyIsCapped /\ HeldIsKnown
BY DEF SoleInv, KeyIsCapped, HeldIsKnown, Straggling

LEMMA SoleCaller ==
    ASSUME NEW c, Callers = {c}, "key_down" \notin Faults,
           Bookkeeping, SoleInv(c), CallerStep(c)
    PROVE  SoleInv(c)'
<1> USE DEF Bookkeeping
<1>t. TypeOK /\ c \in Callers
  OBVIOUS
<1>1. CASE PttOn(c)
  <2>1. Arm /\ keyed' = TRUE /\ Goto(c, "on") /\ UNCHANGED wire
    BY <1>1 DEF PttOn
  <2>2. token' # NoTimer /\ timer'[token'] = "armed"
    BY <2>1, ArmKeeps, TimersAssumption
  <2>3. pc'[c] = "on" /\ pc[c] = "idle"
    BY <1>t, <1>1 DEF PttOn, Goto, TypeOK
  <2>4. Dropping => Dropping'
    <3>1. \A k \in Timers : timer[k] = "dropping" => timer'[k] = "dropping"
      <4>1. PICK j \in Timers : timer[j] = "none" /\ timer' = [Cancelled EXCEPT ![j] = "armed"]
        BY <2>1 DEF Arm
      <4> QED BY <4>1, <1>t DEF Cancelled, TypeOK
    <3> QED BY <3>1, <2>3 DEF Dropping
  <2> QED BY <2>1, <2>2, <2>3, <2>4 DEF SoleInv, Watched, wire
<1>2. CASE PttOff(c)
  <2>1. keyed' = FALSE /\ UNCHANGED wire /\ pc'[c] = "off"
    BY <1>t, <1>2 DEF PttOff, Goto, TypeOK
  <2>2. Dropping'
    BY <2>1 DEF Dropping
  <2> QED BY <2>1, <2>2 DEF SoleInv
<1>3. CASE RadioOn(c)
  <2>1. pc[c] = "on" /\ pc'[c] = "idle" /\ radioKeyed' = TRUE /\ UNCHANGED flags
    BY <1>t, <1>3 DEF RadioOn, Goto, TypeOK
  <2> QED BY <2>1 DEF SoleInv, Watched, flags
<1>4. CASE RadioRefuses(c)
  <2>1. pc[c] = "on" /\ pc'[c] = "idle" /\ UNCHANGED <<flags, wire>>
    BY <1>t, <1>4 DEF RadioRefuses, Goto, TypeOK
  <2>2. Dropping => Dropping'
    BY <2>1 DEF Dropping, flags
  <2> QED BY <2>1, <2>2 DEF SoleInv, Watched, flags, wire
<1>5. CASE RadioOff(c)
  <2>1. /\ pc'[c] = "idle" /\ UNCHANGED flags
        /\ radioKeyed' = FALSE /\ line' = FALSE
    BY <1>t, <1>5 DEF RadioOff, KeyOff, Goto, TypeOK
  <2> QED BY <2>1 DEF SoleInv, Watched, flags
<1>6. CASE Transmit(c)
  <2>1. CASE keyed
    <3>1. pc[c] = "idle" /\ pc'[c] = "frame" /\ UNCHANGED <<flags, wire>>
      BY <1>t, <1>6, <2>1 DEF Transmit, Goto, TypeOK, flags
    <3>2. Dropping => Dropping'
      BY <3>1 DEF Dropping, flags
    <3> QED BY <3>1, <3>2 DEF SoleInv, Watched, flags, wire
  <2>2. CASE ~keyed
    <3>1. Arm /\ UNCHANGED <<keyed, wire>> /\ pc[c] = "idle" /\ pc'[c] = "oneshot"
      BY <1>t, <1>6, <2>2 DEF Transmit, Goto, TypeOK
    <3>2. token' # NoTimer /\ timer'[token'] = "armed"
      BY <3>1, ArmKeeps, TimersAssumption
    <3>3. \A k \in Timers : timer[k] = "dropping" => timer'[k] = "dropping"
      <4>1. PICK j \in Timers : timer[j] = "none" /\ timer' = [Cancelled EXCEPT ![j] = "armed"]
        BY <3>1 DEF Arm
      <4> QED BY <4>1, <1>t DEF Cancelled, TypeOK
    <3>4. Dropping => Dropping'
      BY <3>1, <3>3 DEF Dropping
    <3> QED BY <2>2, <3>1, <3>2, <3>4 DEF SoleInv, Watched, wire
  <2> QED BY <2>1, <2>2
<1>7. CASE RadioQueues(c)
  <2>1. /\ UNCHANGED <<flags, wire>>
        /\ \/ pc[c] = "oneshot" /\ pc'[c] = "return"
           \/ pc[c] = "frame" /\ pc'[c] = "idle"
    BY <1>t, <1>7 DEF RadioQueues, After, Goto, TypeOK
  <2>2. Dropping => Dropping'
    BY <2>1 DEF Dropping, flags
  <2> QED BY <2>1, <2>2 DEF SoleInv, Watched, flags, wire
<1>8. CASE ClipStarts(c)
  <2>1. /\ UNCHANGED <<flags, radioKeyed>> /\ ~radioKeyed
        /\ \/ pc[c] = "oneshot" /\ pc'[c] = "playing"
           \/ pc[c] = "frame" /\ pc'[c] = "playing frame"
    BY <1>t, <1>8 DEF ClipStarts, Goto, TypeOK
  <2> QED BY <2>1 DEF SoleInv, Watched, flags
<1>9. CASE ClipEnds(c)
  <2>1. /\ UNCHANGED <<flags, radioKeyed>> /\ line' = FALSE
        /\ \/ pc[c] = "playing" /\ pc'[c] = "return"
           \/ pc[c] = "playing frame" /\ pc'[c] = "idle"
    BY <1>t, <1>9 DEF ClipEnds, Goto, TypeOK
  <2>2. Dropping => Dropping'
    BY <2>1 DEF Dropping, flags
  <2> QED BY <2>1, <2>2 DEF SoleInv, Watched, flags
<1>10. CASE Return(c)
  <2>1. /\ UNCHANGED <<keyed, wire>> /\ pc[c] = "return" /\ pc'[c] = "idle"
        /\ Disarm \/ UNCHANGED <<token, timer>>
    BY <1>t, <1>10 DEF Return, Goto, TypeOK
  <2>2. \A k \in Timers : timer[k] = "dropping" => timer'[k] = "dropping"
    BY <2>1, <1>t DEF Disarm, Cancelled, TypeOK
  <2>3. Dropping => Dropping'
    BY <2>1, <2>2 DEF Dropping
  <2> QED BY <2>1, <2>3 DEF SoleInv, wire
<1> QED BY <1>1, <1>2, <1>3, <1>4, <1>5, <1>6, <1>7, <1>8, <1>9, <1>10 DEF CallerStep

LEMMA SoleTimer ==
    ASSUME NEW c, Callers = {c}, "key_down" \notin Faults, ~SlowKeyUp,
           Bookkeeping, SoleInv(c), NEW k \in Timers, TimerStep(k)
    PROVE  SoleInv(c)'
<1> USE DEF Bookkeeping
<1>t. TypeOK /\ c \in Callers
  OBVIOUS
<1>1. CASE Expires(k)
  <2>1. /\ UNCHANGED <<token, keyed, pc, wire>>
        /\ pc[c] \notin {"on", "oneshot"} /\ timer[k] = "armed"
        /\ timer' = [timer EXCEPT ![k] = "expired"]
    BY <1>1 DEF Expires
  <2>2. \A j \in Timers : timer[j] = "dropping" => timer'[j] = "dropping"
    BY <2>1, <1>t DEF TypeOK
  <2>3. Dropping => Dropping'
    BY <2>1, <2>2 DEF Dropping
  <2> QED BY <2>1, <2>3 DEF SoleInv, Watched, wire
<1>2. CASE Fires(k)
  <2>1. CASE k # token
    <3>1. /\ UNCHANGED <<token, keyed, pc, wire>> /\ timer[k] = "expired"
          /\ timer' = [timer EXCEPT ![k] = "none"]
      BY <1>2, <2>1 DEF Fires
    <3>2. \A j \in Timers : timer[j] = "dropping" => timer'[j] = "dropping"
      BY <3>1, <1>t DEF TypeOK
    <3>3. Dropping => Dropping'
      BY <3>1, <3>2 DEF Dropping
    <3>4. token # NoTimer => timer'[token] = timer[token]
      BY <3>1, <2>1, <1>t DEF TypeOK
    <3> QED BY <3>1, <3>3, <3>4 DEF SoleInv, Watched, wire
  <2>2. CASE k = token
    <3>1. /\ UNCHANGED <<pc, wire>> /\ timer[k] = "expired" /\ keyed' = FALSE
          /\ timer' = [timer EXCEPT ![k] = "dropping"]
      BY <1>2, <2>2 DEF Fires
    <3>2. timer'[k] = "dropping"
      BY <3>1, <1>t DEF TypeOK
    <3>3. Dropping'
      BY <3>2 DEF Dropping
    <3>4. pc[c] \notin {"on", "oneshot"}
      BY <2>2, <3>1 DEF SoleInv
    <3> QED BY <3>1, <3>3, <3>4 DEF SoleInv
  <2> QED BY <2>1, <2>2
<1>3. CASE Drops(k)
  <2>1. /\ UNCHANGED <<token, keyed, pc>> /\ timer[k] = "dropping"
        /\ timer' = [timer EXCEPT ![k] = "none"]
        /\ radioKeyed' = FALSE /\ line' = FALSE
    BY <1>3 DEF Drops, KeyOff
  <2>2. token # NoTimer => timer'[token] = timer[token]
    BY <2>1, <1>t DEF TypeOK, OneLiveTimer
  <2> QED BY <2>1, <2>2 DEF SoleInv, Watched
<1> QED BY <1>1, <1>2, <1>3 DEF TimerStep

(* One caller at a time, a key-up that is shorter than tot and a ptt(False) *)
(* that does not raise: then no carrier is ever left without a watchdog,    *)
(* and no key outlives what the wrapper knows of it.                        *)
THEOREM SoleKeyerIsCapped ==
    ASSUME NEW c, Callers = {c}, "key_down" \notin Faults, ~SlowKeyUp
    PROVE  Spec => [](KeyIsCapped /\ HeldIsKnown)
<1> DEFINE Inv == Bookkeeping /\ SoleInv(c)
<1>1. Init => Inv
  BY BooksInit DEF Init, SoleInv
<1>2. Inv /\ [Next]_vars => Inv'
  <2> SUFFICES ASSUME Inv, [Next]_vars PROVE SoleInv(c)'
    BY BooksKept
  <2>1. CASE \E x \in Callers : CallerStep(x)
    BY <2>1, SoleCaller
  <2>2. CASE \E k \in Timers : TimerStep(k)
    BY <2>2, SoleTimer
  <2>3. CASE UNCHANGED vars
    BY <2>3 DEF vars, SoleInv, Dropping, Watched
  <2> QED BY <2>1, <2>2, <2>3 DEF Next
<1>3. Inv => KeyIsCapped /\ HeldIsKnown
  BY SoleImplies
<1> QED BY <1>1, <1>2, <1>3, PTL DEF Spec

\* What the radio holds, the watchdog's own flag knows, when one thread keys.
COROLLARY SoleKeyerIsKnown ==
    ASSUME NEW c, Callers = {c}, "key_down" \notin Faults, ~SlowKeyUp
    PROVE  Spec => []HeldIsKnown
<1>1. Spec => [](KeyIsCapped /\ HeldIsKnown)
  BY SoleKeyerIsCapped
<1> QED BY <1>1, PTL
=============================================================================
