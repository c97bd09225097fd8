------------------------------ MODULE KvRadio ------------------------------
(***************************************************************************)
(* Keying a kv4p HT (backends/kv4p/radio.py, pacer.py): PTT is a flag of   *)
(* the desired state that every reconcile sends whole, and while a key is  *)
(* held a pacer thread sends one frame a slot, of the talker's audio or of *)
(* silence.  The talker's thread and the time-out's thread call ptt.       *)
(*                                                                         *)
(* Audio is counted in half frames: the units the talker queues are 1, 2,  *)
(* ... in order, Silence is 0.  The link below (KvLink) is taken by what   *)
(* its calls do: apply, raise, or starve for credit.                       *)
(***************************************************************************)
EXTENDS Naturals, Sequences, FiniteSets

CONSTANTS
    Threads,     \* the talker's, and the time-out's if it is among them
    MaxUnits,    \* bound on the units the talker queues
    MaxBuffer,   \* the pacer's buffer, in units
    MaxKeyings,  \* bound on the key-ups
    LeadUnits,   \* silence sent after a key-up, in units
    RadioFaults  \* what may go wrong, one of them in a behaviour

\* "no_key": the device does not go on the air.  "unapplied": a reconcile is not
\* acknowledged in time.  "starved": sending audio finds no credit.
RadioAssumption ==
    /\ {MaxUnits, MaxBuffer, MaxKeyings, LeadUnits} \subseteq Nat
    /\ "talker" \in Threads
    /\ RadioFaults \subseteq {"none", "no_key", "unapplied", "starved"}

VARIABLES
    radio,   \* Kv4pHt: keyed, the PTT flag of the desired state, closed, and the
             \* keying whose encoder (tx) and whose pacer it refers to
    pc,      \* where each thread's call is, and the keying it works on
    pacer,   \* each keying's pacer thread: where it is, and its stop flag
    buf,     \* each pacer's queued units
    chunk,   \* what a tick has taken
    acc,     \* each encoder's units of an unfinished frame
    air,     \* the talker's units that were sent, in order
    gone,    \* those given up: dropped by a full buffer or for want of credit
    queued,  \* how many the talker has queued
    device   \* the device: on the air or not, key-ups so far, the fault

vars == <<radio, pc, pacer, buf, chunk, acc, air, gone, queued, device>>
audioVars == <<pacer, buf, chunk, acc, air, gone, queued>>

Keyings == 1 .. MaxKeyings
Silence == 0
Units == 1 .. MaxUnits
Idle == [at |-> "idle", k |-> 0]
Fault(f) == device.fault = f

\* The units in a sequence, and the sequence without its silence.
UnitsOf(s) == {s[i] : i \in 1 .. Len(s)} \ {Silence}
Nth(places, n) == CHOOSE p \in places : Cardinality({q \in places : q <= p}) = n
Heard(s) ==
    LET loud == {i \in 1 .. Len(s) : s[i] # Silence}
    IN  [n \in 1 .. Cardinality(loud) |-> s[Nth(loud, n)]]

Room == {n \in 1 .. 2 : queued + n <= MaxUnits}

Init ==
    /\ radio = [keyed |-> FALSE, ptt |-> FALSE, tx |-> 0, pacer |-> 0, closed |-> FALSE]
    /\ pc = [t \in Threads |-> Idle]
    /\ pacer = [k \in Keyings |-> [st |-> "none", stop |-> FALSE]]
    /\ buf = [k \in Keyings |-> <<>>] /\ chunk = buf /\ acc = buf
    /\ air = <<>> /\ gone = {} /\ queued = 0
    /\ device \in [tx : {FALSE}, keyings : {0}, fault : RadioFaults]

-----------------------------------------------------------------------------
(* The encoder: whole frames of two units go out, the rest is held.        *)

Whole(s) == SubSeq(s, 1, 2 * (Len(s) \div 2))
Rest(s) == SubSeq(s, 2 * (Len(s) \div 2) + 1, Len(s))

\* Units that are sent, or lost for want of credit where that is swallowed.
Emit(s) ==
    IF Fault("starved") THEN gone' = gone \cup UnitsOf(s) /\ UNCHANGED air
    ELSE air' = air \o Heard(s) /\ UNCHANGED gone

\* flush pads what is held to a frame and sends it.
Push(k, s) == Emit(Whole(acc[k] \o s)) /\ acc' = [acc EXCEPT ![k] = Rest(@ \o s)]
PushAndFlush(k, s) == Emit(acc[k] \o s) /\ acc' = [acc EXCEPT ![k] = <<>>]

Moves(t, at, k) == pc' = [pc EXCEPT ![t] = [at |-> at, k |-> k]]

-----------------------------------------------------------------------------
(* Key-up.                                                                 *)

\* _key_on: a fresh encoder, the flag set, the reconcile, and TX_ACTIVE seen;
\* else the flag is taken back.  A reconcile that raises leaves the flag.
KeyOn(next) ==
    LET k == device.keyings + 1 IN
    /\ pc["talker"] = Idle /\ ~radio.keyed /\ ~radio.closed /\ k \in Keyings
    /\ \/ /\ ~Fault("no_key")
          /\ radio' = [radio EXCEPT !.ptt = TRUE, !.tx = k]
          /\ device' = [device EXCEPT !.tx = TRUE, !.keyings = k]
          /\ Moves("talker", next, k)
       \/ /\ Fault("no_key")
          /\ radio' = [radio EXCEPT !.ptt = FALSE, !.tx = 0]
          /\ device' = [device EXCEPT !.keyings = k]
          /\ UNCHANGED pc
       \/ /\ Fault("unapplied")
          /\ radio' = [radio EXCEPT !.ptt = TRUE, !.tx = k]
          /\ \E tx \in BOOLEAN : device' = [device EXCEPT !.tx = tx, !.keyings = k]
          /\ UNCHANGED pc
    /\ UNCHANGED audioVars

PttOn == KeyOn("leading")

\* The lead-in is sent by the caller itself; then the pacer starts.
Leads ==
    LET k == pc["talker"].k IN
    /\ pc["talker"].at = "leading" /\ ~Fault("starved")
    /\ acc' = [acc EXCEPT ![k] = Rest([i \in 1 .. LeadUnits |-> Silence])]
    /\ pacer' = [pacer EXCEPT ![k].st = "waiting"]
    /\ radio' = [radio EXCEPT !.pacer = k, !.keyed = TRUE]
    /\ pc' = [pc EXCEPT !["talker"] = Idle]
    /\ UNCHANGED <<buf, chunk, air, gone, queued, device>>

\* A starved lead-in raises out of the key-up, with the device on the air.
LeadRaises ==
    /\ pc["talker"].at \in {"leading", "clip"} /\ Fault("starved")
    /\ pc' = [pc EXCEPT !["talker"] = Idle]
    /\ UNCHANGED <<radio, audioVars, device>>

-----------------------------------------------------------------------------
(* transmit.                                                               *)

Fresh(n) == [i \in 1 .. n |-> queued + i]

\* A held key: the frame is queued, the oldest units go when there is no room.
Streams(n) ==
    LET k == radio.pacer
        all == buf[k] \o Fresh(n)
        over == IF Len(all) > MaxBuffer THEN Len(all) - MaxBuffer ELSE 0
    IN  /\ pc["talker"] = Idle /\ radio.keyed /\ k # 0
        /\ buf' = [buf EXCEPT ![k] = SubSeq(all, over + 1, Len(all))]
        /\ gone' = gone \cup UnitsOf(SubSeq(all, 1, over))
        /\ queued' = queued + n
        /\ UNCHANGED <<radio, pc, pacer, chunk, acc, air, device>>

\* The key counts as held, but a key-down has taken the pacer: transmit raises.
StreamBreaks ==
    /\ pc["talker"] = Idle /\ radio.keyed /\ radio.pacer = 0
    /\ queued < MaxUnits
    /\ queued' = queued + 1 /\ gone' = gone \cup {queued + 1}
    /\ UNCHANGED <<radio, pc, pacer, buf, chunk, acc, air, device>>

\* No key is held: the clip keys for itself, sends, flushes and drops.
OneShot == KeyOn("clip")

ClipEnds(n) ==
    /\ pc["talker"].at = "clip" /\ ~Fault("starved")
    /\ PushAndFlush(pc["talker"].k, Fresh(n))
    /\ queued' = queued + n
    /\ Moves("talker", "dropping", 0)
    /\ radio' = [radio EXCEPT !.tx = 0]
    /\ UNCHANGED <<pacer, buf, chunk, device>>

-----------------------------------------------------------------------------
(* A pacer thread: every slot one frame.                                   *)

TickTakes(k) ==
    /\ pacer[k].st = "waiting" /\ ~pacer[k].stop
    /\ pacer' = [pacer EXCEPT ![k].st = "ticking"]
    /\ IF Len(buf[k]) >= 2
       THEN /\ chunk' = [chunk EXCEPT ![k] = SubSeq(buf[k], 1, 2)]
            /\ buf' = [buf EXCEPT ![k] = SubSeq(@, 3, Len(@))]
       ELSE chunk' = [chunk EXCEPT ![k] = <<Silence, Silence>>] /\ UNCHANGED buf
    /\ UNCHANGED <<radio, pc, acc, air, gone, queued, device>>

TickSends(k) ==
    /\ pacer[k].st = "ticking"
    /\ Push(k, chunk[k])
    /\ chunk' = [chunk EXCEPT ![k] = <<>>]
    /\ pacer' = [pacer EXCEPT ![k].st = "waiting"]
    /\ UNCHANGED <<radio, pc, buf, queued, device>>

-----------------------------------------------------------------------------
(* Key-down, by either thread.                                             *)

PttOff(t) ==
    LET k == radio.pacer IN
    /\ pc[t] = Idle /\ radio.keyed /\ ~radio.closed
    /\ radio' = [radio EXCEPT !.pacer = 0]
    /\ pacer' = [j \in Keyings |-> IF j = k THEN [pacer[j] EXCEPT !.stop = TRUE] ELSE pacer[j]]
    /\ Moves(t, IF k = 0 THEN "dropping" ELSE "joining", k)
    /\ UNCHANGED <<buf, chunk, acc, air, gone, queued, device>>

\* The join outlasts any write of the pacer's.
Joins(t) ==
    /\ pc[t].at = "joining" /\ pacer[pc[t].k].st = "waiting"
    /\ pacer' = [pacer EXCEPT ![pc[t].k].st = "none"]
    /\ Moves(t, "flushing", pc[t].k)
    /\ UNCHANGED <<radio, buf, chunk, acc, air, gone, queued, device>>

FlushesTail(t) ==
    LET k == pc[t].k IN
    /\ pc[t].at = "flushing"
    /\ PushAndFlush(k, buf[k])
    /\ buf' = [buf EXCEPT ![k] = <<>>]
    /\ Moves(t, "dropping", 0)
    /\ radio' = [radio EXCEPT !.tx = 0]
    /\ UNCHANGED <<pacer, chunk, queued, device>>

\* _drop_ptt: the flag cleared and reconciled; only then is the key not held.
Drops(t) ==
    /\ pc[t].at = "dropping"
    /\ pc' = [pc EXCEPT ![t] = Idle]
    /\ device' = [device EXCEPT !.tx = FALSE]
    /\ radio' = [radio EXCEPT !.ptt = FALSE, !.keyed = FALSE]
    /\ UNCHANGED audioVars

\* The reconcile is not acknowledged: the key still counts as held.
DropRaises(t) ==
    /\ Fault("unapplied") /\ pc[t].at = "dropping"
    /\ pc' = [pc EXCEPT ![t] = Idle]
    /\ \E tx \in {FALSE, device.tx} : device' = [device EXCEPT !.tx = tx]
    /\ radio' = [radio EXCEPT !.ptt = FALSE]
    /\ UNCHANGED audioVars

-----------------------------------------------------------------------------
\* set_frequency and its like send the whole desired state, PTT flag included.
Retunes ==
    /\ pc["talker"] = Idle /\ ~radio.closed
    /\ device' = [device EXCEPT !.tx = IF Fault("no_key") THEN FALSE ELSE radio.ptt]
    /\ UNCHANGED <<radio, pc, audioVars>>

\* close drops a held key first, then the transport echoes the state without it.
Closes ==
    /\ \A t \in Threads : pc[t] = Idle
    /\ ~radio.keyed /\ ~radio.closed
    /\ radio' = [radio EXCEPT !.closed = TRUE]
    /\ device' = [device EXCEPT !.tx = FALSE]
    /\ UNCHANGED <<pc, audioVars>>

Next ==
    \/ PttOn \/ Leads \/ LeadRaises \/ OneShot \/ StreamBreaks
    \/ \E n \in Room : Streams(n) \/ ClipEnds(n)
    \/ \E k \in Keyings : TickTakes(k) \/ TickSends(k)
    \/ \E t \in Threads : PttOff(t) \/ Joins(t) \/ FlushesTail(t) \/ Drops(t) \/ DropRaises(t)
    \/ Retunes \/ Closes

Spec == Init /\ [][Next]_vars

-----------------------------------------------------------------------------
TypeOK ==
    /\ radio \in [keyed : BOOLEAN, ptt : BOOLEAN, tx : 0 .. MaxKeyings, pacer : 0 .. MaxKeyings,
                  closed : BOOLEAN]
    /\ pc \in [Threads -> [at : {"idle", "leading", "clip", "joining", "flushing", "dropping"},
                           k : 0 .. MaxKeyings]]
    /\ pacer \in [Keyings -> [st : {"none", "waiting", "ticking"}, stop : BOOLEAN]]
    /\ buf \in [Keyings -> Seq(Units)]
    /\ chunk \in [Keyings -> Seq(Units \cup {Silence})]
    /\ acc \in [Keyings -> Seq(Units \cup {Silence})]
    /\ air \in Seq(Units) /\ gone \subseteq Units /\ queued \in 0 .. MaxUnits
    /\ device \in [tx : BOOLEAN, keyings : 0 .. MaxKeyings, fault : RadioFaults]

AllIdle == \A t \in Threads : pc[t] = Idle

\* An encoder belongs to the pacer's tick or to the thread that leads in or
\* flushes with it, and a tick makes exactly one frame of it.
EncoderHasOneUser ==
    \A k \in Keyings : pacer[k].st = "ticking" =>
        /\ \A t \in Threads : pc[t].k = k => pc[t].at \notin {"leading", "clip", "flushing"}
        /\ Len(acc[k] \o chunk[k]) \in {2, 3}

\* What was queued is heard in its order, and when the key is down all of it
\* that was not given up has been heard: the tail is never cut.
TailIsSent ==
    /\ \A i, j \in 1 .. Len(air) : i < j => air[i] < air[j]
    /\ UnitsOf(air) \cap gone = {}
    /\ ~radio.keyed /\ AllIdle => UnitsOf(air) \cup gone = 1 .. queued

\* Nobody paces but for the key that is held: no pacer runs on after it.
PacersArePaired ==
    \A k \in Keyings : pacer[k].st # "none" =>
        \/ radio.keyed /\ radio.pacer = k
        \/ \E t \in Threads : pc[t] = [at |-> "joining", k |-> k]

\* A radio whose key is not held, with no call under way, does not ask to be on
\* the air: no retune can key it.
UnkeyedIsUnrequested == ~radio.keyed /\ AllIdle => ~radio.ptt
UnkeyedUnlessFaulty == device.fault \in {"none", "no_key"} => UnkeyedIsUnrequested

\* What makes it inductive: the state that asks for the carrier is that of a held
\* key or of a call that will drop it.
AskedForAKey ==
    /\ radio \in [keyed : BOOLEAN, ptt : BOOLEAN, tx : 0 .. MaxKeyings, pacer : 0 .. MaxKeyings,
                  closed : BOOLEAN]
    /\ pc \in [Threads -> [at : {"idle", "leading", "clip", "joining", "flushing", "dropping"},
                           k : 0 .. MaxKeyings]]
    /\ device \in [tx : BOOLEAN, keyings : 0 .. MaxKeyings, fault : RadioFaults]
    /\ device.fault \in {"none", "no_key"} /\ radio.ptt
          => radio.keyed \/ \E t \in Threads : pc[t].at # "idle"

-----------------------------------------------------------------------------
(* For one keying thread, and any buffer, lead-in and fault: whose turn it *)
(* is with a pacer, and where every unit is that was queued.               *)
Typed ==
    /\ pacer \in [Keyings -> [st : {"none", "waiting", "ticking"}, stop : BOOLEAN]]
    /\ {buf, chunk, acc} \subseteq [Keyings -> Seq(Nat)]
    /\ air \in Seq(Nat \ {Silence}) /\ gone \subseteq Nat /\ queued \in Nat

\* A keying's queue and encoder are empty but while its pacer lives or its tail
\* is flushed; and what a tick has taken is one frame.
Turns ==
    LET call == pc["talker"] IN
    /\ radio.pacer # 0 => radio.keyed /\ call = Idle /\ pacer[radio.pacer].st # "none"
    /\ call.at \in {"leading", "clip"} => ~radio.keyed
    /\ call.at \in {"leading", "clip", "joining", "flushing"} => call.k \in Keyings
    /\ \A k \in Keyings :
          /\ pacer[k].st = "none" /\ call # [at |-> "flushing", k |-> k]
                => acc[k] = <<>> /\ buf[k] = <<>>
          /\ Len(acc[k]) <= 1
          /\ IF pacer[k].st = "ticking" THEN Len(chunk[k]) = 2 ELSE chunk[k] = <<>>

InOrder(s) ==
    \A i, j \in 1 .. Len(s) : i < j /\ s[i] # Silence /\ s[j] # Silence => s[i] < s[j]
Before(X, Y) == \A x \in X, y \in Y : x < y
Pending(k) == UnitsOf(acc[k]) \cup UnitsOf(chunk[k]) \cup UnitsOf(buf[k])

\* Every unit queued is on the air, given up or pending, once, and they go
\* through encoder, tick and queue in their order.
Lined ==
    /\ InOrder(air)
    /\ \A k \in Keyings :
          /\ InOrder(acc[k]) /\ InOrder(chunk[k]) /\ InOrder(buf[k])
          /\ Before(UnitsOf(air), Pending(k))
          /\ Before(UnitsOf(acc[k]), UnitsOf(chunk[k]) \cup UnitsOf(buf[k]))
          /\ Before(UnitsOf(chunk[k]), UnitsOf(buf[k]))
Accounted ==
    /\ UnitsOf(air) \cup gone \cup UNION {Pending(k) : k \in Keyings} = 1 .. queued
    /\ UnitsOf(air) \cap gone = {}
    /\ \A k \in Keyings : Pending(k) \cap gone = {}

IInv == AskedForAKey /\ Typed /\ PacersArePaired /\ Turns /\ Lined /\ Accounted
=============================================================================
