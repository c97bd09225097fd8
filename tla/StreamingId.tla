---------------------------- MODULE StreamingId ----------------------------
(***************************************************************************)
(* The station identification of the streaming talkers: the StreamingId of *)
(* services/station_id.py, shared by every TxSession (tx/session.py), which *)
(* asks it at the key-up, before each frame and at the key-down.           *)
(*                                                                         *)
(* It stamps its timer when it hands the audio out.  What happens to the   *)
(* audio is the session's: a transmit may raise.  One talker at a time     *)
(* holds the slot, so one session is enough; the timer outlives it.        *)
(***************************************************************************)
EXTENDS Naturals

CONSTANTS Interval,    \* between two identifications
          MaxTime, MaxOvers, MaxFaults,
          IdFaults     \* "ptt_fails", "id_fails", "content_fails", "closing_fails"

VARIABLES
    now,
    last_id,      \* the stamp of the timer; MaxTime + 1 for none yet
    sent,         \* when an identification last went out; MaxTime + 1 for never
    content,      \* when content last went out; MaxTime + 1 for never
    unidentified, \* content that went out without an identification in time
    keyed,        \* the session is keyed
    overs, faults

vars == <<now, last_id, sent, content, unidentified, keyed, overs, faults>>

Never == MaxTime + 1

Init ==
    /\ now = 0
    /\ last_id = Never
    /\ sent = Never
    /\ content = Never
    /\ unidentified = FALSE
    /\ keyed = FALSE
    /\ overs = 0
    /\ faults = 0

-----------------------------------------------------------------------------
\* A timer that is a tick late.
DueLate == last_id = Never \/ now - last_id > Interval

Due == last_id = Never \/ now - last_id >= Interval

Fault(kind) ==
    /\ kind \in IdFaults
    /\ faults < MaxFaults
    /\ faults' = faults + 1

\* Identify, whoever asks: the stamp, then the audio.
Identified == last_id' = now /\ sent' = now
Unsent     == last_id' = now /\ UNCHANGED sent

\* The frame after it.
InTime(at) == at # Never /\ now - at < Interval

Content ==
    /\ content' = now
    /\ unidentified' = (unidentified \/ ~InTime(sent'))

\* TxSession.close on the way out of a failed key-up: the timer was stamped a
\* moment ago, so the closing identification is not due.
Refused == keyed' = FALSE /\ UNCHANGED <<content, unidentified>>

\* _key_up, and the first frame behind it.
KeyUp ==
    /\ ~keyed
    /\ overs < MaxOvers
    /\ overs' = overs + 1
    /\ \/ Fault("ptt_fails") /\ Refused /\ UNCHANGED <<last_id, sent>>
       \/ Due /\ Fault("id_fails") /\ Refused /\ Unsent
       \/ /\ IF Due THEN Identified ELSE UNCHANGED <<last_id, sent>>
          /\ \/ keyed' = TRUE /\ Content /\ UNCHANGED faults
             \/ /\ Fault("content_fails")
                /\ keyed' = TRUE
                /\ UNCHANGED <<content, unidentified>>
    /\ UNCHANGED now

\* feed of a session that is keyed: the periodic identification first.  A
\* transmit that raises leaves the caller to close the session.
Feed ==
    /\ keyed
    /\ \/ /\ Due /\ Fault("id_fails")
          /\ Unsent
          /\ UNCHANGED <<content, unidentified>>
       \/ /\ IF Due THEN Identified ELSE UNCHANGED <<last_id, sent>>
          /\ \/ Content /\ UNCHANGED faults
             \/ Fault("content_fails") /\ UNCHANGED <<content, unidentified>>
    /\ UNCHANGED <<now, keyed, overs>>

\* close: the closing identification if it is due, best effort, and unkey.
Close ==
    /\ keyed
    /\ keyed' = FALSE
    /\ \/ Due /\ Identified /\ UNCHANGED faults
       \/ Due /\ Fault("closing_fails") /\ Unsent
       \/ ~Due /\ UNCHANGED <<last_id, sent, faults>>
    /\ UNCHANGED <<now, content, unidentified, overs>>

Tick ==
    /\ now < MaxTime
    /\ now' = now + 1
    /\ UNCHANGED <<last_id, sent, content, unidentified, keyed, overs, faults>>

Next == KeyUp \/ Feed \/ Close \/ Tick

Spec == Init /\ [][Next]_vars

-----------------------------------------------------------------------------
TypeOK ==
    /\ now \in 0..MaxTime
    /\ {last_id, sent, content} \subseteq 0..Never
    /\ unidentified \in BOOLEAN
    /\ keyed \in BOOLEAN
    /\ overs \in 0..MaxOvers
    /\ faults \in 0..MaxFaults

\* No frame of a talker goes out an interval or more after the last
\* identification that went out, whoever's over that was in.
ContentIsIdentified == ~unidentified

-----------------------------------------------------------------------------
(* For any interval and any number of overs.  What may be lost is a key-up, *)
(* or content; as long as no identification is, the stamp is the time of    *)
(* the last one, and what is sent after asking it is in time.               *)
StampIsTrue ==
    /\ now \in 0..MaxTime
    /\ last_id \in 0..Never
    /\ last_id = sent

IInv == StampIsTrue /\ ~unidentified
=============================================================================
