----------------------------- MODULE Controller -----------------------------
(***************************************************************************)
(* The over-the-air session of a radio-server station.                     *)
(*                                                                         *)
(* A caller keys a login code, then commands; the station answers through  *)
(* the radio and identifies itself, at the first over of a session, when   *)
(* the last ID is too old, and at the end.  Three objects of the code take *)
(* part: the AuthGate with its Session and verifier (auth/), the StationId *)
(* (services/station_id.py), which every over goes through, and the        *)
(* Controller (controller/engine.py), which drives both from received      *)
(* frames (`step`) and from the web API (`trigger`, `open_session`).       *)
(*                                                                         *)
(* The three operations of the controller run on the event loop without an *)
(* await, so each is one step here.  Inside a step the calls come in the   *)
(* code's order, as operators on a state record; each radio call may raise *)
(* and then skips what the code skips.  A swap of the radio builds a new   *)
(* controller around the old Session (ADR 0079).                           *)
(***************************************************************************)
EXTENDS Integers, Sequences

CONSTANTS Timeout,      \* controller.session_timeout
          IdInterval,   \* station.id_interval
          TotpInterval, \* length of a TOTP step
          Render,       \* the longest a service takes to render its audio
          CodeAt(_),    \* the code of each TOTP step
          Codes,        \* the codes a caller may key
          Spoken,       \* the announcements that are configured
          Faults,       \* what may raise
          Enforcing,    \* the values auth.totp_enabled may have
          Swaps,        \* whether the radio may be swapped
          Jumps,        \* by how much the clock may advance between steps
          MaxTime       \* the last instant that is considered

Builtins == {"id", "logout", "link", "off"}
Entries == Codes \cup Builtins \cup {"service"}

\* BOUND: one received frame completes at most two entries.
Frames == {<<>>} \cup {<<d>> : d \in Entries} \cup (Entries \X Entries)

ASSUME TimesAssumption ==
    /\ Timeout \in Nat /\ IdInterval \in Nat /\ Render \in Nat
    /\ TotpInterval \in Nat \ {0}
    /\ Jumps \subseteq Nat
ASSUME SettingsAssumption ==
    /\ Spoken \subseteq {"login", "timeout", "logout", "link", "off"}
    /\ Faults \subseteq {"refused", "broken", "render"}
    /\ Enforcing \subseteq BOOLEAN
    /\ Swaps \in BOOLEAN
    /\ Codes \cap (Builtins \cup {"service"}) = {}

VARIABLES
    now,           \* the wall clock, which every part reads
    auth,          \* Session.state = AUTHENTICATED
    last,          \* Session.last_activity
    consumed,      \* TotpVerifier._consumed
    sent,          \* StationId._transmitted_this_session
    lastId,        \* StationId._last_id
    enforce,       \* AuthGate._enforce
    wired,         \* Controller.on_event is the hub's
    ledger,        \* the last session event the hub was told of
    did,           \* history: what the last step reported and put on the air
    idAt,          \* history: when an ID was last on the air
    lapsed,        \* history: some over went out with no ID for too long
    used           \* history: the codes this verifier accepted

vars == <<now, auth, last, consumed, sent, lastId, enforce, wired,
          ledger, did, idAt, lapsed, used>>

Never == -1     \* None, for a time

-----------------------------------------------------------------------------
(* What the operations change, as a value.  `ret` is what the last call    *)
(* returned and `raised` that it raised, past which the code does nothing. *)

Here == [now |-> now, auth |-> auth, last |-> last, consumed |-> consumed,
         sent |-> sent, lastId |-> lastId, ledger |-> ledger, did |-> {},
         idAt |-> idAt, lapsed |-> lapsed, used |-> used,
         ret |-> "none", raised |-> FALSE]

Become(s) ==
    /\ now' = s.now
    /\ auth' = s.auth
    /\ last' = s.last
    /\ consumed' = s.consumed
    /\ sent' = s.sent
    /\ lastId' = s.lastId
    /\ ledger' = s.ledger
    /\ did' = s.did
    /\ idAt' = s.idAt
    /\ lapsed' = s.lapsed
    /\ used' = s.used

\* Controller._emit, through on_event to the hub and the ledger.
Emit(s, phase) ==
    [s EXCEPT !.did = @ \cup {phase},
              !.ledger = IF wired /\ phase \in {"session_open", "session_close"}
                         THEN phase ELSE @]

-----------------------------------------------------------------------------
(* The radio, and StationId over it.                                       *)

\* An over without an ID lapses when the last ID is older than the interval
\* and the time by which `now` may be stale in a step that rendered.
Lapses(s) == s.idAt = Never \/ s.now - s.idAt >= IdInterval + Render

\* An over is on the air.
OnAir(s, id) ==
    IF id THEN [s EXCEPT !.idAt = s.now, !.did = @ \cup {"ID"}]
    ELSE [s EXCEPT !.lapsed = @ \/ Lapses(s), !.did = @ \cup {"over"}]

\* radio.transmit: it may refuse before anything is keyed, or raise when the
\* over has been out.
RadioTransmit(s, id) ==
    {[OnAir(s, id) EXCEPT !.raised = FALSE]}
    \cup {x \in {[s EXCEPT !.raised = TRUE]} : "refused" \in Faults}
    \cup {x \in {[OnAir(s, id) EXCEPT !.raised = TRUE]} : "broken" \in Faults}

Due(s, t) == s.lastId = Never \/ t - s.lastId >= IdInterval

\* Mutant of Transmit: the ID is stamped while the over is being built.
TransmitStampsFirst(s, t) ==
    {[r EXCEPT !.sent = @ \/ ~r.raised] :
        r \in RadioTransmit([s EXCEPT !.lastId = IF Due(s, t) THEN t ELSE @],
                            Due(s, t))}

\* StationId.transmit: the ID goes ahead of the over when it is due, and
\* counts only when the radio call has returned.
Transmit(s, t) ==
    {IF r.raised THEN r
     ELSE [r EXCEPT !.sent = TRUE, !.lastId = IF Due(s, t) THEN t ELSE @] :
        r \in RadioTransmit(s, Due(s, t))}

\* StationId.identify.
Identify(s, t) ==
    {IF r.raised THEN r ELSE [r EXCEPT !.sent = TRUE, !.lastId = t, !.ret = "true"] :
        r \in RadioTransmit(s, TRUE)}

\* StationId.check.
Check(s, t) ==
    IF s.sent /\ Due(s, t)
    THEN {IF r.raised THEN r ELSE [r EXCEPT !.lastId = t, !.ret = "true"] :
            r \in RadioTransmit(s, TRUE)}
    ELSE {[s EXCEPT !.ret = "false"]}

\* StationId._reset and begin_session.
BeginSession(s) == [s EXCEPT !.sent = FALSE, !.lastId = Never]

\* Mutant of SignOff: the reset comes before the question whether to sign.
SignOffResetsFirst(s, t) == {[BeginSession(s) EXCEPT !.ret = "false"]}

\* StationId.sign_off.
SignOff(s, t) ==
    IF s.sent
    THEN {IF r.raised THEN r ELSE [BeginSession(r) EXCEPT !.ret = "true"] :
            r \in RadioTransmit(s, TRUE)}
    ELSE {[BeginSession(s) EXCEPT !.ret = "false"]}

\* Controller._keying around a call: a failure is reported and reads FALSE;
\* a strict caller gets it raised again.
Keyed(R, strict) ==
    {IF r.raised
     THEN [Emit(r, "tx_failed") EXCEPT !.ret = "false", !.raised = strict]
     ELSE r : r \in R}

\* Controller._keying("announcement", ...) of a line that may be blank.
Announce(s, line, t, strict) ==
    IF line \in Spoken THEN Keyed(Transmit(s, t), strict) ELSE {s}

-----------------------------------------------------------------------------
(* AuthGate and its verifier.                                              *)

StepAt(t) == t \div TotpInterval

\* Mutant of VerifyAndBurn: the burn is dropped a step too early.
VerifyPrunesEarly(s, d, t) ==
    LET kept == {k \in s.consumed : k[2] >= StepAt(t)}
        fits == {n \in (StepAt(t) - 1)..(StepAt(t) + 1) : CodeAt(n) = d}
        step == CHOOSE n \in fits : \A o \in fits : n <= o
        key == <<d, step>>
    IN  IF fits = {} \/ key \in kept
        THEN [s EXCEPT !.consumed = kept, !.ret = "rejected"]
        ELSE [s EXCEPT !.consumed = kept \cup {key}, !.used = @ \cup {key},
                       !.auth = TRUE, !.ret = "accepted"]

\* TotpVerifier.verify_and_burn and what on_dtmf makes of it: the earliest
\* step of the window whose code it is, if not burned already.
VerifyAndBurn(s, d, t) ==
    LET kept == {k \in s.consumed : k[2] >= StepAt(t) - 1}
        fits == {n \in (StepAt(t) - 1)..(StepAt(t) + 1) : CodeAt(n) = d}
        step == CHOOSE n \in fits : \A o \in fits : n <= o
        key == <<d, step>>
    IN  IF fits = {} \/ key \in kept
        THEN [s EXCEPT !.consumed = kept, !.ret = "rejected"]
        ELSE [s EXCEPT !.consumed = kept \cup {key}, !.used = @ \cup {key},
                       !.auth = TRUE, !.ret = "accepted"]

Idle(s, t) == s.auth /\ t - s.last > Timeout

\* AuthGate.expire_if_idle.
Expire(s, t) == IF Idle(s, t) THEN [s EXCEPT !.auth = FALSE] ELSE s

\* Dispatcher.__call__: a miss does nothing; a hit renders, which takes time
\* and may raise, and transmits at the time it is then.  Only the transmit is
\* guarded.  BOUND: MaxTime.
Dispatch(s, d) ==
    IF d # "service" THEN {[s EXCEPT !.ret = "miss"]}
    ELSE UNION {LET r == [s EXCEPT !.now = @ + k]
                IN  {[x EXCEPT !.ret = IF x.raised THEN "error" ELSE "sent",
                               !.raised = FALSE] : x \in Transmit(r, r.now)}
                    \cup {x \in {[r EXCEPT !.raised = TRUE]} : "render" \in Faults} :
                k \in {n \in 0..Render : s.now + n <= MaxTime}}

\* Mutant of OnDtmf: it does not look whether the session is idle.
OnDtmfUnexpired(s, d, t) ==
    LET e == [s EXCEPT !.last = t]
    IN  IF ~enforce THEN Dispatch([e EXCEPT !.auth = TRUE, !.did = @ \cup {"ran"}], d)
        ELSE IF ~e.auth THEN {VerifyAndBurn(e, d, t)}
        ELSE Dispatch([e EXCEPT !.did = @ \cup {"ran"}], d)

\* Mutant of OnDtmf: it stamps when the session will be idle.
OnDtmfStampsDeadline(s, d, t) ==
    LET e == [Expire(s, t) EXCEPT !.last = t + Timeout]
    IN  IF ~enforce THEN Dispatch([e EXCEPT !.auth = TRUE, !.did = @ \cup {"ran"}], d)
        ELSE IF ~e.auth THEN {VerifyAndBurn(e, d, t)}
        ELSE Dispatch([e EXCEPT !.did = @ \cup {"ran"}], d)

\* AuthGate.on_dtmf.
OnDtmf(s, d, t) ==
    LET e == [Expire(s, t) EXCEPT !.last = t]
    IN  IF ~enforce THEN Dispatch([e EXCEPT !.auth = TRUE, !.did = @ \cup {"ran"}], d)
        ELSE IF ~e.auth THEN {VerifyAndBurn(e, d, t)}
        ELSE Dispatch([e EXCEPT !.did = @ \cup {"ran"}], d)

-----------------------------------------------------------------------------
(* Controller.                                                             *)

\* Controller._close_session.
CloseSession(s, line, t, strict) ==
    {IF c.raised THEN c ELSE Emit(c, "session_close") :
        c \in UNION {IF a.raised THEN {a} ELSE Keyed(SignOff(a, t), strict) :
                     a \in Announce(s, line, t, strict)}}

\* Controller._run_command for a built-in: the ID on demand, the logout, and
\* the two link commands, whose effect on the link is elsewhere.
RunCommand(s, d, t, strict) ==
    IF d = "id"
    THEN {IF r.ret = "true" /\ ~r.raised THEN Emit(r, "id") ELSE r :
            r \in Keyed(Identify(s, t), strict)}
    ELSE IF d = "logout"
    THEN IF s.auth THEN CloseSession([s EXCEPT !.auth = FALSE], "logout", t, strict)
         ELSE {s}
    ELSE {IF r.raised THEN r ELSE Emit(r, "link") : r \in Announce(s, d, t, strict)}

\* The login of step and open_session: arm the ID, greet, report.
Welcome(s, t) ==
    {Emit(Emit(a, "auth_accepted"), "session_open") :
        a \in Announce(BeginSession(s), "login", t, FALSE)}

\* The COMMAND branch of step, given what the dispatcher returned.
AfterDispatch(s, d, t, strict) ==
    LET e == IF s.ret = "error" THEN Emit(s, "tx_failed") ELSE s
    IN  IF d \in Builtins THEN RunCommand(e, d, t, strict)
        ELSE {IF s.ret = "sent" THEN Emit(e, "command") ELSE e}

\* One entry of step: dropping the link is not gated; an implicit login, with
\* auth off, opens the session when the command has run.
Entry(s, d, t) ==
    IF d = "off" THEN RunCommand(s, d, t, FALSE)
    ELSE UNION {IF r.raised THEN {r}
                ELSE IF r.ret = "accepted" THEN Welcome(r, t)
                ELSE IF r.ret = "rejected" THEN {Emit(r, "auth_rejected")}
                ELSE IF ~s.auth /\ r.auth
                THEN AfterDispatch(Emit(BeginSession(r), "session_open"), d, t, FALSE)
                ELSE AfterDispatch(r, d, t, FALSE) :
                r \in OnDtmf(s, d, t)}

Handle(s, es, t) ==
    IF Len(es) = 0 THEN {s}
    ELSE IF Len(es) = 1 THEN Entry(s, es[1], t)
    ELSE UNION {IF r.raised THEN {r} ELSE Entry(r, es[2], t) :
                r \in Entry(s, es[1], t)}

\* The end of step: close an idle session, or identify when overdue.
Sweep(s, t) ==
    IF Idle(s, t) THEN CloseSession(Expire(s, t), "timeout", t, FALSE)
    ELSE IF s.auth
    THEN {IF r.ret = "true" THEN Emit(r, "id") ELSE r : r \in Keyed(Check(s, t), FALSE)}
    ELSE {s}

-----------------------------------------------------------------------------
Init ==
    /\ now = TotpInterval
    /\ auth = FALSE
    /\ last = 0
    /\ consumed = {}
    /\ sent = FALSE
    /\ lastId = Never
    /\ enforce \in Enforcing
    /\ wired = TRUE
    /\ ledger = "none"
    /\ did = {}
    /\ idAt = Never
    /\ lapsed = FALSE
    /\ used = {}

\* Controller.step on a received frame.  What it raises ends it, and the pump
\* swallows it.
Step ==
    /\ \E es \in Frames :
         \E s \in UNION {IF r.raised THEN {r} ELSE Sweep(r, now) :
                         r \in Handle(Here, es, now)} :
           Become(s)
    /\ UNCHANGED <<enforce, wired>>

\* Mutant of OpenOutcomes: a refused greeting fails the request (ADR 0152).
OpenStrictly(s) ==
    IF s.auth THEN {[s EXCEPT !.last = s.now]}
    ELSE {IF a.raised THEN a ELSE Emit(Emit(a, "auth_accepted"), "session_open") :
            a \in Announce(BeginSession([s EXCEPT !.auth = TRUE, !.last = s.now]),
                           "login", s.now, TRUE)}

\* Controller.open_session with AuthGate.open.
OpenOutcomes(s) ==
    IF s.auth THEN {[s EXCEPT !.last = s.now]}
    ELSE Welcome([s EXCEPT !.auth = TRUE, !.last = s.now], s.now)

OpenSession ==
    /\ \E s \in OpenOutcomes(Here) : Become(s)
    /\ UNCHANGED <<enforce, wired>>

\* Controller.trigger: built-ins are strict, a service is not.
Trigger ==
    /\ \E d \in Builtins \cup {"service"} :
         \E s \in IF d \in Builtins THEN RunCommand(Here, d, now, TRUE)
                  ELSE UNION {IF r.raised THEN {r}
                              ELSE AfterDispatch(r, d, now, TRUE) :
                              r \in Dispatch(Here, d)} :
           Become(s)
    /\ UNCHANGED <<enforce, wired>>

\* /radio/select: a new controller, station ID and verifier around the old
\* Session.  Nothing points its on_event at the hub.
Swap ==
    /\ Swaps
    /\ Become([BeginSession(Here) EXCEPT !.consumed = {}, !.used = {}])
    /\ wired' = FALSE
    /\ UNCHANGED enforce

\* BOUND: MaxTime.  The clock does not go back.
Tick ==
    /\ \E k \in Jumps : now + k <= MaxTime /\ now' = now + k
    /\ did' = {}
    /\ UNCHANGED <<auth, last, consumed, sent, lastId, enforce, wired, ledger,
                   idAt, lapsed, used>>

Next == Step \/ OpenSession \/ Trigger \/ Swap \/ Tick

Spec == Init /\ [][Next]_vars

-----------------------------------------------------------------------------
Phases == {"session_open", "session_close", "id", "tx_failed", "auth_accepted",
           "auth_rejected", "command", "link"}
Times == {Never} \cup 0..now

\* Types, and no time of the session or of an ID is in the future.
TypeOK ==
    /\ now \in Nat
    /\ auth \in BOOLEAN
    /\ last \in 0..now
    /\ consumed \subseteq Entries \X Int
    /\ used \subseteq Entries \X Int
    /\ sent \in BOOLEAN
    /\ lastId \in Times
    /\ idAt \in Times
    /\ enforce \in Enforcing
    /\ wired \in BOOLEAN
    /\ ledger \in {"none", "session_open", "session_close"}
    /\ did \subseteq Phases \cup {"ran", "ID", "over"}
    /\ lapsed \in BOOLEAN

\* A session that is open is one the ledger knows about, whatever the radio,
\* a service or the API did in between; with auth enforced, and as long as the
\* controller reports to the hub (test_controller.py:1287, ADR 0152).
OpenIsRecorded == wired /\ enforce /\ auth => ledger = "session_open"

\* The same of every session: what the code promises without conditions.
EveryOpenIsRecorded == auth => ledger = "session_open"

\* The ten-minute rule: no over goes out without an ID when the last ID that
\* was really on the air is older than the interval, whatever was refused,
\* was rendered late or belonged to another session (station_id.py:108).
OversAreIdentified == ~lapsed

\* One verifier accepts a code once per time step: what it burns is new to it,
\* also when the burn was pruned meanwhile (totp.py:69).
NoReplay == [][(consumed' \ consumed) \cap used = {}]_vars

\* No command runs in a session that had been idle for too long when it came,
\* unless a login came ahead of it in the same frame (session.py:146).
IdleTakesNoCommand ==
    [][enforce /\ "ran" \in did'
         => (auth /\ now - last <= Timeout) \/ "auth_accepted" \in did']_vars

\* When the close of a session is reported and the station had transmitted in
\* it, an ID was on the air in that step or its failure was reported
\* (engine.py:413, Part 97); a session that a login replaced because it was
\* idle is not the one that closes.
CloseIsSignedOff ==
    [][auth /\ sent /\ "session_close" \in did'
         /\ (now - last <= Timeout \/ "session_open" \notin did')
         => did' \cap {"ID", "tx_failed"} # {}]_vars

\* Every end of a session in which the station transmitted is signed off.
EndsAreSignedOff ==
    [][auth /\ ~auth' /\ sent => did' \cap {"ID", "tx_failed"} # {}]_vars
=============================================================================
