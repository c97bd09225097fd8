-------------------------- MODULE ControllerProofs --------------------------
(***************************************************************************)
(* Theorems of Controller.  Core says what every state between two calls   *)
(* of an operation satisfies, on the state record; each operator of the    *)
(* module has a lemma that it preserves Core and says what else it keeps,  *)
(* so that an action is the composition of a few lemmas.                   *)
(***************************************************************************)
EXTENDS Controller, TLAPS

Returns == {"none", "true", "false", "sent", "error", "miss", "accepted",
            "rejected"}
Marks == Phases \cup {"ran", "ID", "over"}

States ==
    [now : Nat, auth : BOOLEAN, last : Int, consumed : SUBSET (Entries \X Int),
     sent : BOOLEAN, lastId : Int,
     ledger : {"none", "session_open", "session_close"},
     did : SUBSET Marks, idAt : Int, lapsed : BOOLEAN,
     used : SUBSET (Entries \X Int), ret : Returns, raised : BOOLEAN]

\* An ID that counts as sent was on the air, and not before it is counted.
Stamped(s) ==
    /\ s.lastId \in {Never} \cup 0..s.now
    /\ s.idAt \in {Never} \cup 0..s.now
    /\ s.lastId # Never => s.lastId <= s.idAt

\* A code that was accepted and is no longer burned is out of every window.
Burned(s, t) == \A k \in s.used : k \in s.consumed \/ k[2] < StepAt(t) - 1

Core(s, t) ==
    /\ s \in States
    /\ t \in Nat /\ t <= s.now
    /\ s.last \in 0..s.now
    /\ Stamped(s)
    /\ ~s.lapsed
    /\ Burned(s, t)

\* What a radio call leaves alone.
Kept(r, s) ==
    /\ r.now = s.now /\ r.auth = s.auth /\ r.last = s.last
    /\ r.consumed = s.consumed /\ r.used = s.used /\ r.ledger = s.ledger

\* What reporting leaves alone.
Same(r, s) ==
    /\ r.now = s.now /\ r.auth = s.auth /\ r.last = s.last
    /\ r.consumed = s.consumed /\ r.used = s.used

Recorded(s) == wired /\ enforce /\ s.auth => s.ledger = "session_open"

\* The codes accepted since s were not accepted before.
Fresh(r, s) ==
    /\ s.used \subseteq r.used
    /\ (r.consumed \ s.consumed) \cap s.used = {}

-----------------------------------------------------------------------------
(* An over that carries an ID, or comes soon enough after one, keeps Core  *)
(* but for the stamp, which its callers set.                               *)
LEMMA RadioKeeps ==
    ASSUME NEW t, NEW s, Core(s, t), NEW id \in BOOLEAN,
           id \/ (s.idAt # Never /\ s.now - s.idAt < IdInterval + Render),
           NEW r \in RadioTransmit(s, id)
    PROVE  /\ Core(r, t)
           /\ Kept(r, s)
           /\ r.sent = s.sent /\ r.lastId = s.lastId
           /\ id /\ ~r.raised => r.idAt = s.now
           /\ r.idAt >= s.idAt
           /\ ~r.raised => r.ret = s.ret
  <1>1. s \in States /\ s.now \in Nat /\ s.idAt \in Int
    BY DEF Core, States
  <1>2. IdInterval \in Nat /\ Render \in Nat
    BY TimesAssumption
  <1>3. DEFINE o == OnAir(s, id)
  <1>4. o \in States /\ Kept(o, s) /\ o.sent = s.sent /\ o.lastId = s.lastId
        /\ o.ret = s.ret
        /\ o.idAt = (IF id THEN s.now ELSE s.idAt)
    <2>1. CASE id
      <3>1. o = [s EXCEPT !.idAt = s.now, !.did = @ \cup {"ID"}]
        BY <2>1 DEF OnAir
      <3>2. s.did \cup {"ID"} \in SUBSET Marks /\ s.now \in Int
        BY <1>1 DEF States, Marks
      <3>3. o \in States
        BY <3>1, <3>2, <1>1 DEF States
      <3> QED
        BY <3>1, <3>3, <2>1, <1>1 DEF States, Kept
    <2>2. CASE ~id
      <3>1. ~Lapses(s) /\ ~s.lapsed
        BY <2>2, <1>1, <1>2 DEF Core, Lapses
      <3>2. o = [s EXCEPT !.lapsed = FALSE, !.did = @ \cup {"over"}]
        BY <2>2, <3>1 DEF OnAir
      <3>3. s.did \cup {"over"} \in SUBSET Marks
        BY <1>1 DEF States, Marks
      <3>4. o \in States
        BY <3>2, <3>3, <1>1 DEF States
      <3> QED
        BY <3>2, <3>4, <2>2, <1>1 DEF States, Kept
    <2> QED
      BY <2>1, <2>2
  <1>5. ~o.lapsed
    BY <1>1, <1>2 DEF OnAir, Lapses, Core, States
  <1>6. \/ r = [o EXCEPT !.raised = FALSE]
        \/ r = [s EXCEPT !.raised = TRUE]
        \/ r = [o EXCEPT !.raised = TRUE]
    BY DEF RadioTransmit
  <1>7. r \in States /\ Kept(r, s) /\ r.sent = s.sent /\ r.lastId = s.lastId
        /\ ~r.lapsed /\ (id /\ ~r.raised => r.idAt = s.now)
        /\ (~r.raised => r.ret = s.ret)
        /\ r.idAt \in {s.idAt, o.idAt}
    BY <1>1, <1>4, <1>5, <1>6, ZenonT(60) DEF States, Kept, Core
  <1>8. r.idAt >= s.idAt /\ r.idAt \in {Never} \cup 0..s.now
    BY <1>1, <1>4, <1>7 DEF Core, Stamped, Never
  <1>9. Stamped(r)
    BY <1>1, <1>7, <1>8 DEF Core, Stamped, Kept, Never, States
  <1>10. Burned(r, t)
    BY <1>7 DEF Core, Burned, Kept
  <1> QED
    BY <1>7, <1>8, <1>9, <1>10 DEF Core, Kept

\* StationId.transmit, when the time it is handed is stale by no more than
\* the time a service takes.
LEMMA TransmitKeeps ==
    ASSUME NEW t, NEW s, Core(s, t), s.now - t <= Render,
           NEW r \in Transmit(s, t)
    PROVE  Core(r, t) /\ Kept(r, s)
  <1>1. s \in States /\ s.now \in Nat /\ t \in Nat /\ t <= s.now /\ Stamped(s)
    BY DEF Core, States
  <1>2. IdInterval \in Nat /\ Render \in Nat
    BY TimesAssumption
  <1>3. Due(s, t) \in BOOLEAN
    BY DEF Due
  <1>4. Due(s, t) \/ (s.idAt # Never /\ s.now - s.idAt < IdInterval + Render)
    BY <1>1, <1>2 DEF Due, Stamped, Never
  <1>5. PICK a \in RadioTransmit(s, Due(s, t)) :
          r = IF a.raised THEN a
              ELSE [a EXCEPT !.sent = TRUE, !.lastId = IF Due(s, t) THEN t ELSE @]
    BY DEF Transmit
  <1>6. /\ Core(a, t) /\ Kept(a, s) /\ a.lastId = s.lastId
        /\ Due(s, t) /\ ~a.raised => a.idAt = s.now
    BY <1>3, <1>4, RadioKeeps
  <1>7. CASE a.raised
    BY <1>5, <1>6, <1>7
  <1>8. CASE ~a.raised /\ Due(s, t)
    <2>1. r = [a EXCEPT !.sent = TRUE, !.lastId = t]
      BY <1>5, <1>8
    <2>2. a \in States /\ t \in Int
      BY <1>6, <1>1 DEF Core
    <2>3. r \in States /\ Kept(r, a) /\ r.lastId = t /\ r.idAt = a.idAt
          /\ r.lapsed = a.lapsed
      BY <2>1, <2>2 DEF States, Kept
    <2> QED
      BY <2>3, <1>1, <1>6, <1>8 DEF Core, Kept, Stamped, Burned, Never
  <1>9. CASE ~a.raised /\ ~Due(s, t)
    <2>1. r = [a EXCEPT !.sent = TRUE, !.lastId = a.lastId]
      BY <1>5, <1>9
    <2>2. a \in States
      BY <1>6 DEF Core
    <2>3. r \in States /\ Kept(r, a) /\ r.lastId = a.lastId /\ r.idAt = a.idAt
          /\ r.lapsed = a.lapsed
      BY <2>1, <2>2 DEF States, Kept
    <2> QED
      BY <2>3, <1>1, <1>6 DEF Core, Kept, Stamped, Burned
  <1> QED
    BY <1>7, <1>8, <1>9

LEMMA IdentifyKeeps ==
    ASSUME NEW t, NEW s, Core(s, t), NEW r \in Identify(s, t)
    PROVE  Core(r, t) /\ Kept(r, s)
  <1>1. t \in Nat /\ t <= s.now
    BY DEF Core
  <1>2. PICK a \in RadioTransmit(s, TRUE) :
          r = IF a.raised THEN a
              ELSE [a EXCEPT !.sent = TRUE, !.lastId = t, !.ret = "true"]
    BY DEF Identify
  <1>3. Core(a, t) /\ Kept(a, s) /\ (~a.raised => a.idAt = s.now)
    BY RadioKeeps
  <1>4. CASE a.raised
    BY <1>2, <1>3, <1>4
  <1>5. CASE ~a.raised
    <2>1. a \in States /\ t \in Int
      BY <1>1, <1>3 DEF Core
    <2>2. r = [a EXCEPT !.sent = TRUE, !.lastId = t, !.ret = "true"]
      BY <1>2, <1>5
    <2>3. r \in States /\ Kept(r, a) /\ r.lastId = t /\ r.idAt = a.idAt
          /\ r.lapsed = a.lapsed
      BY <2>1, <2>2 DEF States, Kept, Returns
    <2> QED
      BY <2>3, <1>1, <1>3, <1>5 DEF Core, Kept, Stamped, Burned, Never
  <1> QED
    BY <1>4, <1>5

LEMMA CheckKeeps ==
    ASSUME NEW t, NEW s, Core(s, t), NEW r \in Check(s, t)
    PROVE  Core(r, t) /\ Kept(r, s)
  <1>1. t \in Nat /\ t <= s.now /\ s \in States
    BY DEF Core
  <1>2. CASE s.sent /\ Due(s, t)
    <2>1. PICK a \in RadioTransmit(s, TRUE) :
            r = IF a.raised THEN a ELSE [a EXCEPT !.lastId = t, !.ret = "true"]
      BY <1>2 DEF Check
    <2>2. Core(a, t) /\ Kept(a, s) /\ (~a.raised => a.idAt = s.now)
      BY RadioKeeps
    <2>3. CASE a.raised
      BY <2>1, <2>2, <2>3
    <2>4. CASE ~a.raised
      <3>1. a \in States /\ t \in Int
        BY <1>1, <2>2 DEF Core
      <3>2. r = [a EXCEPT !.lastId = t, !.ret = "true"]
        BY <2>1, <2>4
      <3>3. r \in States /\ Kept(r, a) /\ r.lastId = t /\ r.idAt = a.idAt
            /\ r.lapsed = a.lapsed
        BY <3>1, <3>2 DEF States, Kept, Returns
      <3> QED
        BY <3>3, <1>1, <2>2, <2>4 DEF Core, Kept, Stamped, Burned, Never
    <2> QED
      BY <2>3, <2>4
  <1>3. CASE ~(s.sent /\ Due(s, t))
    <2>1. r = [s EXCEPT !.ret = "false"]
      BY <1>3 DEF Check
    <2>2. r \in States /\ Kept(r, s) /\ r.lastId = s.lastId /\ r.idAt = s.idAt
          /\ r.lapsed = s.lapsed
      BY <2>1, <1>1 DEF States, Kept, Returns
    <2> QED
      BY <2>2 DEF Core, Kept, Stamped, Burned
  <1> QED
    BY <1>2, <1>3

LEMMA BeginKeeps ==
    ASSUME NEW t, NEW s, Core(s, t), NEW x \in Returns
    PROVE  /\ Core(BeginSession(s), t) /\ Kept(BeginSession(s), s)
           /\ Core([BeginSession(s) EXCEPT !.ret = x], t)
           /\ Kept([BeginSession(s) EXCEPT !.ret = x], s)
           /\ BeginSession(s).raised = s.raised /\ BeginSession(s).ret = s.ret
  <1>1. s \in States
    BY DEF Core
  <1>2. DEFINE b == BeginSession(s)
               c == [b EXCEPT !.ret = x]
  <1>3. b \in States /\ Kept(b, s) /\ b.lastId = Never /\ b.idAt = s.idAt
        /\ b.lapsed = s.lapsed /\ b.raised = s.raised /\ b.ret = s.ret
    <2>1. Never \in Int
      BY DEF Never
    <2>2. b \in States
      BY <1>1, <2>1 DEF BeginSession, States
    <2> QED
      BY <1>1, <2>2 DEF BeginSession, States, Kept
  <1>4. c \in States /\ Kept(c, b) /\ c.lastId = Never /\ c.idAt = b.idAt
        /\ c.lapsed = b.lapsed
    BY <1>3 DEF States, Kept
  <1> HIDE DEF b, c
  <1>5. Core(b, t)
    BY <1>3 DEF Core, Kept, Stamped, Burned
  <1>6. Core(c, t) /\ Kept(c, s)
    BY <1>3, <1>4, <1>5 DEF Core, Kept, Stamped, Burned
  <1> QED
    BY <1>3, <1>5, <1>6 DEF b, c

LEMMA SignOffKeeps ==
    ASSUME NEW t, NEW s, Core(s, t), NEW r \in SignOff(s, t)
    PROVE  Core(r, t) /\ Kept(r, s)
  <1>1. CASE s.sent
    <2>1. PICK a \in RadioTransmit(s, TRUE) :
            r = IF a.raised THEN a ELSE [BeginSession(a) EXCEPT !.ret = "true"]
      BY <1>1 DEF SignOff
    <2>2. Core(a, t) /\ Kept(a, s)
      BY RadioKeeps
    <2>3. Core([BeginSession(a) EXCEPT !.ret = "true"], t)
          /\ Kept([BeginSession(a) EXCEPT !.ret = "true"], a)
      BY <2>2, BeginKeeps DEF Returns
    <2> QED
      BY <2>1, <2>2, <2>3 DEF Kept
  <1>2. CASE ~s.sent
    <2>1. r = [BeginSession(s) EXCEPT !.ret = "false"]
      BY <1>2 DEF SignOff
    <2> QED
      BY <2>1, BeginKeeps DEF Returns
  <1> QED
    BY <1>1, <1>2

-----------------------------------------------------------------------------
(* Reporting, and the guard around the station's calls.                    *)
LEMMA EmitKeeps ==
    ASSUME NEW t, NEW s, Core(s, t), NEW p \in Phases
    PROVE  /\ Core(Emit(s, p), t) /\ Same(Emit(s, p), s)
           /\ Emit(s, p).ret = s.ret /\ Emit(s, p).raised = s.raised
           /\ Emit(s, p).ledger =
                IF wired /\ p \in {"session_open", "session_close"} THEN p
                ELSE s.ledger
  <1>1. s \in States
    BY DEF Core
  <1>2. DEFINE l == IF wired /\ p \in {"session_open", "session_close"} THEN p
                    ELSE s.ledger
               e == Emit(s, p)
  <1>3. l \in {"none", "session_open", "session_close"}
    BY <1>1 DEF States
  <1>4. s.did \cup {p} \in SUBSET Marks
    BY <1>1 DEF States, Marks
  <1>5. e = [s EXCEPT !.did = @ \cup {p}, !.ledger = l]
    BY DEF Emit
  <1> HIDE DEF l, e
  <1>6. e \in States
    BY <1>1, <1>3, <1>4, <1>5 DEF States
  <1>7. Same(e, s) /\ e.ret = s.ret /\ e.raised = s.raised /\ e.ledger = l
        /\ e.lastId = s.lastId /\ e.idAt = s.idAt /\ e.lapsed = s.lapsed
    BY <1>1, <1>5 DEF States, Same
  <1>8. Core(e, t)
    BY <1>6, <1>7 DEF Core, Same, Stamped, Burned
  <1> QED
    BY <1>7, <1>8 DEF e, l

LEMMA KeyedKeeps ==
    ASSUME NEW t, NEW s, NEW R, \A r \in R : Core(r, t) /\ Kept(r, s),
           NEW strict \in BOOLEAN, NEW k \in Keyed(R, strict)
    PROVE  Core(k, t) /\ Kept(k, s)
  <1>1. PICK r \in R :
          k = IF r.raised
              THEN [Emit(r, "tx_failed") EXCEPT !.ret = "false", !.raised = strict]
              ELSE r
    BY DEF Keyed
  <1>2. Core(r, t) /\ Kept(r, s)
    OBVIOUS
  <1>3. DEFINE e == Emit(r, "tx_failed")
  <1>4. Core(e, t) /\ Same(e, r) /\ e.ledger = r.ledger
    BY <1>2, EmitKeeps DEF Phases
  <1> HIDE DEF e
  <1>5. CASE r.raised
    <2>1. k = [e EXCEPT !.ret = "false", !.raised = strict]
      BY <1>1, <1>5 DEF e
    <2>2. e \in States
      BY <1>4 DEF Core
    <2>3. k \in States
      BY <2>1, <2>2 DEF States, Returns
    <2>4. Kept(k, e) /\ k.lastId = e.lastId /\ k.idAt = e.idAt
          /\ k.lapsed = e.lapsed
      BY <2>1, <2>2 DEF States, Kept
    <2> QED
      BY <2>3, <2>4, <1>2, <1>4 DEF Core, Kept, Same, Stamped, Burned
  <1>6. CASE ~r.raised
    BY <1>1, <1>2, <1>6
  <1> QED
    BY <1>5, <1>6

LEMMA AnnounceKeeps ==
    ASSUME NEW t, NEW s, Core(s, t), s.now - t <= Render, NEW line,
           NEW strict \in BOOLEAN, NEW r \in Announce(s, line, t, strict)
    PROVE  Core(r, t) /\ Kept(r, s)
  <1>1. \A x \in Transmit(s, t) : Core(x, t) /\ Kept(x, s)
    BY TransmitKeeps
  <1>2. r \in Keyed(Transmit(s, t), strict) \/ r = s
    BY DEF Announce
  <1> QED
    BY <1>1, <1>2, KeyedKeeps DEF Kept

LEMMA CloseSessionKeeps ==
    ASSUME NEW t, NEW s, Core(s, t), s.now - t <= Render, NEW line,
           NEW strict \in BOOLEAN, NEW r \in CloseSession(s, line, t, strict)
    PROVE  Core(r, t) /\ Same(r, s)
  <1>0. PICK c \in UNION {IF a.raised THEN {a} ELSE Keyed(SignOff(a, t), strict) :
                          a \in Announce(s, line, t, strict)} :
          r = IF c.raised THEN c ELSE Emit(c, "session_close")
    BY DEF CloseSession
  <1>1. PICK a \in Announce(s, line, t, strict) :
          c \in IF a.raised THEN {a} ELSE Keyed(SignOff(a, t), strict)
    BY <1>0
  <1>2. Core(a, t) /\ Kept(a, s)
    BY AnnounceKeeps
  <1>3. \A x \in SignOff(a, t) : Core(x, t) /\ Kept(x, a)
    BY <1>2, SignOffKeeps
  <1>4. Core(c, t) /\ Kept(c, a)
    <2>1. CASE a.raised
      BY <2>1, <1>1, <1>2 DEF Kept
    <2>2. CASE ~a.raised
      BY <2>2, <1>1, <1>3, KeyedKeeps
    <2> QED
      BY <2>1, <2>2
  <1>5. Core(Emit(c, "session_close"), t) /\ Same(Emit(c, "session_close"), c)
    BY <1>4, EmitKeeps DEF Phases
  <1> QED
    BY <1>0, <1>2, <1>4, <1>5 DEF Kept, Same

\* A command keeps what the ledger knows of the session.
LEMMA RunCommandKeeps ==
    ASSUME NEW t, NEW s, Core(s, t), s.now - t <= Render, Recorded(s),
           NEW d \in Builtins, NEW strict \in BOOLEAN,
           NEW r \in RunCommand(s, d, t, strict)
    PROVE  /\ Core(r, t) /\ Recorded(r)
           /\ r.now = s.now /\ r.last = s.last
           /\ r.consumed = s.consumed /\ r.used = s.used
  <1>1. CASE d = "id"
    <2>1. \A x \in Identify(s, t) : Core(x, t) /\ Kept(x, s)
      BY IdentifyKeeps
    <2>2. PICK k \in Keyed(Identify(s, t), strict) :
            r = IF k.ret = "true" /\ ~k.raised THEN Emit(k, "id") ELSE k
      BY <1>1 DEF RunCommand
    <2>3. Core(k, t) /\ Kept(k, s)
      BY <2>1, KeyedKeeps
    <2>4. Core(Emit(k, "id"), t) /\ Same(Emit(k, "id"), k)
          /\ Emit(k, "id").ledger = k.ledger
      BY <2>3, EmitKeeps DEF Phases
    <2> QED
      BY <2>2, <2>3, <2>4 DEF Kept, Same, Recorded
  <1>2. CASE d = "logout" /\ s.auth
    <2>1. DEFINE o == [s EXCEPT !.auth = FALSE]
    <2>2. s \in States
      BY DEF Core
    <2>3. o \in States /\ o.auth = FALSE /\ o.now = s.now /\ o.last = s.last
          /\ o.consumed = s.consumed /\ o.used = s.used /\ o.lastId = s.lastId
          /\ o.idAt = s.idAt /\ o.lapsed = s.lapsed
      BY <2>2 DEF States
    <2>4. r \in CloseSession(o, "logout", t, strict)
      BY <1>2 DEF RunCommand
    <2> HIDE DEF o
    <2>5. Core(o, t)
      BY <2>3 DEF Core, Stamped, Burned
    <2>6. Core(r, t) /\ Same(r, o)
      BY <2>3, <2>4, <2>5, CloseSessionKeeps
    <2> QED
      BY <2>3, <2>6 DEF Same, Recorded
  <1>3. CASE d = "logout" /\ ~s.auth
    BY <1>3 DEF RunCommand
  <1>4. CASE d \notin {"id", "logout"}
    <2>1. PICK a \in Announce(s, d, t, strict) :
            r = IF a.raised THEN a ELSE Emit(a, "link")
      BY <1>4 DEF RunCommand
    <2>2. Core(a, t) /\ Kept(a, s)
      BY AnnounceKeeps
    <2>3. Core(Emit(a, "link"), t) /\ Same(Emit(a, "link"), a)
          /\ Emit(a, "link").ledger = a.ledger
      BY <2>2, EmitKeeps DEF Phases
    <2> QED
      BY <2>1, <2>2, <2>3 DEF Kept, Same, Recorded
  <1> QED
    BY <1>1, <1>2, <1>3, <1>4

LEMMA WelcomeKeeps ==
    ASSUME NEW t, NEW s, Core(s, t), s.now - t <= Render, NEW r \in Welcome(s, t)
    PROVE  Core(r, t) /\ Same(r, s) /\ Recorded(r)
  <1>1. PICK a \in Announce(BeginSession(s), "login", t, FALSE) :
          r = Emit(Emit(a, "auth_accepted"), "session_open")
    BY DEF Welcome
  <1>2. Core(BeginSession(s), t) /\ Kept(BeginSession(s), s)
    BY BeginKeeps DEF Returns
  <1>3. BeginSession(s).now - t <= Render
    BY <1>2 DEF Kept
  <1>4. Core(a, t) /\ Kept(a, BeginSession(s))
    BY <1>1, <1>2, <1>3, AnnounceKeeps
  <1>5. DEFINE e == Emit(a, "auth_accepted")
  <1>6. Core(e, t) /\ Same(e, a)
    BY <1>4, EmitKeeps DEF Phases
  <1> HIDE DEF e
  <1>7. Core(Emit(e, "session_open"), t) /\ Same(Emit(e, "session_open"), e)
        /\ (wired => Emit(e, "session_open").ledger = "session_open")
    BY <1>6, EmitKeeps DEF Phases
  <1>8. r = Emit(e, "session_open")
    BY <1>1 DEF e
  <1> QED
    BY <1>2, <1>4, <1>6, <1>7, <1>8 DEF Kept, Same, Recorded

\* What follows a dispatch makes no call of its own after a service.
LEMMA AfterDispatchKeeps ==
    ASSUME NEW t, NEW s, Core(s, t), Recorded(s), NEW d \in Entries,
           d \in Builtins => s.now - t <= Render, NEW strict \in BOOLEAN,
           NEW r \in AfterDispatch(s, d, t, strict)
    PROVE  /\ Core(r, t) /\ Recorded(r)
           /\ r.now = s.now /\ r.last = s.last
           /\ r.consumed = s.consumed /\ r.used = s.used
  <1>1. DEFINE e == IF s.ret = "error" THEN Emit(s, "tx_failed") ELSE s
  <1>2. Core(e, t) /\ Same(e, s) /\ e.ledger = s.ledger
    BY EmitKeeps DEF Phases, Same
  <1>3. r \in IF d \in Builtins THEN RunCommand(e, d, t, strict)
               ELSE {IF s.ret = "sent" THEN Emit(e, "command") ELSE e}
    BY DEF AfterDispatch
  <1> HIDE DEF e
  <1>4. Recorded(e) /\ e.now = s.now
    BY <1>2 DEF Recorded, Same
  <1>5. CASE d \in Builtins
    <2>1. e.now - t <= Render
      BY <1>4, <1>5
    <2> QED
      BY <1>2, <1>3, <1>4, <1>5, <2>1, RunCommandKeeps DEF Same
  <1>6. CASE d \notin Builtins
    <2>1. Core(Emit(e, "command"), t) /\ Same(Emit(e, "command"), e)
          /\ Emit(e, "command").ledger = e.ledger
      BY <1>2, EmitKeeps DEF Phases
    <2> QED
      BY <1>2, <1>3, <1>4, <1>6, <2>1 DEF Recorded, Same
  <1> QED
    BY <1>5, <1>6

-----------------------------------------------------------------------------
(* The gate and its verifier.                                              *)

LEMMA StepAtGrows ==
    ASSUME NEW t \in Nat, NEW u \in Nat, t <= u
    PROVE  StepAt(t) \in Int /\ StepAt(t) <= StepAt(u)
  <1>1. TotpInterval \in Nat /\ TotpInterval > 0
    BY TimesAssumption
  <1>2. StepAt(t) \in Int /\ StepAt(u) \in Int
    BY <1>1 DEF StepAt
  <1>3. /\ TotpInterval * StepAt(t) <= t
        /\ u < TotpInterval * (StepAt(u) + 1)
    BY <1>1, SMT DEF StepAt
  <1> QED
    BY <1>1, <1>2, <1>3, SMTT(30)

LEMMA BurnedLater ==
    ASSUME NEW s, s \in States, NEW t \in Nat, NEW u \in Nat, t <= u, Burned(s, t)
    PROVE  Burned(s, u)
  <1>1. StepAt(t) \in Int /\ StepAt(u) \in Int /\ StepAt(t) <= StepAt(u)
    BY StepAtGrows
  <1>2. \A k \in s.used : k[2] \in Int
    BY DEF States
  <1> QED
    BY <1>1, <1>2 DEF Burned

LEMMA VerifyKeeps ==
    ASSUME NEW t, NEW s, Core(s, t), NEW d \in Entries,
           NEW v, v = VerifyAndBurn(s, d, t)
    PROVE  /\ Core(v, t) /\ Fresh(v, s)
           /\ v.now = s.now /\ v.last = s.last /\ v.ledger = s.ledger
           /\ v.raised = s.raised
           /\ \/ v.ret = "rejected" /\ v.auth = s.auth
              \/ v.ret = "accepted"
  <1>1. s \in States /\ t \in Nat /\ StepAt(t) \in Int
    BY StepAtGrows DEF Core
  <1>2. DEFINE n == StepAt(t)
               kept == {k \in s.consumed : k[2] >= n - 1}
               fits == {m \in (n - 1)..(n + 1) : CodeAt(m) = d}
               step == CHOOSE m \in fits : \A o \in fits : m <= o
               key == <<d, step>>
  <1>3. v = IF fits = {} \/ key \in kept
            THEN [s EXCEPT !.consumed = kept, !.ret = "rejected"]
            ELSE [s EXCEPT !.consumed = kept \cup {key}, !.used = @ \cup {key},
                           !.auth = TRUE, !.ret = "accepted"]
    BY DEF VerifyAndBurn
  <1>4. ASSUME fits # {} PROVE step \in (n - 1)..(n + 1)
    <2>1. fits \subseteq (n - 1)..(n + 1)
      OBVIOUS
    <2>2. \E m \in fits : \A o \in fits : m <= o
      <3>1. CASE n - 1 \in fits
        BY <3>1, <2>1, <1>1
      <3>2. CASE n - 1 \notin fits /\ n \in fits
        <4>1. \A o \in fits : n <= o
          BY <2>1, <3>2, <1>1
        <4> QED
          BY <3>2, <4>1
      <3>3. CASE n - 1 \notin fits /\ n \notin fits
        <4>1. \A o \in fits : o = n + 1
          BY <2>1, <3>3, <1>1
        <4> QED
          BY <4>1, <1>4, <1>1
      <3> QED
        BY <3>1, <3>2, <3>3
    <2>3. step \in fits
      BY <2>2
    <2> QED
      BY <2>1, <2>3
  <1>5. kept \in SUBSET (Entries \X Int) /\ kept \subseteq s.consumed
    BY <1>1 DEF States
  <1>6. \A k \in s.used : k[2] \in Int /\ (k \in kept \/ k[2] < n - 1)
    BY <1>1 DEF Core, Burned, States
  <1>7. CASE fits = {} \/ key \in kept
    <2>1. v = [s EXCEPT !.consumed = kept, !.ret = "rejected"]
      BY <1>3, <1>7
    <2> HIDE DEF kept, fits, key, step
    <2>2. v \in States
      BY <2>1, <1>1, <1>5 DEF States, Returns
    <2>3. /\ v.consumed = kept /\ v.ret = "rejected" /\ v.used = s.used
          /\ v.now = s.now /\ v.auth = s.auth /\ v.last = s.last
          /\ v.ledger = s.ledger /\ v.lastId = s.lastId /\ v.idAt = s.idAt
          /\ v.lapsed = s.lapsed /\ v.raised = s.raised
      BY <2>1, <1>1 DEF States
    <2>4. Core(v, t)
      BY <2>2, <2>3, <1>6 DEF Core, Stamped, Burned
    <2> QED
      BY <2>3, <2>4, <1>5 DEF Fresh
  <1>8. CASE ~(fits = {} \/ key \in kept)
    <2>1. v = [s EXCEPT !.consumed = kept \cup {key}, !.used = @ \cup {key},
                        !.auth = TRUE, !.ret = "accepted"]
      BY <1>3, <1>8
    <2>2. key \in Entries \X Int /\ key[2] >= n - 1 /\ key \notin kept
      BY <1>4, <1>8, <1>1
    <2> HIDE DEF kept, fits, key, step
    <2>3. v \in States
      <3>1. kept \cup {key} \in SUBSET (Entries \X Int)
            /\ s.used \cup {key} \in SUBSET (Entries \X Int)
        BY <2>2, <1>1, <1>5 DEF States
      <3> QED
        BY <2>1, <1>1, <3>1, ZenonT(30) DEF States, Returns
    <2>4. /\ v.consumed = kept \cup {key} /\ v.ret = "accepted"
          /\ v.used = s.used \cup {key}
          /\ v.now = s.now /\ v.last = s.last
          /\ v.ledger = s.ledger /\ v.lastId = s.lastId /\ v.idAt = s.idAt
          /\ v.lapsed = s.lapsed /\ v.raised = s.raised
      BY <2>1, <1>1 DEF States
    <2>5. key \notin s.used
      BY <2>2, <1>6, <1>1
    <2>6. Core(v, t)
      BY <2>3, <2>4, <1>6 DEF Core, Stamped, Burned
    <2> QED
      BY <2>4, <2>5, <2>6, <1>5 DEF Fresh
  <1> QED
    BY <1>7, <1>8

\* A service takes its time, and transmits with the time it is then.
LEMMA DispatchKeeps ==
    ASSUME NEW t, NEW s, Core(s, t), NEW d \in Entries, NEW r \in Dispatch(s, d)
    PROVE  /\ Core(r, t)
           /\ r.auth = s.auth /\ r.last = s.last /\ r.ledger = s.ledger
           /\ r.consumed = s.consumed /\ r.used = s.used
           /\ r.now <= s.now + Render
           /\ d # "service" => r.now = s.now
           /\ ~r.raised => r.ret \in {"miss", "error", "sent"}
  <1>1. s \in States /\ s.now \in Nat /\ t \in Nat /\ Render \in Nat
    BY TimesAssumption DEF Core, States
  <1>2. CASE d # "service"
    <2>1. r = [s EXCEPT !.ret = "miss"]
      BY <1>2 DEF Dispatch
    <2>2. r \in States /\ Kept(r, s) /\ r.lastId = s.lastId /\ r.idAt = s.idAt
          /\ r.lapsed = s.lapsed /\ r.ret = "miss"
      BY <1>1, <2>1 DEF States, Kept, Returns
    <2> QED
      BY <1>1, <2>2 DEF Core, Kept, Stamped, Burned
  <1>3. CASE d = "service"
    <2>1. PICK k \in 0..Render :
            LET w == [s EXCEPT !.now = @ + k]
            IN  \/ \E x \in Transmit(w, w.now) :
                      r = [x EXCEPT !.ret = IF x.raised THEN "error" ELSE "sent",
                                    !.raised = FALSE]
                \/ r = [w EXCEPT !.raised = TRUE]
      BY <1>3 DEF Dispatch
    <2>2. DEFINE w == [s EXCEPT !.now = @ + k]
    <2>3. /\ w \in States /\ w.now = s.now + k /\ w.auth = s.auth
          /\ w.last = s.last /\ w.consumed = s.consumed /\ w.used = s.used
          /\ w.ledger = s.ledger /\ w.lastId = s.lastId /\ w.idAt = s.idAt
          /\ w.lapsed = s.lapsed
      BY <1>1 DEF States
    <2>4. (\E x \in Transmit(w, w.now) :
             r = [x EXCEPT !.ret = IF x.raised THEN "error" ELSE "sent",
                           !.raised = FALSE])
          \/ r = [w EXCEPT !.raised = TRUE]
      BY <2>1
    <2> HIDE DEF w
    <2>5. w.now \in Nat /\ s.now <= w.now /\ w.now <= s.now + Render
      BY <1>1, <2>3
    <2>6. Stamped(w) /\ w.last \in 0..w.now
      BY <1>1, <2>3, <2>5 DEF Core, Stamped, Never
    <2>7. Burned(w, t)
      BY <2>3 DEF Core, Burned
    <2>8. Core(w, t)
      BY <1>1, <2>3, <2>5, <2>6, <2>7 DEF Core
    <2>9. Core(w, w.now)
      <3>1. Burned(w, w.now)
        BY <1>1, <2>3, <2>5, <2>7, <2>8, BurnedLater DEF Core
      <3> QED
        BY <2>5, <2>8, <3>1 DEF Core
    <2>10. CASE r = [w EXCEPT !.raised = TRUE]
      <3>1. r \in States /\ Kept(r, w) /\ r.lastId = w.lastId /\ r.idAt = w.idAt
            /\ r.lapsed = w.lapsed /\ r.raised
        BY <2>3, <2>10 DEF States, Kept
      <3> QED
        BY <1>3, <2>3, <2>5, <2>8, <3>1 DEF Core, Kept, Stamped, Burned
    <2>11. ASSUME NEW x \in Transmit(w, w.now),
                  r = [x EXCEPT !.ret = IF x.raised THEN "error" ELSE "sent",
                                !.raised = FALSE]
           PROVE  /\ Core(r, t) /\ Kept(r, w)
                  /\ r.ret \in {"error", "sent"}
      <3>1. Core(x, w.now) /\ Kept(x, w)
        BY <1>1, <2>5, <2>9, TransmitKeeps
      <3>2. DEFINE v == IF x.raised THEN "error" ELSE "sent"
      <3>3. v \in {"error", "sent"}
        OBVIOUS
      <3>4. r = [x EXCEPT !.ret = v, !.raised = FALSE]
        BY <2>11
      <3> HIDE DEF v
      <3>5. x \in States
        BY <3>1 DEF Core
      <3>6. r \in States
        BY <3>3, <3>4, <3>5 DEF States, Returns
      <3>7. Kept(r, x) /\ r.lastId = x.lastId /\ r.idAt = x.idAt
            /\ r.lapsed = x.lapsed /\ r.ret = v
        BY <3>4, <3>5 DEF States, Kept
      <3> QED
        BY <3>1, <3>3, <3>6, <3>7, <2>7, <2>8 DEF Core, Kept, Stamped, Burned
    <2> QED
      BY <1>3, <2>3, <2>4, <2>5, <2>10, <2>11, ZenonT(30) DEF Kept
  <1> QED
    BY <1>2, <1>3

LEMMA OnDtmfKeeps ==
    ASSUME NEW t, NEW s, Core(s, t), Recorded(s), ~s.raised, enforce \in BOOLEAN,
           NEW d \in Entries, NEW r \in OnDtmf(s, d, t)
    PROVE  /\ Core(r, t) /\ Fresh(r, s)
           /\ r.last = t /\ r.now <= s.now + Render
           /\ (d # "service" => r.now = s.now)
           /\ (~r.raised /\ r.ret = "accepted" => r.now = s.now)
           /\ \/ Recorded(r)
              \/ ~r.raised /\ r.ret = "accepted"
  <1>1. s \in States /\ t \in Nat /\ t <= s.now /\ s.now \in Nat /\ Render \in Nat
    BY TimesAssumption DEF Core, States
  <1>2. DEFINE e == [Expire(s, t) EXCEPT !.last = t]
               f == [e EXCEPT !.auth = TRUE, !.did = @ \cup {"ran"}]
               g == [e EXCEPT !.did = @ \cup {"ran"}]
  <1>3. e \in States /\ e.last = t /\ e.now = s.now /\ e.consumed = s.consumed
        /\ e.used = s.used /\ e.ledger = s.ledger /\ e.lastId = s.lastId
        /\ e.idAt = s.idAt /\ e.lapsed = s.lapsed /\ e.raised = s.raised
        /\ (e.auth => s.auth)
    <2>1. PICK b \in BOOLEAN : Expire(s, t) = [s EXCEPT !.auth = b] /\ (b => s.auth)
      <3>1. CASE Idle(s, t)
        BY <3>1 DEF Expire
      <3>2. CASE ~Idle(s, t)
        <4>1. s = [s EXCEPT !.auth = s.auth]
          BY <1>1 DEF States
        <4> QED
          BY <3>2, <4>1, <1>1 DEF Expire, States
      <3> QED
        BY <3>1, <3>2
    <2>2. DEFINE x == [s EXCEPT !.auth = b]
    <2>3. x \in States
      BY <1>1 DEF States
    <2>4. /\ x.now = s.now /\ x.consumed = s.consumed /\ x.used = s.used
          /\ x.ledger = s.ledger /\ x.lastId = s.lastId /\ x.idAt = s.idAt
          /\ x.lapsed = s.lapsed /\ x.raised = s.raised /\ (x.auth => s.auth)
      BY <1>1, <2>1 DEF States
    <2>5. e = [x EXCEPT !.last = t] /\ t \in Int
      BY <1>1, <2>1
    <2> HIDE DEF x, e
    <2>6. e \in States
      BY <2>3, <2>5 DEF States
    <2>7. /\ e.last = t /\ e.now = x.now /\ e.consumed = x.consumed
          /\ e.used = x.used /\ e.ledger = x.ledger /\ e.lastId = x.lastId
          /\ e.idAt = x.idAt /\ e.lapsed = x.lapsed /\ e.raised = x.raised
          /\ e.auth = x.auth
      BY <2>3, <2>5 DEF States
    <2> QED
      BY <2>4, <2>6, <2>7
  <1>4. r \in IF ~enforce THEN Dispatch(f, d)
              ELSE IF ~e.auth THEN {VerifyAndBurn(e, d, t)}
              ELSE Dispatch(g, d)
    BY DEF OnDtmf
  <1>5. e.did \cup {"ran"} \in SUBSET Marks
    BY <1>3 DEF States, Marks
  <1> HIDE DEF e
  <1>6. \A h \in {f, g} : h \in States /\ h.last = t /\ h.now = s.now
          /\ h.consumed = s.consumed /\ h.used = s.used /\ h.ledger = s.ledger
          /\ h.lastId = s.lastId /\ h.idAt = s.idAt /\ h.lapsed = s.lapsed
    BY <1>3, <1>5, ZenonT(60) DEF States
  <1>7. g.auth = e.auth
    BY <1>3 DEF States
  <1> HIDE DEF f, g
  <1>8. Core(e, t) /\ Recorded(e)
    BY <1>1, <1>3 DEF Core, Stamped, Burned, Recorded
  <1>9. \A h \in {f, g} : Core(h, t)
    BY <1>1, <1>6 DEF Core, Stamped, Burned
  <1>10. CASE ~enforce
    <2>1. r \in Dispatch(f, d) /\ Recorded(r)
      BY <1>4, <1>10 DEF Recorded
    <2> QED
      BY <1>1, <1>6, <1>9, <2>1, DispatchKeeps DEF Fresh
  <1>11. CASE enforce /\ ~e.auth
    <2>1. r = VerifyAndBurn(e, d, t)
      BY <1>4, <1>11
    <2>2. /\ Core(r, t) /\ Fresh(r, e)
          /\ r.now = e.now /\ r.last = e.last /\ r.ledger = e.ledger
          /\ r.raised = e.raised
          /\ \/ r.ret = "rejected" /\ r.auth = e.auth
             \/ r.ret = "accepted"
      BY <1>8, <2>1, VerifyKeeps
    <2> QED
      BY <1>1, <1>3, <1>11, <2>2 DEF Fresh, Recorded
  <1>12. CASE enforce /\ e.auth
    <2>1. r \in Dispatch(g, d)
      BY <1>4, <1>12
    <2>2. r.auth = g.auth /\ r.ledger = g.ledger /\ Core(r, t)
          /\ r.last = g.last /\ r.now <= g.now + Render
          /\ (d # "service" => r.now = g.now)
          /\ r.consumed = g.consumed /\ r.used = g.used
          /\ (~r.raised => r.ret \in {"miss", "error", "sent"})
      BY <1>9, <2>1, DispatchKeeps
    <2>3. Recorded(r)
      BY <1>3, <1>6, <1>7, <1>8, <2>2 DEF Recorded
    <2> QED
      BY <1>1, <1>6, <2>2, <2>3 DEF Fresh
  <1> QED
    BY <1>10, <1>11, <1>12

-----------------------------------------------------------------------------
(* The branches of step.                                                   *)

LEMMA EntryKeeps ==
    ASSUME NEW t, NEW s, Core(s, t), Recorded(s), ~s.raised, enforce \in BOOLEAN,
           s.now - t <= Render, NEW d \in Entries, NEW r \in Entry(s, d, t)
    PROVE  /\ Core(r, t) /\ Recorded(r) /\ Fresh(r, s)
           /\ r.now - t <= Render \/ r.last = t
           /\ s.now = t => r.now - t <= Render
  <1>1. s \in States /\ s.now \in Nat /\ t \in Nat /\ Render \in Nat
    BY TimesAssumption DEF Core, States
  <1>2. CASE d = "off"
    <2>1. r \in RunCommand(s, d, t, FALSE) /\ d \in Builtins
      BY <1>2 DEF Entry, Builtins
    <2>2. PICK st \in BOOLEAN : r \in RunCommand(s, d, t, st)
      BY <2>1
    <2>3. /\ Core(r, t) /\ Recorded(r)
          /\ r.now = s.now /\ r.consumed = s.consumed /\ r.used = s.used
      BY <2>1, <2>2, RunCommandKeeps
    <2> QED
      BY <1>1, <2>3 DEF Fresh
  <1>3. CASE d # "off"
    <2>1. PICK o \in OnDtmf(s, d, t) :
            r \in IF o.raised THEN {o}
                  ELSE IF o.ret = "accepted" THEN Welcome(o, t)
                  ELSE IF o.ret = "rejected" THEN {Emit(o, "auth_rejected")}
                  ELSE IF ~s.auth /\ o.auth
                  THEN AfterDispatch(Emit(BeginSession(o), "session_open"), d, t, FALSE)
                  ELSE AfterDispatch(o, d, t, FALSE)
      BY <1>3 DEF Entry
    <2>2. /\ Core(o, t) /\ Fresh(o, s)
          /\ o.last = t /\ o.now <= s.now + Render
          /\ (d # "service" => o.now = s.now)
          /\ (~o.raised /\ o.ret = "accepted" => o.now = s.now)
          /\ Recorded(o) \/ (~o.raised /\ o.ret = "accepted")
      BY OnDtmfKeeps
    <2>3. o.now \in Nat
      BY <2>2 DEF Core, States
    <2>4. (d \in Builtins => d # "service") /\ (s.now = t => o.now - t <= Render)
      BY <1>1, <2>2, <2>3 DEF Builtins
    <2>5. SUFFICES /\ Core(r, t) /\ Recorded(r)
                   /\ r.now = o.now /\ r.last = o.last
                   /\ r.consumed = o.consumed /\ r.used = o.used
      BY <2>2, <2>4 DEF Fresh
    <2>6. CASE o.raised
      BY <2>1, <2>2, <2>6
    <2>7. CASE ~o.raised /\ o.ret = "accepted"
      <3>1. r \in Welcome(o, t) /\ o.now - t <= Render
        BY <2>1, <2>2, <2>7
      <3> QED
        BY <2>2, <3>1, WelcomeKeeps DEF Same
    <2>8. CASE ~o.raised /\ o.ret = "rejected"
      <3>1. r = Emit(o, "auth_rejected") /\ "auth_rejected" \in Phases
        BY <2>1, <2>8 DEF Phases
      <3>2. Core(r, t) /\ Same(r, o) /\ r.ledger = o.ledger
        BY <2>2, <3>1, EmitKeeps
      <3> QED
        BY <2>2, <2>8, <3>2 DEF Same, Recorded
    <2>9. CASE ~o.raised /\ o.ret \notin {"accepted", "rejected"}
      <3>1. DEFINE b == BeginSession(o)
                   e == Emit(b, "session_open")
      <3>2. Core(b, t) /\ Kept(b, o)
        BY <2>2, BeginKeeps DEF Returns
      <3> HIDE DEF b
      <3>3. Core(e, t) /\ Same(e, b) /\ (wired => e.ledger = "session_open")
        BY <3>2, EmitKeeps DEF Phases
      <3> HIDE DEF e
      <3>4. Recorded(e)
        BY <3>3 DEF Recorded
      <3>5. e.now = o.now /\ e.last = o.last /\ e.consumed = o.consumed
            /\ e.used = o.used
        BY <3>2, <3>3 DEF Kept, Same
      <3>6. r \in AfterDispatch(e, d, t, FALSE) \/ r \in AfterDispatch(o, d, t, FALSE)
        BY <2>1, <2>9 DEF e, b
      <3>7. /\ d \in Builtins => e.now - t <= Render
            /\ d \in Builtins => o.now - t <= Render
        BY <2>2, <2>4, <3>5
      <3>8. CASE r \in AfterDispatch(e, d, t, FALSE)
        <4>1. PICK st \in BOOLEAN : r \in AfterDispatch(e, d, t, st)
          BY <3>8
        <4>2. /\ Core(r, t) /\ Recorded(r) /\ r.now = e.now /\ r.last = e.last
              /\ r.consumed = e.consumed /\ r.used = e.used
          BY <3>3, <3>4, <3>7, <4>1, AfterDispatchKeeps
        <4> QED
          BY <3>5, <4>2
      <3>9. CASE r \in AfterDispatch(o, d, t, FALSE)
        <4>1. Recorded(o)
          BY <2>2, <2>9
        <4>2. PICK st \in BOOLEAN : r \in AfterDispatch(o, d, t, st)
          BY <3>9
        <4> QED
          BY <2>2, <3>7, <4>1, <4>2, AfterDispatchKeeps
      <3> QED
        BY <3>6, <3>8, <3>9
    <2> QED
      BY <2>6, <2>7, <2>8, <2>9
  <1> QED
    BY <1>2, <1>3

LEMMA HandleKeeps ==
    ASSUME NEW t, NEW s, Core(s, t), Recorded(s), ~s.raised, enforce \in BOOLEAN,
           s.now = t, NEW es \in Frames, NEW r \in Handle(s, es, t)
    PROVE  /\ Core(r, t) /\ Recorded(r) /\ Fresh(r, s)
           /\ r.now - t <= Render \/ r.last = t
  <1>1. s.now \in Nat /\ t \in Nat /\ Render \in Nat /\ s.now - t <= Render
    BY TimesAssumption DEF Core, States
  <1>2. CASE es = <<>>
    <2>1. r = s
      BY <1>2 DEF Handle
    <2> QED
      BY <1>1, <2>1 DEF Fresh
  <1>3. ASSUME NEW d \in Entries, es = <<d>>
        PROVE  /\ Core(r, t) /\ Recorded(r) /\ Fresh(r, s)
               /\ r.now - t <= Render
    <2>1. r \in Entry(s, d, t)
      BY <1>3 DEF Handle
    <2> QED
      BY <1>1, <2>1, EntryKeeps
  <1>4. ASSUME NEW d \in Entries, NEW c \in Entries, es = <<d, c>>
        PROVE  /\ Core(r, t) /\ Recorded(r) /\ Fresh(r, s)
               /\ r.now - t <= Render \/ r.last = t
    <2>1. PICK o \in Entry(s, d, t) : r \in IF o.raised THEN {o} ELSE Entry(o, c, t)
      BY <1>4 DEF Handle
    <2>2. Core(o, t) /\ Recorded(o) /\ Fresh(o, s) /\ o.now - t <= Render
      BY <1>1, EntryKeeps
    <2>3. CASE o.raised
      BY <2>1, <2>2, <2>3
    <2>4. CASE ~o.raised
      <3>1. r \in Entry(o, c, t)
        BY <2>1, <2>4
      <3>2. Core(r, t) /\ Recorded(r) /\ Fresh(r, o)
            /\ (r.now - t <= Render \/ r.last = t)
        BY <2>2, <2>4, <3>1, EntryKeeps
      <3> QED
        BY <2>2, <3>2 DEF Fresh
    <2> QED
      BY <2>3, <2>4
  <1>5. \/ es = <<>>
        \/ \E d \in Entries : es = <<d>>
        \/ \E d \in Entries, c \in Entries : es = <<d, c>>
    BY DEF Frames
  <1> QED
    BY <1>2, <1>3, <1>4, <1>5

\* An idle session is one that no entry of the frame touched.
LEMMA SweepKeeps ==
    ASSUME NEW t, NEW s, Core(s, t), Recorded(s),
           s.now - t <= Render \/ s.last = t, NEW r \in Sweep(s, t)
    PROVE  /\ Core(r, t) /\ Recorded(r)
           /\ r.consumed = s.consumed /\ r.used = s.used
  <1>1. s \in States /\ t \in Nat /\ s.now \in Nat /\ s.last \in Int
        /\ Timeout \in Nat
    BY TimesAssumption DEF Core, States
  <1>2. CASE Idle(s, t)
    <2>1. DEFINE e == Expire(s, t)
    <2>2. e = [s EXCEPT !.auth = FALSE] /\ s.now - t <= Render
      BY <1>1, <1>2 DEF Expire, Idle
    <2> HIDE DEF e
    <2>3. e \in States
      BY <1>1, <2>2 DEF States
    <2>4. /\ e.now = s.now /\ e.last = s.last /\ e.consumed = s.consumed
          /\ e.used = s.used /\ e.lastId = s.lastId /\ e.idAt = s.idAt
          /\ e.lapsed = s.lapsed /\ e.auth = FALSE
      BY <1>1, <2>2 DEF States
    <2>5. Core(e, t) /\ e.now - t <= Render
      BY <2>2, <2>3, <2>4 DEF Core, Stamped, Burned
    <2>6. r \in CloseSession(e, "timeout", t, FALSE)
      BY <1>2 DEF Sweep, e
    <2>7. Core(r, t) /\ Same(r, e)
      BY <2>5, <2>6, CloseSessionKeeps
    <2> QED
      BY <2>4, <2>7 DEF Same, Recorded
  <1>3. CASE ~Idle(s, t) /\ s.auth
    <2>1. PICK k \in Keyed(Check(s, t), FALSE) :
            r = IF k.ret = "true" THEN Emit(k, "id") ELSE k
      BY <1>3 DEF Sweep
    <2>2. \A x \in Check(s, t) : Core(x, t) /\ Kept(x, s)
      BY CheckKeeps
    <2>3. Core(k, t) /\ Kept(k, s)
      BY <2>2, KeyedKeeps
    <2>4. /\ Core(Emit(k, "id"), t) /\ Same(Emit(k, "id"), k)
          /\ Emit(k, "id").ledger = k.ledger
      BY <2>3, EmitKeeps DEF Phases
    <2> QED
      BY <2>1, <2>3, <2>4 DEF Kept, Same, Recorded
  <1>4. CASE ~Idle(s, t) /\ ~s.auth
    <2>1. r = s
      BY <1>4 DEF Sweep
    <2> QED
      BY <2>1
  <1> QED
    BY <1>2, <1>3, <1>4

-----------------------------------------------------------------------------
(* What a step reports.  A step starts with nothing done, and every call   *)
(* of it adds to what it did: Reports is what a radio call may add, Runs   *)
(* what a command of the session may.                                      *)

Reports(r, s) ==
    /\ s.did \subseteq r.did
    /\ r.did \subseteq s.did \cup (Marks \ {"ran", "auth_accepted", "session_open",
                                            "session_close"})
    /\ r.auth = s.auth /\ r.last = s.last

Adds(r, s) == Reports(r, s) /\ (s.sent => r.sent)

Runs(r, s) ==
    /\ s.did \subseteq r.did
    /\ "ran" \in r.did => "ran" \in s.did
    /\ r.auth => s.auth
    /\ r.last = s.last

\* An ID was on the air in this step, or a failure was reported.
Signs(s) == s.did \cap {"ID", "tx_failed"} # {}

\* In a step that began in a session that had transmitted, and was idle for
\* too long if `late`: it signed, or a login replaced the session, or the
\* session still owes its ID and is not closed.
SignedOff(s, late) ==
    \/ Signs(s)
    \/ late /\ "session_open" \in s.did
    \/ s.sent /\ (s.auth \/ late) /\ "session_close" \notin s.did

\* The session s is in takes a command at t.
Fit(s, t) == s.auth /\ t - s.last <= Timeout

\* In a step that began in a session that takes a command if `fit`: only then,
\* or after a login, a command ran.
Admitted(s, fit, t) ==
    fit \/ "auth_accepted" \in s.did \/ ("ran" \notin s.did /\ ~Fit(s, t))

LEMMA AddsSigned ==
    ASSUME NEW s, NEW r, Adds(r, s), NEW late, SignedOff(s, late)
    PROVE  SignedOff(r, late)
  BY DEF Adds, Reports, SignedOff, Signs

LEMMA RunsAdmitted ==
    ASSUME NEW s, NEW r, Runs(r, s), NEW fit, NEW t, Admitted(s, fit, t)
    PROVE  Admitted(r, fit, t)
  BY DEF Runs, Admitted, Fit

LEMMA AddsTwice ==
    ASSUME NEW s, NEW a, NEW r, Adds(a, s), Adds(r, a)
    PROVE  Adds(r, s)
  BY DEF Adds, Reports

LEMMA EmitAdds ==
    ASSUME NEW s \in States, NEW p \in Phases
    PROVE  /\ Emit(s, p) \in States /\ Emit(s, p).did = s.did \cup {p}
           /\ Emit(s, p).auth = s.auth /\ Emit(s, p).last = s.last
           /\ Emit(s, p).sent = s.sent /\ Emit(s, p).raised = s.raised
           /\ Emit(s, p).ret = s.ret
  <1>1. DEFINE l == IF wired /\ p \in {"session_open", "session_close"} THEN p
                    ELSE s.ledger
               x == s.did \cup {p}
               e == Emit(s, p)
  <1>2. l \in {"none", "session_open", "session_close"} /\ x \in SUBSET Marks
    BY DEF States, Marks
  <1>3. e = [s EXCEPT !.did = x, !.ledger = l]
    BY DEF Emit
  <1> HIDE DEF l, x, e
  <1>4. e \in States
    BY <1>2, <1>3 DEF States
  <1>5. e.did = x /\ e.auth = s.auth /\ e.last = s.last /\ e.sent = s.sent
        /\ e.raised = s.raised /\ e.ret = s.ret
    BY <1>3 DEF States
  <1> QED
    BY <1>4, <1>5 DEF e, x

LEMMA BeginAdds ==
    ASSUME NEW s \in States, NEW x \in Returns
    PROVE  /\ BeginSession(s) \in States /\ BeginSession(s).did = s.did
           /\ BeginSession(s).auth = s.auth /\ BeginSession(s).last = s.last
           /\ BeginSession(s).raised = s.raised
           /\ [BeginSession(s) EXCEPT !.ret = x] \in States
           /\ Reports([BeginSession(s) EXCEPT !.ret = x], s)
           /\ [BeginSession(s) EXCEPT !.ret = x].did = s.did
           /\ [BeginSession(s) EXCEPT !.ret = x].raised = s.raised
  <1>1. DEFINE b == BeginSession(s)
               c == [b EXCEPT !.ret = x]
  <1>2. b \in States
    <2>1. Never \in Int
      BY DEF Never
    <2> QED
      BY <2>1 DEF BeginSession, States
  <1>3. b.did = s.did /\ b.auth = s.auth /\ b.last = s.last
        /\ b.raised = s.raised
    BY DEF BeginSession, States
  <1> HIDE DEF b
  <1>4. c \in States
    BY <1>2 DEF States
  <1>5. c.did = b.did /\ c.auth = b.auth /\ c.last = b.last
        /\ c.raised = b.raised
    BY <1>2 DEF States
  <1> HIDE DEF c
  <1>6. Reports(c, s)
    BY <1>3, <1>5 DEF Reports
  <1> QED
    BY <1>2, <1>3, <1>4, <1>5, <1>6 DEF b, c

LEMMA RadioAdds ==
    ASSUME NEW s \in States, NEW id \in BOOLEAN, NEW r \in RadioTransmit(s, id)
    PROVE  /\ r \in States /\ Adds(r, s)
           /\ id /\ ~r.raised => "ID" \in r.did
  <1>1. DEFINE o == OnAir(s, id)
  <1>2. o \in States /\ Adds(o, s) /\ (id => "ID" \in o.did)
    <2>1. CASE id
      <3>1. DEFINE x == s.did \cup {"ID"}
      <3>2. x \in SUBSET Marks /\ s.now \in Int
        BY DEF States, Marks
      <3>3. o = [s EXCEPT !.idAt = s.now, !.did = x]
        BY <2>1 DEF OnAir
      <3> HIDE DEF x, o
      <3>4. o \in States
        BY <3>2, <3>3 DEF States
      <3>5. o.did = x /\ o.auth = s.auth /\ o.last = s.last /\ o.sent = s.sent
        BY <3>3 DEF States
      <3> QED
        BY <3>4, <3>5 DEF x, Adds, Reports, Marks
    <2>2. CASE ~id
      <3>1. DEFINE x == s.did \cup {"over"}
                   l == s.lapsed \/ Lapses(s)
      <3>2. x \in SUBSET Marks /\ l \in BOOLEAN
        BY DEF States, Marks
      <3>3. o = [s EXCEPT !.lapsed = l, !.did = x]
        BY <2>2 DEF OnAir
      <3> HIDE DEF x, l, o
      <3>4. o \in States
        BY <3>2, <3>3 DEF States
      <3>5. o.did = x /\ o.auth = s.auth /\ o.last = s.last /\ o.sent = s.sent
        BY <3>3 DEF States
      <3> QED
        BY <2>2, <3>4, <3>5 DEF x, Adds, Reports, Marks
    <2> QED
      BY <2>1, <2>2
  <1>3. \/ r = [o EXCEPT !.raised = FALSE]
        \/ r = [s EXCEPT !.raised = TRUE]
        \/ r = [o EXCEPT !.raised = TRUE]
    BY DEF RadioTransmit
  <1> HIDE DEF o
  <1>4. ASSUME NEW z \in States, Adds(z, s), NEW b \in BOOLEAN,
               r = [z EXCEPT !.raised = b]
        PROVE  r \in States /\ Adds(r, s) /\ r.raised = b /\ r.did = z.did
    <2>1. r \in States
      BY <1>4 DEF States
    <2>2. r.did = z.did /\ r.auth = z.auth /\ r.last = z.last /\ r.sent = z.sent
          /\ r.raised = b
      BY <1>4 DEF States
    <2> QED
      BY <1>4, <2>1, <2>2 DEF Adds, Reports
  <1>5. Adds(s, s)
    BY DEF Adds, Reports
  <1> QED
    BY <1>2, <1>3, <1>4, <1>5

\* StationId.transmit, identify and check add what a radio call adds.
LEMMA TransmitAdds ==
    ASSUME NEW s \in States, NEW t \in Int, NEW r \in Transmit(s, t)
    PROVE  r \in States /\ Adds(r, s)
  <1>1. PICK a \in RadioTransmit(s, Due(s, t)) :
          r = IF a.raised THEN a
              ELSE [a EXCEPT !.sent = TRUE, !.lastId = IF Due(s, t) THEN t ELSE @]
    BY DEF Transmit
  <1>2. a \in States /\ Adds(a, s)
    BY RadioAdds DEF Due
  <1>3. CASE a.raised
    BY <1>1, <1>2, <1>3
  <1>4. CASE ~a.raised
    <2>1. DEFINE l == IF Due(s, t) THEN t ELSE a.lastId
    <2>2. l \in Int
      BY <1>2 DEF States
    <2>3. r = [a EXCEPT !.sent = TRUE, !.lastId = l]
      BY <1>1, <1>4
    <2> HIDE DEF l
    <2>4. r \in States
      BY <1>2, <2>2, <2>3 DEF States
    <2>5. r.did = a.did /\ r.auth = a.auth /\ r.last = a.last /\ r.sent
      BY <1>2, <2>3 DEF States
    <2> QED
      BY <1>2, <2>4, <2>5 DEF Adds, Reports
  <1> QED
    BY <1>3, <1>4

LEMMA IdentifyAdds ==
    ASSUME NEW s \in States, NEW t \in Int, NEW r \in Identify(s, t)
    PROVE  r \in States /\ Adds(r, s)
  <1>1. PICK a \in RadioTransmit(s, TRUE) :
          r = IF a.raised THEN a
              ELSE [a EXCEPT !.sent = TRUE, !.lastId = t, !.ret = "true"]
    BY DEF Identify
  <1>2. a \in States /\ Adds(a, s)
    BY RadioAdds
  <1>3. CASE a.raised
    BY <1>1, <1>2, <1>3
  <1>4. CASE ~a.raised
    <2>1. r = [a EXCEPT !.sent = TRUE, !.lastId = t, !.ret = "true"]
      BY <1>1, <1>4
    <2>2. r \in States
      BY <1>2, <2>1 DEF States, Returns
    <2>3. r.did = a.did /\ r.auth = a.auth /\ r.last = a.last /\ r.sent
      BY <1>2, <2>1 DEF States
    <2> QED
      BY <1>2, <2>2, <2>3 DEF Adds, Reports
  <1> QED
    BY <1>3, <1>4

LEMMA CheckAdds ==
    ASSUME NEW s \in States, NEW t \in Int, NEW r \in Check(s, t)
    PROVE  r \in States /\ Adds(r, s)
  <1>1. CASE s.sent /\ Due(s, t)
    <2>1. PICK a \in RadioTransmit(s, TRUE) :
            r = IF a.raised THEN a ELSE [a EXCEPT !.lastId = t, !.ret = "true"]
      BY <1>1 DEF Check
    <2>2. a \in States /\ Adds(a, s)
      BY RadioAdds
    <2>3. CASE a.raised
      BY <2>1, <2>2, <2>3
    <2>4. CASE ~a.raised
      <3>1. r = [a EXCEPT !.lastId = t, !.ret = "true"]
        BY <2>1, <2>4
      <3>2. r \in States
        BY <2>2, <3>1 DEF States, Returns
      <3>3. r.did = a.did /\ r.auth = a.auth /\ r.last = a.last
            /\ r.sent = a.sent
        BY <2>2, <3>1 DEF States
      <3> QED
        BY <2>2, <3>2, <3>3 DEF Adds, Reports
    <2> QED
      BY <2>3, <2>4
  <1>2. CASE ~(s.sent /\ Due(s, t))
    <2>1. r = [s EXCEPT !.ret = "false"]
      BY <1>2 DEF Check
    <2>2. r \in States
      BY <2>1 DEF States, Returns
    <2>3. r.did = s.did /\ r.auth = s.auth /\ r.last = s.last
          /\ r.sent = s.sent
      BY <2>1 DEF States
    <2> QED
      BY <2>2, <2>3 DEF Adds, Reports
  <1> QED
    BY <1>1, <1>2

\* A sign-off of a station that transmitted puts its ID on the air or fails.
LEMMA SignOffReports ==
    ASSUME NEW s \in States, NEW t \in Int, NEW r \in SignOff(s, t)
    PROVE  /\ r \in States /\ Reports(r, s)
           /\ s.sent => r.raised \/ "ID" \in r.did
  <1>1. CASE s.sent
    <2>1. PICK a \in RadioTransmit(s, TRUE) :
            r = IF a.raised THEN a ELSE [BeginSession(a) EXCEPT !.ret = "true"]
      BY <1>1 DEF SignOff
    <2>2. a \in States /\ Reports(a, s) /\ (~a.raised => "ID" \in a.did)
      BY RadioAdds DEF Adds
    <2>3. CASE a.raised
      BY <2>1, <2>2, <2>3
    <2>4. CASE ~a.raised
      <3>1. r = [BeginSession(a) EXCEPT !.ret = "true"] /\ "true" \in Returns
        BY <2>1, <2>4 DEF Returns
      <3>2. r \in States /\ Reports(r, a)
        BY <2>2, <3>1, BeginAdds
      <3> QED
        BY <2>2, <2>4, <3>2 DEF Reports
    <2> QED
      BY <2>3, <2>4
  <1>2. CASE ~s.sent
    <2>1. r = [BeginSession(s) EXCEPT !.ret = "false"] /\ "false" \in Returns
      BY <1>2 DEF SignOff, Returns
    <2> QED
      BY <1>2, <2>1, BeginAdds
  <1> QED
    BY <1>1, <1>2

\* What a guarded call raises is reported.
LEMMA KeyedReports ==
    ASSUME NEW R, NEW strict \in BOOLEAN, NEW k \in Keyed(R, strict),
           R \subseteq States
    PROVE  /\ k \in States
           /\ \E r \in R : /\ Adds(k, r)
                           /\ r.raised => "tx_failed" \in k.did
                           /\ ~r.raised => k = r
  <1>1. PICK r \in R :
          k = IF r.raised
              THEN [Emit(r, "tx_failed") EXCEPT !.ret = "false", !.raised = strict]
              ELSE r
    BY DEF Keyed
  <1>2. CASE r.raised
    <2>1. DEFINE e == Emit(r, "tx_failed")
    <2>2. k = [e EXCEPT !.ret = "false", !.raised = strict]
      BY <1>1, <1>2
    <2>3. /\ e \in States /\ e.did = r.did \cup {"tx_failed"}
          /\ e.auth = r.auth /\ e.last = r.last /\ e.sent = r.sent
      BY EmitAdds DEF Phases
    <2> HIDE DEF e
    <2>4. k \in States
      BY <2>2, <2>3 DEF States, Returns
    <2>5. k.did = e.did /\ k.auth = e.auth /\ k.last = e.last /\ k.sent = e.sent
      BY <2>2, <2>3 DEF States
    <2>6. Adds(k, r)
      BY <2>3, <2>5 DEF Adds, Reports, Marks, Phases
    <2> QED
      BY <1>2, <2>3, <2>4, <2>5, <2>6
  <1>3. CASE ~r.raised
    BY <1>1, <1>3 DEF Adds, Reports
  <1> QED
    BY <1>2, <1>3

LEMMA AnnounceAdds ==
    ASSUME NEW s \in States, NEW t \in Int, NEW line, NEW strict \in BOOLEAN,
           NEW a \in Announce(s, line, t, strict)
    PROVE  /\ a \in States /\ Adds(a, s)
           /\ ~s.raised /\ a.raised => Signs(a)
  <1>1. CASE line \in Spoken
    <2>1. a \in Keyed(Transmit(s, t), strict)
      BY <1>1 DEF Announce
    <2>2. PICK r \in Transmit(s, t) : /\ Adds(a, r)
                                      /\ r.raised => "tx_failed" \in a.did
                                      /\ ~r.raised => a = r
      BY <2>1, KeyedReports, TransmitAdds
    <2>3. Adds(r, s)
      BY TransmitAdds
    <2>4. a \in States
      BY <2>1, KeyedReports, TransmitAdds
    <2> QED
      BY <2>2, <2>3, <2>4, AddsTwice DEF Signs
  <1>2. CASE line \notin Spoken
    BY <1>2 DEF Announce, Adds, Reports
  <1> QED
    BY <1>1, <1>2

\* The close of a session in which the station transmitted signs it off.
LEMMA CloseSessionSigns ==
    ASSUME NEW s \in States, NEW t \in Int, NEW line, NEW strict \in BOOLEAN,
           ~s.raised, NEW r \in CloseSession(s, line, t, strict)
    PROVE  /\ r \in States /\ Runs(r, s) /\ r.auth = s.auth
           /\ s.sent => Signs(r)
  <1>0. PICK c \in UNION {IF a.raised THEN {a} ELSE Keyed(SignOff(a, t), strict) :
                          a \in Announce(s, line, t, strict)} :
          r = IF c.raised THEN c ELSE Emit(c, "session_close")
    BY DEF CloseSession
  <1>1. PICK a \in Announce(s, line, t, strict) :
          c \in IF a.raised THEN {a} ELSE Keyed(SignOff(a, t), strict)
    BY <1>0
  <1>2. a \in States /\ Adds(a, s) /\ (a.raised => Signs(a))
    BY AnnounceAdds
  <1>3. c \in States /\ Reports(c, s) /\ (s.sent => Signs(c))
    <2>1. CASE a.raised
      BY <1>1, <1>2, <2>1 DEF Adds
    <2>2. CASE ~a.raised
      <3>1. c \in Keyed(SignOff(a, t), strict)
        BY <1>1, <2>2
      <3>2. SignOff(a, t) \subseteq States
        BY <1>2, SignOffReports
      <3>3. PICK x \in SignOff(a, t) : /\ Adds(c, x)
                                       /\ x.raised => "tx_failed" \in c.did
                                       /\ ~x.raised => c = x
        BY <3>1, <3>2, KeyedReports
      <3>4. c \in States
        BY <3>1, <3>2, KeyedReports
      <3>5. Reports(x, a) /\ (a.sent => x.raised \/ "ID" \in x.did)
        BY <1>2, SignOffReports
      <3> QED
        BY <1>2, <3>3, <3>4, <3>5 DEF Adds, Reports, Signs
    <2> QED
      BY <2>1, <2>2
  <1>4. DEFINE e == Emit(c, "session_close")
  <1>5. /\ e \in States /\ e.did = c.did \cup {"session_close"}
        /\ e.auth = c.auth /\ e.last = c.last
    BY <1>3, EmitAdds DEF Phases
  <1>6. r \in {c, e}
    BY <1>0
  <1> HIDE DEF e
  <1> QED
    BY <1>3, <1>5, <1>6 DEF Reports, Runs, Signs, Marks

\* A command of the session: what ends it signs it off, and none lets a
\* caller in.
LEMMA RunCommandReports ==
    ASSUME NEW s \in States, NEW t \in Int, ~s.raised, NEW d \in Builtins,
           NEW strict \in BOOLEAN, NEW r \in RunCommand(s, d, t, strict)
    PROVE  /\ r \in States /\ Runs(r, s)
           /\ \A late \in BOOLEAN : SignedOff(s, late) => SignedOff(r, late)
  <1>1. CASE d = "id"
    <2>1. PICK k \in Keyed(Identify(s, t), strict) :
            r = IF k.ret = "true" /\ ~k.raised THEN Emit(k, "id") ELSE k
      BY <1>1 DEF RunCommand
    <2>2. Identify(s, t) \subseteq States
      BY IdentifyAdds
    <2>3. k \in States /\ \E x \in Identify(s, t) : Adds(k, x)
      BY <2>2, KeyedReports
    <2>4. Adds(k, s)
      BY <2>3, IdentifyAdds, AddsTwice
    <2>5. DEFINE e == Emit(k, "id")
    <2>6. /\ e \in States /\ e.did = k.did \cup {"id"} /\ e.auth = k.auth
          /\ e.last = k.last /\ e.sent = k.sent
      BY <2>3, EmitAdds DEF Phases
    <2>7. r \in {k, e}
      BY <2>1
    <2> HIDE DEF e
    <2>8. r \in States /\ Adds(r, s)
      BY <2>3, <2>4, <2>6, <2>7 DEF Adds, Reports, Marks, Phases
    <2> QED
      BY <2>8, AddsSigned DEF Adds, Reports, Runs
  <1>2. CASE d = "logout" /\ s.auth
    <2>1. DEFINE o == [s EXCEPT !.auth = FALSE]
    <2>2. /\ o \in States /\ o.auth = FALSE /\ o.last = s.last
          /\ o.did = s.did /\ o.sent = s.sent /\ o.raised = s.raised
      BY DEF States
    <2>3. r \in CloseSession(o, "logout", t, strict)
      BY <1>2 DEF RunCommand
    <2> HIDE DEF o
    <2>4. r \in States /\ Runs(r, o) /\ (o.sent => Signs(r))
      BY <2>2, <2>3, CloseSessionSigns
    <2> QED
      BY <2>2, <2>4 DEF Runs, SignedOff, Signs
  <1>3. CASE d = "logout" /\ ~s.auth
    BY <1>3 DEF RunCommand, Runs
  <1>4. CASE d \notin {"id", "logout"}
    <2>1. PICK a \in Announce(s, d, t, strict) :
            r = IF a.raised THEN a ELSE Emit(a, "link")
      BY <1>4 DEF RunCommand
    <2>2. a \in States /\ Adds(a, s)
      BY AnnounceAdds
    <2>3. DEFINE e == Emit(a, "link")
    <2>4. /\ e \in States /\ e.did = a.did \cup {"link"} /\ e.auth = a.auth
          /\ e.last = a.last /\ e.sent = a.sent
      BY <2>2, EmitAdds DEF Phases
    <2>5. r \in {a, e}
      BY <2>1
    <2> HIDE DEF e
    <2>6. r \in States /\ Adds(r, s)
      BY <2>2, <2>4, <2>5 DEF Adds, Reports, Marks, Phases
    <2> QED
      BY <2>6, AddsSigned DEF Adds, Reports, Runs
  <1> QED
    BY <1>1, <1>2, <1>3, <1>4

\* A login is reported, and drops nothing that was done before it.
LEMMA WelcomeReports ==
    ASSUME NEW s \in States, NEW t \in Int, NEW r \in Welcome(s, t)
    PROVE  /\ r \in States /\ s.did \subseteq r.did /\ r.last = s.last
           /\ {"auth_accepted", "session_open"} \subseteq r.did
  <1>1. PICK a \in Announce(BeginSession(s), "login", t, FALSE) :
          r = Emit(Emit(a, "auth_accepted"), "session_open")
    BY DEF Welcome
  <1>2. BeginSession(s) \in States /\ BeginSession(s).did = s.did
        /\ BeginSession(s).last = s.last
    BY BeginAdds DEF Returns
  <1>3. a \in States /\ s.did \subseteq a.did /\ a.last = s.last
    <2>1. PICK st \in BOOLEAN : a \in Announce(BeginSession(s), "login", t, st)
      BY <1>1
    <2>2. a \in States /\ Adds(a, BeginSession(s))
      BY <1>2, <2>1, AnnounceAdds
    <2> QED
      BY <1>2, <2>2 DEF Adds, Reports
  <1>4. DEFINE e == Emit(a, "auth_accepted")
  <1>5. e \in States /\ e.did = a.did \cup {"auth_accepted"}
        /\ e.last = a.last
    BY <1>3, EmitAdds DEF Phases
  <1>6. r = Emit(e, "session_open")
    BY <1>1
  <1> HIDE DEF e
  <1>7. r \in States /\ r.did = e.did \cup {"session_open"}
        /\ r.last = e.last
    BY <1>5, <1>6, EmitAdds DEF Phases
  <1> QED
    BY <1>3, <1>5, <1>7

LEMMA AfterDispatchReports ==
    ASSUME NEW s \in States, NEW t \in Int, ~s.raised, NEW d \in Entries,
           NEW strict \in BOOLEAN, NEW r \in AfterDispatch(s, d, t, strict)
    PROVE  /\ r \in States /\ Runs(r, s)
           /\ \A late \in BOOLEAN : SignedOff(s, late) => SignedOff(r, late)
  <1>1. DEFINE e == IF s.ret = "error" THEN Emit(s, "tx_failed") ELSE s
  <1>2. e \in States /\ Adds(e, s) /\ ~e.raised
    <2>1. CASE s.ret = "error"
      <3>1. e = Emit(s, "tx_failed")
        BY <2>1
      <3>2. /\ e \in States /\ e.did = s.did \cup {"tx_failed"}
            /\ e.auth = s.auth /\ e.last = s.last /\ e.sent = s.sent
            /\ e.raised = s.raised
        BY <3>1, EmitAdds DEF Phases
      <3> QED
        BY <3>2 DEF Adds, Reports, Marks, Phases
    <2>2. CASE s.ret # "error"
      BY <2>2 DEF Adds, Reports
    <2> QED
      BY <2>1, <2>2
  <1>3. r \in IF d \in Builtins THEN RunCommand(e, d, t, strict)
               ELSE {IF s.ret = "sent" THEN Emit(e, "command") ELSE e}
    BY DEF AfterDispatch
  <1> HIDE DEF e
  <1>4. r \in States /\ Runs(r, e)
        /\ \A late \in BOOLEAN : SignedOff(e, late) => SignedOff(r, late)
    <2>1. CASE d \in Builtins
      BY <1>2, <1>3, <2>1, RunCommandReports
    <2>2. CASE d \notin Builtins
      <3>1. DEFINE c == Emit(e, "command")
      <3>2. /\ c \in States /\ c.did = e.did \cup {"command"}
            /\ c.auth = e.auth /\ c.last = e.last /\ c.sent = e.sent
        BY <1>2, EmitAdds DEF Phases
      <3>3. r \in {c, e}
        BY <1>3, <2>2
      <3> HIDE DEF c
      <3>4. r \in States /\ Adds(r, e)
        BY <1>2, <3>2, <3>3 DEF Adds, Reports, Marks, Phases
      <3> QED
        BY <3>4, AddsSigned DEF Adds, Reports, Runs
    <2> QED
      BY <2>1, <2>2
  <1> QED
    BY <1>2, <1>4, AddsSigned DEF Adds, Reports, Runs

LEMMA DispatchAdds ==
    ASSUME NEW s \in States, NEW d \in Entries, NEW r \in Dispatch(s, d)
    PROVE  /\ r \in States /\ Adds(r, s)
           /\ ~r.raised => r.ret \in {"miss", "error", "sent"}
  <1>1. CASE d # "service"
    <2>1. r = [s EXCEPT !.ret = "miss"]
      BY <1>1 DEF Dispatch
    <2>2. r \in States
      BY <2>1 DEF States, Returns
    <2>3. r.did = s.did /\ r.auth = s.auth /\ r.last = s.last
          /\ r.sent = s.sent /\ r.ret = "miss"
      BY <2>1 DEF States
    <2> QED
      BY <2>2, <2>3 DEF Adds, Reports
  <1>2. CASE d = "service"
    <2>1. PICK k \in 0..Render :
            LET w == [s EXCEPT !.now = @ + k]
            IN  \/ \E x \in Transmit(w, w.now) :
                      r = [x EXCEPT !.ret = IF x.raised THEN "error" ELSE "sent",
                                    !.raised = FALSE]
                \/ r = [w EXCEPT !.raised = TRUE]
      BY <1>2 DEF Dispatch
    <2>2. DEFINE w == [s EXCEPT !.now = @ + k]
    <2>3. s.now + k \in Nat
      <3>1. k \in 0..Render
        BY <2>1
      <3>2. s.now \in Nat
        BY DEF States
      <3> QED
        BY <3>1, <3>2, TimesAssumption
    <2>4. /\ w \in States /\ w.now \in Int /\ w.did = s.did
          /\ w.auth = s.auth /\ w.last = s.last /\ w.sent = s.sent
      BY <2>3 DEF States
    <2>5. (\E x \in Transmit(w, w.now) :
             r = [x EXCEPT !.ret = IF x.raised THEN "error" ELSE "sent",
                           !.raised = FALSE])
          \/ r = [w EXCEPT !.raised = TRUE]
      BY <2>1
    <2> HIDE DEF w
    <2>6. Adds(w, s)
      BY <2>4 DEF Adds, Reports
    <2>7. CASE r = [w EXCEPT !.raised = TRUE]
      <3>1. r \in States
        BY <2>4, <2>7 DEF States
      <3>2. r.did = w.did /\ r.auth = w.auth /\ r.last = w.last
            /\ r.sent = w.sent /\ r.raised
        BY <2>4, <2>7 DEF States
      <3>3. Adds(r, w)
        BY <3>2 DEF Adds, Reports
      <3> QED
        BY <2>6, <3>1, <3>2, <3>3, AddsTwice
    <2>8. ASSUME NEW x \in Transmit(w, w.now),
                 r = [x EXCEPT !.ret = IF x.raised THEN "error" ELSE "sent",
                               !.raised = FALSE]
          PROVE  r \in States /\ Adds(r, s) /\ r.ret \in {"error", "sent"}
      <3>1. x \in States /\ Adds(x, w)
        BY <2>4, TransmitAdds
      <3>2. DEFINE v == IF x.raised THEN "error" ELSE "sent"
      <3>3. v \in {"error", "sent"}
        OBVIOUS
      <3>4. r = [x EXCEPT !.ret = v, !.raised = FALSE]
        BY <2>8
      <3> HIDE DEF v
      <3>5. r \in States
        BY <3>1, <3>3, <3>4 DEF States, Returns
      <3>6. r.did = x.did /\ r.auth = x.auth /\ r.last = x.last
            /\ r.sent = x.sent /\ r.ret = v
        BY <3>1, <3>4 DEF States
      <3> QED
        BY <2>6, <3>1, <3>3, <3>5, <3>6 DEF Adds, Reports
    <2> QED
      BY <2>5, <2>7, <2>8
  <1> QED
    BY <1>1, <1>2

\* What the gate makes of an entry: a session that does not take a command at
\* t has the entry verified as a code, and runs nothing.
LEMMA OnDtmfReports ==
    ASSUME NEW t, NEW s, Core(s, t), ~s.raised, NEW d \in Entries,
           NEW r \in OnDtmf(s, d, t)
    PROVE  /\ r \in States
           /\ s.did \subseteq r.did
           /\ r.did \subseteq s.did \cup (Marks \ {"auth_accepted", "session_open",
                                                   "session_close"})
           /\ s.sent => r.sent
           /\ r.last = t
           /\ \/ /\ enforce /\ ~Fit(s, t) /\ r.did = s.did /\ ~r.raised
                 /\ \/ r.ret = "accepted"
                    \/ r.ret = "rejected" /\ ~r.auth
              \/ /\ enforce => Fit(s, t)
                 /\ r.auth
                 /\ ~r.raised => r.ret \in {"miss", "error", "sent"}
  <1>1. s \in States /\ t \in Nat /\ s.last \in Int /\ Timeout \in Nat
    BY TimesAssumption DEF Core, States
  <1>2. DEFINE e == [Expire(s, t) EXCEPT !.last = t]
               x == e.did \cup {"ran"}
               f == [e EXCEPT !.auth = TRUE, !.did = x]
               g == [e EXCEPT !.did = x]
  <1>3. /\ e \in States /\ e.last = t /\ e.did = s.did /\ e.sent = s.sent
        /\ e.raised = s.raised /\ e.auth = Fit(s, t)
        /\ e.consumed = s.consumed /\ e.used = s.used
        /\ e.now = s.now /\ e.lastId = s.lastId /\ e.idAt = s.idAt
        /\ e.lapsed = s.lapsed
    <2>1. Fit(s, t) \in BOOLEAN /\ s.auth \in BOOLEAN
      BY <1>1 DEF Fit, States
    <2>2. DEFINE y == [s EXCEPT !.auth = Fit(s, t)]
    <2>3. Expire(s, t) = y
      <3>1. CASE Idle(s, t)
        <4>1. Fit(s, t) = FALSE
          BY <1>1, <3>1 DEF Idle, Fit
        <4> QED
          BY <3>1, <4>1 DEF Expire
      <3>2. CASE ~Idle(s, t)
        <4>1. Fit(s, t) = s.auth
          BY <1>1, <2>1, <3>2 DEF Idle, Fit
        <4>2. s = [s EXCEPT !.auth = s.auth]
          BY <1>1 DEF States
        <4> QED
          BY <3>2, <4>1, <4>2 DEF Expire
      <3> QED
        BY <3>1, <3>2
    <2>4. y \in States
      BY <1>1, <2>1 DEF States
    <2>5. /\ y.did = s.did /\ y.sent = s.sent /\ y.raised = s.raised
          /\ y.auth = Fit(s, t) /\ y.consumed = s.consumed /\ y.used = s.used
          /\ y.now = s.now /\ y.lastId = s.lastId /\ y.idAt = s.idAt
          /\ y.lapsed = s.lapsed
      BY <1>1 DEF States
    <2>6. e = [y EXCEPT !.last = t] /\ t \in Int
      BY <1>1, <2>3
    <2> HIDE DEF y, e
    <2>7. e \in States
      BY <2>4, <2>6 DEF States
    <2>8. /\ e.last = t /\ e.did = y.did /\ e.sent = y.sent
          /\ e.raised = y.raised /\ e.auth = y.auth
          /\ e.consumed = y.consumed /\ e.used = y.used
          /\ e.now = y.now /\ e.lastId = y.lastId /\ e.idAt = y.idAt
          /\ e.lapsed = y.lapsed
      BY <2>4, <2>6 DEF States
    <2> QED
      BY <2>5, <2>7, <2>8
  <1>4. r \in IF ~enforce THEN Dispatch(f, d)
              ELSE IF ~e.auth THEN {VerifyAndBurn(e, d, t)}
              ELSE Dispatch(g, d)
    BY DEF OnDtmf
  <1> HIDE DEF e
  <1>5. x \in SUBSET Marks
    BY <1>3 DEF States, Marks
  <1> HIDE DEF x
  <1>6. f \in States /\ g \in States
    BY <1>3, <1>5 DEF States
  <1>7. /\ f.auth = TRUE /\ f.did = x /\ f.sent = e.sent /\ f.last = e.last
        /\ g.auth = e.auth /\ g.did = x /\ g.sent = e.sent /\ g.last = e.last
    BY <1>3 DEF States
  <1> HIDE DEF f, g
  <1>8. ASSUME NEW h \in States, h.auth, h.did = x, h.sent = e.sent,
               h.last = e.last, r \in Dispatch(h, d), enforce => e.auth
        PROVE  /\ r \in States
               /\ s.did \subseteq r.did
               /\ r.did \subseteq s.did \cup (Marks \ {"auth_accepted",
                                              "session_open", "session_close"})
               /\ s.sent => r.sent
               /\ r.last = t
               /\ enforce => Fit(s, t)
               /\ r.auth
               /\ ~r.raised => r.ret \in {"miss", "error", "sent"}
    <2>1. r \in States /\ Adds(r, h) /\ (~r.raised => r.ret \in {"miss", "error", "sent"})
      BY <1>8, DispatchAdds
    <2>2. x = s.did \cup {"ran"} /\ "ran" \in Marks
      BY <1>3 DEF x, Marks
    <2> QED
      BY <1>3, <1>8, <2>1, <2>2 DEF Adds, Reports
  <1>9. CASE ~enforce
    BY <1>4, <1>6, <1>7, <1>8, <1>9
  <1>10. CASE enforce /\ e.auth
    BY <1>3, <1>4, <1>6, <1>7, <1>8, <1>10
  <1>11. CASE enforce /\ ~e.auth
    <2>1. r = VerifyAndBurn(e, d, t)
      BY <1>4, <1>11
    <2>2. Core(e, t)
      BY <1>3, <1>1 DEF Core, Stamped, Burned
    <2>3. /\ Core(r, t) /\ r.last = e.last /\ r.raised = e.raised
          /\ \/ r.ret = "rejected" /\ r.auth = e.auth
             \/ r.ret = "accepted"
      BY <2>1, <2>2, VerifyKeeps
    <2>4. r.did = e.did /\ r.sent = e.sent
      BY <1>3, <2>1 DEF VerifyAndBurn, States
    <2> QED
      BY <1>3, <1>11, <2>3, <2>4 DEF Core
  <1> QED
    BY <1>9, <1>10, <1>11

\* A step that began in a session that had transmitted: an entry that closes
\* it signs it off, and one that replaces it comes too late for it.
LEMMA EntrySigns ==
    ASSUME NEW t, NEW s, Core(s, t), ~s.raised, NEW d \in Entries,
           NEW late \in BOOLEAN, SignedOff(s, late), s.auth /\ ~late => Fit(s, t),
           NEW r \in Entry(s, d, t)
    PROVE  /\ r \in States /\ SignedOff(r, late)
           /\ r.auth /\ ~late => Fit(r, t)
  <1>1. s \in States /\ t \in Int /\ Timeout \in Nat
    BY TimesAssumption DEF Core
  <1>2. CASE d = "off"
    <2>1. d \in Builtins /\ r \in RunCommand(s, d, t, FALSE)
      BY <1>2 DEF Entry, Builtins
    <2>2. PICK st \in BOOLEAN : r \in RunCommand(s, d, t, st)
      BY <2>1
    <2>3. r \in States /\ Runs(r, s) /\ SignedOff(r, late)
      BY <1>1, <2>1, <2>2, RunCommandReports
    <2> QED
      BY <2>3 DEF Runs, Fit
  <1>3. CASE d # "off"
    <2>1. PICK o \in OnDtmf(s, d, t) :
            r \in IF o.raised THEN {o}
                  ELSE IF o.ret = "accepted" THEN Welcome(o, t)
                  ELSE IF o.ret = "rejected" THEN {Emit(o, "auth_rejected")}
                  ELSE IF ~s.auth /\ o.auth
                  THEN AfterDispatch(Emit(BeginSession(o), "session_open"), d, t, FALSE)
                  ELSE AfterDispatch(o, d, t, FALSE)
      BY <1>3 DEF Entry
    <2>2. /\ o \in States
          /\ s.did \subseteq o.did
          /\ o.did \subseteq s.did \cup (Marks \ {"auth_accepted", "session_open",
                                                  "session_close"})
          /\ s.sent => o.sent
          /\ o.last = t
          /\ \/ /\ enforce /\ ~Fit(s, t) /\ o.did = s.did /\ ~o.raised
                /\ \/ o.ret = "accepted"
                   \/ o.ret = "rejected" /\ ~o.auth
             \/ /\ enforce => Fit(s, t)
                /\ o.auth
                /\ ~o.raised => o.ret \in {"miss", "error", "sent"}
      BY OnDtmfReports
    <2>3. ~Fit(s, t) \/ ~s.auth => Signs(s) \/ late
      BY DEF SignedOff, Fit
    <2>4. SignedOff(o, late)
      BY <2>2, <2>3 DEF SignedOff, Signs
    <2>5. r \in States /\ r.last = t => (r.auth => Fit(r, t))
      BY <1>1 DEF Fit
    <2> SUFFICES r \in States /\ SignedOff(r, late) /\ r.last = o.last
      BY <2>2, <2>5
    <2>6. CASE o.raised
      BY <2>1, <2>2, <2>4, <2>6
    <2>7. CASE ~o.raised /\ o.ret = "accepted"
      <3>1. r \in Welcome(o, t) /\ (Signs(s) \/ late)
        BY <2>1, <2>2, <2>3, <2>7
      <3>2. /\ r \in States /\ o.did \subseteq r.did
            /\ "session_open" \in r.did /\ r.last = o.last
        BY <1>1, <2>2, <3>1, WelcomeReports
      <3> QED
        BY <2>2, <3>1, <3>2 DEF SignedOff, Signs
    <2>8. CASE ~o.raised /\ o.ret = "rejected"
      <3>1. r = Emit(o, "auth_rejected") /\ "auth_rejected" \in Phases
        BY <2>1, <2>8 DEF Phases
      <3>2. /\ r \in States /\ r.did = o.did \cup {"auth_rejected"}
            /\ r.auth = o.auth /\ r.last = o.last /\ r.sent = o.sent
        BY <2>2, <3>1, EmitAdds
      <3>3. Adds(r, o)
        BY <3>2 DEF Adds, Reports, Marks, Phases
      <3> QED
        BY <2>4, <3>2, <3>3, AddsSigned
    <2>9. CASE ~o.raised /\ o.ret \notin {"accepted", "rejected"}
      <3>1. DEFINE b == BeginSession(o)
                   e == Emit(b, "session_open")
      <3>2. b \in States /\ b.did = o.did /\ b.raised = o.raised
            /\ b.last = o.last
        BY <2>2, BeginAdds DEF Returns
      <3> HIDE DEF b
      <3>3. /\ e \in States /\ e.did = b.did \cup {"session_open"}
            /\ e.raised = b.raised /\ e.last = b.last
        BY <3>2, EmitAdds DEF Phases
      <3> HIDE DEF e
      <3>4. CASE ~s.auth /\ o.auth
        <4>1. r \in AfterDispatch(e, d, t, FALSE)
          BY <2>1, <2>9, <3>4 DEF e, b
        <4>2. SignedOff(e, late)
          BY <2>2, <2>3, <3>2, <3>3, <3>4 DEF SignedOff, Signs
        <4>3. PICK st \in BOOLEAN : r \in AfterDispatch(e, d, t, st)
          BY <4>1
        <4>4. r \in States /\ Runs(r, e) /\ SignedOff(r, late)
          BY <1>1, <2>9, <3>2, <3>3, <4>2, <4>3, AfterDispatchReports
        <4> QED
          BY <3>2, <3>3, <4>4 DEF Runs
      <3>5. CASE ~(~s.auth /\ o.auth)
        <4>1. r \in AfterDispatch(o, d, t, FALSE)
          BY <2>1, <2>9, <3>5
        <4>2. PICK st \in BOOLEAN : r \in AfterDispatch(o, d, t, st)
          BY <4>1
        <4>3. r \in States /\ Runs(r, o) /\ SignedOff(r, late)
          BY <1>1, <2>2, <2>4, <2>9, <4>2, AfterDispatchReports
        <4> QED
          BY <4>3 DEF Runs
      <3> QED
        BY <3>4, <3>5
    <2> QED
      BY <2>6, <2>7, <2>8, <2>9
  <1> QED
    BY <1>2, <1>3

\* No entry has a command run in a session that does not take one, unless a
\* login came ahead of it.
LEMMA EntryAdmits ==
    ASSUME NEW t, NEW s, Core(s, t), ~s.raised, enforce, NEW d \in Entries,
           NEW fit, Admitted(s, fit, t), NEW r \in Entry(s, d, t)
    PROVE  r \in States /\ Admitted(r, fit, t)
  <1>1. s \in States /\ t \in Int
    BY DEF Core
  <1>2. CASE d = "off"
    <2>1. d \in Builtins /\ r \in RunCommand(s, d, t, FALSE)
      BY <1>2 DEF Entry, Builtins
    <2>2. PICK st \in BOOLEAN : r \in RunCommand(s, d, t, st)
      BY <2>1
    <2> QED
      BY <1>1, <2>1, <2>2, RunCommandReports, RunsAdmitted
  <1>3. CASE d # "off"
    <2>1. PICK o \in OnDtmf(s, d, t) :
            r \in IF o.raised THEN {o}
                  ELSE IF o.ret = "accepted" THEN Welcome(o, t)
                  ELSE IF o.ret = "rejected" THEN {Emit(o, "auth_rejected")}
                  ELSE IF ~s.auth /\ o.auth
                  THEN AfterDispatch(Emit(BeginSession(o), "session_open"), d, t, FALSE)
                  ELSE AfterDispatch(o, d, t, FALSE)
      BY <1>3 DEF Entry
    <2>2. /\ o \in States
          /\ s.did \subseteq o.did
          /\ \/ /\ ~Fit(s, t) /\ o.did = s.did /\ ~o.raised
                /\ \/ o.ret = "accepted"
                   \/ o.ret = "rejected" /\ ~o.auth
             \/ /\ Fit(s, t) /\ o.auth
                /\ ~o.raised => o.ret \in {"miss", "error", "sent"}
      BY OnDtmfReports
    <2>3. CASE Fit(s, t)
      <3>1. fit \/ "auth_accepted" \in o.did
        BY <2>2, <2>3 DEF Admitted
      <3>2. s.auth
        BY <2>3 DEF Fit
      <3>3. CASE o.raised
        BY <2>1, <2>2, <3>1, <3>3 DEF Admitted
      <3>4. CASE ~o.raised
        <4>1. PICK st \in BOOLEAN : r \in AfterDispatch(o, d, t, st)
          BY <2>1, <2>2, <2>3, <3>2, <3>4
        <4>2. r \in States /\ Runs(r, o)
          BY <1>1, <2>2, <3>4, <4>1, AfterDispatchReports
        <4> QED
          BY <3>1, <4>2 DEF Admitted, Runs
      <3> QED
        BY <3>3, <3>4
    <2>4. CASE ~Fit(s, t) /\ o.ret = "accepted"
      <3>1. r \in Welcome(o, t)
        BY <2>1, <2>2, <2>4
      <3> QED
        BY <1>1, <2>2, <3>1, WelcomeReports DEF Admitted
    <2>5. CASE ~Fit(s, t) /\ o.ret # "accepted"
      <3>1. r = Emit(o, "auth_rejected") /\ "auth_rejected" \in Phases
            /\ o.did = s.did /\ ~o.auth
        BY <2>1, <2>2, <2>5 DEF Phases
      <3>2. /\ r \in States /\ r.did = s.did \cup {"auth_rejected"} /\ ~r.auth
        BY <2>2, <3>1, EmitAdds
      <3> QED
        BY <3>2 DEF Admitted, Fit
    <2> QED
      BY <2>3, <2>4, <2>5
  <1> QED
    BY <1>2, <1>3

\* The entries of a frame: no command runs out of its session, and the session
\* the frame found is signed off or replaced.
LEMMA HandleReports ==
    ASSUME NEW t, NEW s, Core(s, t), Recorded(s), ~s.raised, enforce \in BOOLEAN,
           s.now = t, NEW es \in Frames, NEW r \in Handle(s, es, t)
    PROVE  /\ r \in States
           /\ \A late \in BOOLEAN :
                SignedOff(s, late) /\ (s.auth /\ ~late => Fit(s, t))
                  => SignedOff(r, late)
           /\ \A fit : enforce /\ Admitted(s, fit, t) => Admitted(r, fit, t)
  <1>1. s \in States /\ s.now - t <= Render
    BY TimesAssumption DEF Core, States
  <1>2. CASE es = <<>>
    BY <1>1, <1>2 DEF Handle
  <1>3. ASSUME NEW d \in Entries, es = <<d>>
        PROVE  /\ r \in States
               /\ \A late \in BOOLEAN :
                    SignedOff(s, late) /\ (s.auth /\ ~late => Fit(s, t))
                      => SignedOff(r, late)
               /\ \A fit : enforce /\ Admitted(s, fit, t) => Admitted(r, fit, t)
    <2>1. r \in Entry(s, d, t)
      BY <1>3 DEF Handle
    <2>2. r \in States
      BY <1>1, <2>1, EntryKeeps DEF Core
    <2> QED
      BY <2>1, <2>2, EntrySigns, EntryAdmits
  <1>4. ASSUME NEW d \in Entries, NEW c \in Entries, es = <<d, c>>
        PROVE  /\ r \in States
               /\ \A late \in BOOLEAN :
                    SignedOff(s, late) /\ (s.auth /\ ~late => Fit(s, t))
                      => SignedOff(r, late)
               /\ \A fit : enforce /\ Admitted(s, fit, t) => Admitted(r, fit, t)
    <2>1. PICK o \in Entry(s, d, t) : r \in IF o.raised THEN {o} ELSE Entry(o, c, t)
      BY <1>4 DEF Handle
    <2>2. Core(o, t) /\ Recorded(o) /\ o.now - t <= Render
      BY <1>1, EntryKeeps
    <2>3. r \in States
      <3>1. CASE o.raised
        BY <2>1, <2>2, <3>1 DEF Core
      <3>2. CASE ~o.raised
        BY <2>1, <2>2, <3>2, EntryKeeps DEF Core
      <3> QED
        BY <3>1, <3>2
    <2>4. ASSUME NEW late \in BOOLEAN, SignedOff(s, late),
                 s.auth /\ ~late => Fit(s, t)
          PROVE  SignedOff(r, late)
      <3>1. SignedOff(o, late) /\ (o.auth /\ ~late => Fit(o, t))
        BY <2>4, EntrySigns
      <3> QED
        BY <2>1, <2>2, <3>1, EntrySigns
    <2>5. ASSUME NEW fit, enforce, Admitted(s, fit, t)
          PROVE  Admitted(r, fit, t)
      <3>1. Admitted(o, fit, t)
        BY <2>5, EntryAdmits
      <3> QED
        BY <2>1, <2>2, <2>5, <3>1, EntryAdmits
    <2> QED
      BY <2>3, <2>4, <2>5
  <1>5. \/ es = <<>>
        \/ \E d \in Entries : es = <<d>>
        \/ \E d \in Entries, c \in Entries : es = <<d, c>>
    BY DEF Frames
  <1> QED
    BY <1>2, <1>3, <1>4, <1>5

\* The sweep closes with a sign-off and runs no command.
LEMMA SweepReports ==
    ASSUME NEW s \in States, NEW t \in Int, ~s.raised, NEW r \in Sweep(s, t)
    PROVE  /\ r \in States /\ Runs(r, s)
           /\ \A late \in BOOLEAN : SignedOff(s, late) => SignedOff(r, late)
  <1>1. CASE Idle(s, t)
    <2>1. DEFINE e == Expire(s, t)
    <2>2. e = [s EXCEPT !.auth = FALSE]
      BY <1>1 DEF Expire
    <2> HIDE DEF e
    <2>3. /\ e \in States /\ e.did = s.did /\ e.last = s.last
          /\ e.sent = s.sent /\ e.raised = s.raised /\ ~e.auth
      BY <2>2 DEF States
    <2>4. PICK st \in BOOLEAN : r \in CloseSession(e, "timeout", t, st)
      BY <1>1 DEF Sweep, e
    <2>5. r \in States /\ Runs(r, e) /\ (e.sent => Signs(r))
      BY <2>3, <2>4, CloseSessionSigns
    <2> QED
      BY <2>3, <2>5 DEF Runs, SignedOff, Signs
  <1>2. CASE ~Idle(s, t) /\ s.auth
    <2>1. PICK k \in Keyed(Check(s, t), FALSE) :
            r = IF k.ret = "true" THEN Emit(k, "id") ELSE k
      BY <1>2 DEF Sweep
    <2>2. Check(s, t) \subseteq States
      BY CheckAdds
    <2>3. PICK st \in BOOLEAN : k \in Keyed(Check(s, t), st)
      BY <2>1
    <2>4. k \in States /\ \E x \in Check(s, t) : Adds(k, x)
      BY <2>2, <2>3, KeyedReports
    <2>5. Adds(k, s)
      BY <2>4, CheckAdds, AddsTwice
    <2>6. DEFINE e == Emit(k, "id")
    <2>7. /\ e \in States /\ e.did = k.did \cup {"id"} /\ e.auth = k.auth
          /\ e.last = k.last /\ e.sent = k.sent
      BY <2>4, EmitAdds DEF Phases
    <2>8. r \in {k, e}
      BY <2>1
    <2> HIDE DEF e
    <2>9. r \in States /\ Adds(r, s)
      BY <2>4, <2>5, <2>7, <2>8 DEF Adds, Reports, Marks, Phases
    <2> QED
      BY <2>9, AddsSigned DEF Adds, Reports, Runs
  <1>3. CASE ~Idle(s, t) /\ ~s.auth
    BY <1>3 DEF Sweep, Runs
  <1> QED
    BY <1>1, <1>2, <1>3

-----------------------------------------------------------------------------
(* The state between the operations.                                       *)

\* The inductive invariant.
IInv ==
    /\ Core(Here, now)
    /\ Recorded(Here)
    /\ enforce \in Enforcing
    /\ wired \in BOOLEAN
    /\ did \subseteq Marks

LEMMA HereIs ==
    ASSUME IInv
    PROVE  /\ Core(Here, now) /\ Recorded(Here) /\ ~Here.raised
           /\ enforce \in BOOLEAN /\ now \in Nat
           /\ Here.now = now /\ Here.auth = auth /\ Here.last = last
           /\ Here.consumed = consumed /\ Here.used = used
           /\ Here.ledger = ledger /\ Here.lastId = lastId /\ Here.idAt = idAt
           /\ Here.lapsed = lapsed /\ Here.sent = sent
  BY SettingsAssumption DEF IInv, Here, Core

\* A state an operation ends in satisfies Core at the time that it is then.
LEMMA BecomeKeeps ==
    ASSUME NEW t, NEW s, Core(s, t), Become(s)
    PROVE  Core(Here, now)' /\ did' \subseteq Marks
  <1>1. s \in States /\ t \in Nat /\ s.now \in Nat /\ t <= s.now
    BY DEF Core, States
  <1>2. Burned(s, s.now)
    BY <1>1, BurnedLater DEF Core
  <1>3. DEFINE h == [now |-> s.now, auth |-> s.auth, last |-> s.last,
                     consumed |-> s.consumed, sent |-> s.sent,
                     lastId |-> s.lastId, ledger |-> s.ledger, did |-> {},
                     idAt |-> s.idAt, lapsed |-> s.lapsed, used |-> s.used,
                     ret |-> "none", raised |-> FALSE]
  <1>4. h \in States
    BY <1>1 DEF States, Returns
  <1>5. /\ h.now = s.now /\ h.last = s.last /\ h.consumed = s.consumed
        /\ h.lastId = s.lastId /\ h.idAt = s.idAt /\ h.lapsed = s.lapsed
        /\ h.used = s.used
    OBVIOUS
  <1>6. Here' = h /\ now' = s.now
    BY DEF Become, Here
  <1> HIDE DEF h
  <1>7. Core(h, s.now)
    BY <1>1, <1>2, <1>4, <1>5 DEF Core, Stamped, Burned
  <1>8. Core(Here', now')
    BY <1>6, <1>7
  <1>9. did' \subseteq Marks
    BY <1>1 DEF Become, States
  <1> QED
    BY <1>8, <1>9

\* What every operation that goes through Become has to show.
LEMMA OperationKeeps ==
    ASSUME IInv, NEW t, NEW s, Core(s, t), Recorded(s), Become(s),
           UNCHANGED <<enforce, wired>>
    PROVE  IInv'
  <1>1. Core(Here, now)' /\ did' \subseteq Marks
    BY BecomeKeeps
  <1>2. Recorded(Here)'
    BY DEF Recorded, Become, Here
  <1> QED
    BY <1>1, <1>2 DEF IInv

LEMMA StepOutcomes ==
    ASSUME IInv, Step
    PROVE  \E s : /\ Become(s) /\ UNCHANGED <<enforce, wired>>
                  /\ Core(s, now) /\ Recorded(s) /\ Fresh(s, Here)
  <1>1. PICK es \in Frames :
          \E s \in UNION {IF r.raised THEN {r} ELSE Sweep(r, now) :
                          r \in Handle(Here, es, now)} : Become(s)
    BY DEF Step
  <1>2. PICK r \in Handle(Here, es, now) :
          \E s \in IF r.raised THEN {r} ELSE Sweep(r, now) : Become(s)
    BY <1>1
  <1>3. /\ Core(r, now) /\ Recorded(r) /\ Fresh(r, Here)
        /\ r.now - now <= Render \/ r.last = now
    BY HereIs, HandleKeeps
  <1>4. CASE r.raised
    BY <1>2, <1>3, <1>4 DEF Step
  <1>5. CASE ~r.raised
    <2>1. PICK s \in Sweep(r, now) : Become(s)
      BY <1>2, <1>5
    <2>2. /\ Core(s, now) /\ Recorded(s)
          /\ s.consumed = r.consumed /\ s.used = r.used
      BY <1>3, SweepKeeps
    <2> QED
      BY <1>3, <2>1, <2>2 DEF Fresh, Step
  <1> QED
    BY <1>4, <1>5

LEMMA OpenOutcomesKeep ==
    ASSUME IInv, OpenSession
    PROVE  \E s : /\ Become(s) /\ UNCHANGED <<enforce, wired>>
                  /\ Core(s, now) /\ Recorded(s) /\ Fresh(s, Here)
  <1>1. PICK r \in OpenOutcomes(Here) : Become(r)
    BY DEF OpenSession
  <1>2. Here \in States /\ Core(Here, now) /\ Here.now = now /\ now \in Nat
        /\ Recorded(Here)
    BY HereIs DEF Core
  <1>3. CASE Here.auth
    <2>1. r = [Here EXCEPT !.last = now] /\ now \in Int
      BY <1>1, <1>2, <1>3 DEF OpenOutcomes
    <2>2. r \in States
      BY <1>2, <2>1 DEF States
    <2>3. /\ r.now = Here.now /\ r.auth = Here.auth /\ r.last = now
          /\ r.consumed = Here.consumed /\ r.used = Here.used
          /\ r.lastId = Here.lastId /\ r.idAt = Here.idAt
          /\ r.lapsed = Here.lapsed /\ r.ledger = Here.ledger
      BY <1>2, <2>1 DEF States
    <2>4. Core(r, now)
      BY <1>2, <2>2, <2>3 DEF Core, Stamped, Burned
    <2> QED
      BY <1>1, <1>2, <2>3, <2>4 DEF OpenSession, Recorded, Fresh
  <1>4. CASE ~Here.auth
    <2>1. DEFINE a == [Here EXCEPT !.auth = TRUE]
                 o == [a EXCEPT !.last = now]
    <2>2. r \in Welcome([Here EXCEPT !.auth = TRUE, !.last = now], now)
      BY <1>1, <1>2, <1>4 DEF OpenOutcomes
    <2>3. [Here EXCEPT !.auth = TRUE, !.last = now] = o
      BY <1>2 DEF States
    <2>4. a \in States
      BY <1>2 DEF States
    <2>5. /\ a.now = Here.now /\ a.consumed = Here.consumed
          /\ a.used = Here.used /\ a.lastId = Here.lastId
          /\ a.idAt = Here.idAt /\ a.lapsed = Here.lapsed
      BY <1>2 DEF States
    <2> HIDE DEF a
    <2>6. o \in States
      BY <1>2, <2>4 DEF States
    <2>7. /\ o.now = a.now /\ o.consumed = a.consumed /\ o.used = a.used
          /\ o.lastId = a.lastId /\ o.idAt = a.idAt /\ o.lapsed = a.lapsed
          /\ o.last = now
      BY <2>4 DEF States
    <2> HIDE DEF o
    <2>8. Core(o, now)
      BY <1>2, <2>5, <2>6, <2>7 DEF Core, Stamped, Burned
    <2>9. o.now - now <= Render
      BY <1>2, <2>5, <2>7, TimesAssumption
    <2>10. r \in Welcome(o, now)
      BY <2>2, <2>3
    <2>11. Core(r, now) /\ Same(r, o) /\ Recorded(r)
      BY <2>8, <2>9, <2>10, WelcomeKeeps
    <2> QED
      BY <1>1, <2>5, <2>7, <2>11 DEF OpenSession, Same, Fresh
  <1> QED
    BY <1>3, <1>4

LEMMA TriggerOutcomes ==
    ASSUME IInv, Trigger
    PROVE  \E s : /\ Become(s) /\ UNCHANGED <<enforce, wired>>
                  /\ Core(s, now) /\ Recorded(s) /\ Fresh(s, Here)
  <1>1. PICK d \in Builtins \cup {"service"} :
          \E s \in IF d \in Builtins THEN RunCommand(Here, d, now, TRUE)
                   ELSE UNION {IF r.raised THEN {r}
                               ELSE AfterDispatch(r, d, now, TRUE) :
                               r \in Dispatch(Here, d)} : Become(s)
    BY DEF Trigger
  <1>2. Core(Here, now) /\ Recorded(Here) /\ Here.now - now <= Render
    BY HereIs, TimesAssumption
  <1>3. d \in Entries
    BY <1>1 DEF Entries
  <1>4. CASE d \in Builtins
    <2>1. PICK s \in RunCommand(Here, d, now, TRUE) : Become(s)
      BY <1>1, <1>4
    <2>2. PICK st \in BOOLEAN : s \in RunCommand(Here, d, now, st)
      BY <2>1
    <2>3. /\ Core(s, now) /\ Recorded(s)
          /\ s.consumed = Here.consumed /\ s.used = Here.used
      BY <1>2, <1>4, <2>2, RunCommandKeeps
    <2> QED
      BY <2>1, <2>3 DEF Fresh, Trigger
  <1>5. CASE d \notin Builtins
    <2>1. PICK r \in Dispatch(Here, d) :
            \E s \in IF r.raised THEN {r} ELSE AfterDispatch(r, d, now, TRUE) :
              Become(s)
      BY <1>1, <1>5
    <2>2. /\ Core(r, now) /\ r.auth = Here.auth /\ r.ledger = Here.ledger
          /\ r.consumed = Here.consumed /\ r.used = Here.used
      BY <1>2, <1>3, DispatchKeeps
    <2>3. Recorded(r)
      BY <1>2, <2>2 DEF Recorded
    <2>4. CASE r.raised
      BY <2>1, <2>2, <2>3, <2>4 DEF Fresh, Trigger
    <2>5. CASE ~r.raised
      <3>1. PICK s \in AfterDispatch(r, d, now, TRUE) : Become(s)
        BY <2>1, <2>5
      <3>2. PICK st \in BOOLEAN : s \in AfterDispatch(r, d, now, st)
        BY <3>1
      <3>3. /\ Core(s, now) /\ Recorded(s)
            /\ s.consumed = r.consumed /\ s.used = r.used
        BY <1>3, <1>5, <2>2, <2>3, <3>2, AfterDispatchKeeps
      <3> QED
        BY <2>2, <3>1, <3>3 DEF Fresh, Trigger
    <2> QED
      BY <2>4, <2>5
  <1> QED
    BY <1>4, <1>5

LEMMA SwapKeeps ==
    ASSUME IInv, Swap
    PROVE  IInv' /\ consumed' = {}
  <1>1. DEFINE b == BeginSession(Here)
               n == [b EXCEPT !.consumed = {}, !.used = {}]
  <1>2. Core(b, now)
    BY HereIs, BeginKeeps DEF Returns
  <1> HIDE DEF b
  <1>3. b \in States
    BY <1>2 DEF Core
  <1>4. n \in States
    BY <1>3 DEF States
  <1>5. /\ n.now = b.now /\ n.last = b.last /\ n.lastId = b.lastId
        /\ n.idAt = b.idAt /\ n.lapsed = b.lapsed
        /\ n.consumed = {} /\ n.used = {}
    BY <1>3 DEF States
  <1>6. Become(n)
    BY DEF Swap, b
  <1> HIDE DEF n
  <1>7. Core(n, now)
    BY <1>2, <1>4, <1>5 DEF Core, Stamped, Burned
  <1>8. Core(Here, now)' /\ did' \subseteq Marks
    BY <1>6, <1>7, BecomeKeeps
  <1>9. wired' = FALSE /\ enforce' = enforce
    BY DEF Swap
  <1>10. Recorded(Here)'
    BY <1>9 DEF Recorded
  <1> QED
    BY <1>5, <1>6, <1>8, <1>9, <1>10 DEF IInv, Become

LEMMA TickKeeps ==
    ASSUME IInv, Tick
    PROVE  IInv' /\ consumed' = consumed
  <1>1. PICK k \in Jumps : now' = now + k
    BY DEF Tick
  <1>2. now \in Nat /\ now' \in Nat /\ now <= now'
    BY <1>1, HereIs, TimesAssumption
  <1>3. DEFINE h == [now |-> now', auth |-> auth, last |-> last,
                     consumed |-> consumed, sent |-> sent, lastId |-> lastId,
                     ledger |-> ledger, did |-> {}, idAt |-> idAt,
                     lapsed |-> lapsed, used |-> used,
                     ret |-> "none", raised |-> FALSE]
  <1>4. Here \in States /\ Core(Here, now) /\ Here.now = now /\ Recorded(Here)
    BY HereIs DEF Core
  <1>5. h \in States
    BY <1>2, <1>4 DEF States, Here
  <1>6. /\ h.now = now' /\ h.last = Here.last /\ h.lastId = Here.lastId
        /\ h.idAt = Here.idAt /\ h.lapsed = Here.lapsed
        /\ h.consumed = Here.consumed /\ h.used = Here.used
    BY DEF Here
  <1>7. Here' = h
    BY DEF Tick, Here
  <1> HIDE DEF h
  <1>8. Burned(Here, now')
    BY <1>2, <1>4, BurnedLater DEF Core
  <1>9. Core(h, now')
    BY <1>2, <1>4, <1>5, <1>6, <1>8 DEF Core, Stamped, Burned
  <1>10. Core(Here', now')
    BY <1>7, <1>9
  <1>11. Recorded(Here)'
    BY <1>4 DEF Recorded, Here, Tick
  <1> QED
    BY <1>10, <1>11 DEF IInv, Tick

\* What the operations report of the session they find.
LEMMA OperationReports ==
    ASSUME IInv, Next
    PROVE  /\ auth /\ sent /\ "session_close" \in did'
                => \/ did' \cap {"ID", "tx_failed"} # {}
                   \/ ~(now - last <= Timeout) /\ "session_open" \in did'
           /\ enforce /\ "ran" \in did'
                => (auth /\ now - last <= Timeout) \/ "auth_accepted" \in did'
  <1> DEFINE late == ~(now - last <= Timeout)
             fit == auth /\ now - last <= Timeout
             Goal == /\ auth /\ sent /\ "session_close" \in did'
                          => \/ did' \cap {"ID", "tx_failed"} # {}
                             \/ late /\ "session_open" \in did'
                     /\ enforce /\ "ran" \in did'
                          => fit \/ "auth_accepted" \in did'
  <1>1. /\ Here \in States /\ Core(Here, now) /\ Recorded(Here) /\ ~Here.raised
        /\ Here.did = {} /\ Here.auth = auth /\ Here.sent = sent
        /\ Here.now = now /\ Here.last = last
        /\ enforce \in BOOLEAN /\ now \in Int /\ late \in BOOLEAN
    BY HereIs DEF Core, Here
  <1>2. /\ auth /\ sent => SignedOff(Here, late)
        /\ Here.auth /\ ~late => Fit(Here, now)
        /\ Admitted(Here, fit, now)
    BY <1>1 DEF SignedOff, Admitted, Fit
  <1>3. ASSUME NEW s, Become(s), SignedOff(Here, late) => SignedOff(s, late),
               enforce => fit \/ "auth_accepted" \in s.did \/ "ran" \notin s.did
        PROVE  Goal
    <2>1. did' = s.did
      BY <1>3 DEF Become
    <2> QED
      BY <1>2, <1>3, <2>1 DEF SignedOff, Signs
  <1>4. CASE Step
    <2>1. PICK es \in Frames :
            \E s \in UNION {IF r.raised THEN {r} ELSE Sweep(r, now) :
                            r \in Handle(Here, es, now)} : Become(s)
      BY <1>4 DEF Step
    <2>2. PICK r \in Handle(Here, es, now) :
            \E s \in IF r.raised THEN {r} ELSE Sweep(r, now) : Become(s)
      BY <2>1
    <2>3. /\ r \in States
          /\ SignedOff(Here, late) => SignedOff(r, late)
          /\ enforce => Admitted(r, fit, now)
      BY <1>1, <1>2, HandleReports
    <2>4. PICK s \in IF r.raised THEN {r} ELSE Sweep(r, now) : Become(s)
      BY <2>2
    <2>5. Runs(s, r) /\ (SignedOff(r, late) => SignedOff(s, late))
      <3>1. CASE r.raised
        BY <2>4, <3>1 DEF Runs
      <3>2. CASE ~r.raised
        BY <1>1, <2>3, <2>4, <3>2, SweepReports
      <3> QED
        BY <3>1, <3>2
    <2>6. enforce => Admitted(s, fit, now)
      BY <2>3, <2>5, RunsAdmitted
    <2> QED
      BY <1>3, <2>3, <2>4, <2>5, <2>6 DEF Admitted
  <1>5. CASE OpenSession
    <2>1. PICK s \in OpenOutcomes(Here) : Become(s)
      BY <1>5 DEF OpenSession
    <2>2. CASE auth
      <3>1. s = [Here EXCEPT !.last = now]
        BY <1>1, <2>1, <2>2 DEF OpenOutcomes
      <3>2. s.did = {} /\ s.sent = Here.sent /\ s.auth = Here.auth
        BY <1>1, <3>1 DEF States
      <3>3. SignedOff(Here, late) => SignedOff(s, late)
        BY <1>1, <3>2 DEF SignedOff, Signs
      <3> QED
        BY <1>3, <2>1, <3>2, <3>3
    <2>3. CASE ~auth
      <3>1. DEFINE a == [Here EXCEPT !.auth = TRUE]
                   o == [a EXCEPT !.last = now]
      <3>2. s \in Welcome(o, now)
        BY <1>1, <2>1, <2>3 DEF OpenOutcomes
      <3>3. a \in States
        BY <1>1 DEF States
      <3> HIDE DEF a
      <3>4. o \in States
        BY <1>1, <3>3 DEF States
      <3> HIDE DEF o
      <3>5. "auth_accepted" \in s.did
        BY <1>1, <3>2, <3>4, WelcomeReports
      <3>6. did' = s.did
        BY <2>1 DEF Become
      <3> QED
        BY <2>3, <3>5, <3>6
    <2> QED
      BY <2>2, <2>3
  <1>6. CASE Trigger
    <2>1. PICK d \in Builtins \cup {"service"} :
            \E s \in IF d \in Builtins THEN RunCommand(Here, d, now, TRUE)
                     ELSE UNION {IF r.raised THEN {r}
                                 ELSE AfterDispatch(r, d, now, TRUE) :
                                 r \in Dispatch(Here, d)} : Become(s)
      BY <1>6 DEF Trigger
    <2>2. d \in Entries
      BY <2>1 DEF Entries
    <2>3. CASE d \in Builtins
      <3>1. PICK s \in RunCommand(Here, d, now, TRUE) : Become(s)
        BY <2>1, <2>3
      <3>2. PICK st \in BOOLEAN : s \in RunCommand(Here, d, now, st)
        BY <3>1
      <3>3. Runs(s, Here) /\ (SignedOff(Here, late) => SignedOff(s, late))
        BY <1>1, <2>3, <3>2, RunCommandReports
      <3> QED
        BY <1>1, <1>3, <3>1, <3>3 DEF Runs
    <2>4. CASE d \notin Builtins
      <3>1. PICK r \in Dispatch(Here, d) :
              \E s \in IF r.raised THEN {r} ELSE AfterDispatch(r, d, now, TRUE) :
                Become(s)
        BY <2>1, <2>4
      <3>2. r \in States /\ Adds(r, Here)
        BY <1>1, <2>2, DispatchAdds
      <3>3. PICK s \in IF r.raised THEN {r} ELSE AfterDispatch(r, d, now, TRUE) :
              Become(s)
        BY <3>1
      <3>4. Runs(s, r) /\ (SignedOff(r, late) => SignedOff(s, late))
        <4>1. CASE r.raised
          BY <3>3, <4>1 DEF Runs
        <4>2. CASE ~r.raised
          <5>1. PICK st \in BOOLEAN : s \in AfterDispatch(r, d, now, st)
            BY <3>3, <4>2
          <5> QED
            BY <1>1, <2>2, <3>2, <4>2, <5>1, AfterDispatchReports
        <4> QED
          BY <4>1, <4>2
      <3>5. "ran" \notin s.did
        BY <1>1, <3>2, <3>4 DEF Adds, Reports, Runs
      <3>6. SignedOff(Here, late) => SignedOff(s, late)
        BY <3>2, <3>4, AddsSigned
      <3> QED
        BY <1>3, <3>3, <3>5, <3>6
    <2> QED
      BY <2>3, <2>4
  <1>7. CASE Swap
    <2>1. DEFINE b == BeginSession(Here)
                 n == [b EXCEPT !.consumed = {}, !.used = {}]
    <2>2. b \in States /\ b.did = {}
      BY <1>1, BeginAdds DEF Returns
    <2> HIDE DEF b
    <2>3. n.did = {}
      BY <2>2 DEF States
    <2>4. did' = n.did
      BY <1>7 DEF Swap, Become, b
    <2> QED
      BY <2>3, <2>4
  <1>8. CASE Tick
    BY <1>8 DEF Tick
  <1> QED
    BY <1>4, <1>5, <1>6, <1>7, <1>8 DEF Next

-----------------------------------------------------------------------------
\* No behaviour of the controller leaves its invariant: at every moment the
\* stamp of the last ID is backed by an ID on the air, every burned code is
\* remembered while its window lasts, and an open session is recorded.
THEOREM Invariance == Spec => []IInv
  <1>1. Init => IInv
    <2>1. SUFFICES ASSUME Init PROVE IInv
      OBVIOUS
    <2>2. TotpInterval \in Nat /\ Never \in Int
      BY TimesAssumption DEF Never
    <2>3. /\ Here.now = TotpInterval /\ Here.last = 0 /\ Here.lastId = Never
          /\ Here.idAt = Never /\ Here.lapsed = FALSE /\ Here.used = {}
          /\ Here.auth = FALSE /\ now = TotpInterval
      BY <2>1 DEF Init, Here
    <2>4. Here \in States
      <3>1. Here = [now |-> TotpInterval, auth |-> FALSE, last |-> 0,
                    consumed |-> {}, sent |-> FALSE, lastId |-> Never,
                    ledger |-> "none", did |-> {}, idAt |-> Never,
                    lapsed |-> FALSE, used |-> {}, ret |-> "none",
                    raised |-> FALSE]
        BY <2>1 DEF Init, Here
      <3> QED
        BY <2>2, <3>1 DEF States, Returns
    <2>5. Core(Here, now) /\ Recorded(Here)
      BY <2>2, <2>3, <2>4 DEF Core, Stamped, Burned, Recorded, Never
    <2> QED
      BY <2>1, <2>5 DEF IInv, Init
  <1>2. IInv /\ [Next]_vars => IInv'
    <2>1. SUFFICES ASSUME IInv, [Next]_vars PROVE IInv'
      OBVIOUS
    <2>2. CASE Step
      BY <2>1, <2>2, StepOutcomes, OperationKeeps
    <2>3. CASE OpenSession
      BY <2>1, <2>3, OpenOutcomesKeep, OperationKeeps
    <2>4. CASE Trigger
      BY <2>1, <2>4, TriggerOutcomes, OperationKeeps
    <2>5. CASE Swap
      BY <2>1, <2>5, SwapKeeps
    <2>6. CASE Tick
      BY <2>1, <2>6, TickKeeps
    <2>7. CASE UNCHANGED vars
      <3>1. Here' = Here /\ now' = now
        BY <2>7 DEF vars, Here
      <3> QED
        BY <2>1, <2>7, <3>1 DEF IInv, vars, Recorded
    <2> QED
      BY <2>1, <2>2, <2>3, <2>4, <2>5, <2>6, <2>7 DEF Next
  <1> QED
    BY <1>1, <1>2, PTL DEF Spec

\* Every variable keeps its type, and no time of the session is in the future.
THEOREM TypeCorrect == Spec => []TypeOK
  <1>1. IInv => TypeOK
    <2>1. SUFFICES ASSUME IInv PROVE TypeOK
      OBVIOUS
    <2>2. Here \in States /\ did \subseteq Marks /\ enforce \in Enforcing
          /\ wired \in BOOLEAN /\ Here.last \in 0..Here.now /\ Stamped(Here)
      BY <2>1 DEF IInv, Core
    <2>3. /\ now \in Nat /\ auth \in BOOLEAN /\ sent \in BOOLEAN
          /\ lapsed \in BOOLEAN
          /\ consumed \subseteq Entries \X Int /\ used \subseteq Entries \X Int
          /\ ledger \in {"none", "session_open", "session_close"}
      BY <2>2 DEF States, Here
    <2>4. last \in 0..now /\ lastId \in Times /\ idAt \in Times
      BY <2>2 DEF Here, Stamped, Times
    <2> QED
      BY <2>2, <2>3, <2>4 DEF TypeOK, Marks
  <1> QED
    BY <1>1, Invariance, PTL

\* An over with no ID is never on the air when the last ID that was on the air
\* is an interval and a rendering old, for every timing and every failure.
THEOREM OversIdentified == Spec => []OversAreIdentified
  <1>1. IInv => OversAreIdentified
    BY HereIs DEF IInv, Core, OversAreIdentified
  <1> QED
    BY <1>1, Invariance, PTL

\* With auth enforced and the events wired, an open session is on the ledger,
\* whatever the radio refused while it was opened or used.
THEOREM OpensRecorded == Spec => []OpenIsRecorded
  <1>1. IInv => OpenIsRecorded
    BY HereIs DEF Recorded, OpenIsRecorded
  <1> QED
    BY <1>1, Invariance, PTL

\* A verifier never accepts the same code of the same time step twice.
THEOREM CodesBurn == Spec => NoReplay
  <1>1. IInv /\ [Next]_vars => [(consumed' \ consumed) \cap used = {}]_vars
    <2>1. SUFFICES ASSUME IInv, Next
                   PROVE  (consumed' \ consumed) \cap used = {}
      OBVIOUS
    <2>2. Here.consumed = consumed /\ Here.used = used
      BY <2>1, HereIs
    <2>3. ASSUME NEW s, Become(s), Fresh(s, Here)
          PROVE  (consumed' \ consumed) \cap used = {}
      BY <2>2, <2>3 DEF Become, Fresh
    <2>4. CASE Step
      BY <2>1, <2>3, <2>4, StepOutcomes
    <2>5. CASE OpenSession
      BY <2>1, <2>3, <2>5, OpenOutcomesKeep
    <2>6. CASE Trigger
      BY <2>1, <2>3, <2>6, TriggerOutcomes
    <2>7. CASE Swap
      BY <2>1, <2>7, SwapKeeps
    <2>8. CASE Tick
      BY <2>1, <2>8, TickKeeps
    <2> QED
      BY <2>1, <2>4, <2>5, <2>6, <2>7, <2>8 DEF Next
  <1> QED
    BY <1>1, Invariance, PTL DEF Spec, NoReplay

\* With auth enforced, no command runs in a session that had been idle for too
\* long when its frame came, unless a login came ahead of it in the frame.
THEOREM IdleSessionsRunNothing == Spec => IdleTakesNoCommand
  <1>1. IInv /\ [Next]_vars
          => [enforce /\ "ran" \in did'
                => (auth /\ now - last <= Timeout) \/ "auth_accepted" \in did']_vars
    BY OperationReports
  <1> QED
    BY <1>1, Invariance, PTL DEF Spec, IdleTakesNoCommand

\* No close of a session in which the station transmitted is reported without
\* an ID on the air or the report of its failure in the same step, whichever
\* announcements are configured and whatever the radio refuses.
THEOREM ClosesAreSigned == Spec => CloseIsSignedOff
  <1>1. IInv /\ [Next]_vars
          => [auth /\ sent /\ "session_close" \in did'
                /\ (now - last <= Timeout \/ "session_open" \notin did')
                => did' \cap {"ID", "tx_failed"} # {}]_vars
    BY OperationReports
  <1> QED
    BY <1>1, Invariance, PTL DEF Spec, CloseIsSignedOff
=============================================================================
