----------------------------- MODULE DstarOver ------------------------------
(***************************************************************************)
(* The half-duplex overs of the D-STAR bridge (dstar/bridge.py): the drain *)
(* task that plays a reflector stream on RF, the watchdog that cuts it     *)
(* whatever the drain is waiting for, and the two feeders, the crossband   *)
(* ("rf") and the browser operator ("op"), that talk to the reflector.     *)
(* They share one mode latch and one vocoder thread; a coroutine that      *)
(* waits for the vocoder finds the latch as the others left it.            *)
(***************************************************************************)
EXTENDS Naturals, Sequences, FiniteSets

CONSTANTS
    Streams, NoStream,  \* streams of the reflector
    QueueSize,          \* frames the queue keeps (64 in the code)
    MaxFrames,          \* bound on the frames the reflector sends
    MaxFeeds,           \* bound on the frames the feeders offer
    DstarFaults         \* {"late_cut", "undecodable", "refused"}; "late_cut": an over
                        \* is cut while its tail or frame is in the vocoder

VARIABLES
    over,     \* the latch and what hangs on it
    drain,    \* where _reflector_to_rf is
    queue,    \* _rx_queue
    pool,     \* who waits for the vocoder thread, in order
    heard,    \* outbound sessions the gateway has a header of and no end frame
    session,  \* _tx_session_id
    strays,   \* a data frame went out in no open session
    ended,    \* streams whose end frame the drain has handled since their header
    frames, feeds

vars == <<over, drain, queue, pool, heard, session, strays, ended, frames, feeds>>

Feeders == {"rf", "op"}
Deadlines == {"cap", "idle", "dead", "hang"}
AtLoop == [at |-> "loop", id |-> NoStream, cause |-> "none"]

Init ==
    /\ over = [mode |-> "idle", source |-> "none", stream |-> NoStream, last |-> NoStream,
               keyed |-> FALSE, deco |-> FALSE, failing |-> FALSE, elapsed |-> {}]
    /\ drain = AtLoop /\ queue = << >> /\ pool = << >>
    /\ heard = {} /\ session = 0 /\ strays = FALSE /\ ended = {}
    /\ frames = 0 /\ feeds = 0

(***************************************************************************)
(* Inbound: the pure steps on the latch.                                   *)
(***************************************************************************)

_latch_over(o, id) ==
    [o EXCEPT !.mode = "rx", !.stream = id, !.last = id, !.deco = TRUE, !.failing = FALSE]

_end_rx(o, cause) ==
    [o EXCEPT !.deco = FALSE, !.keyed = FALSE, !.stream = NoStream,
              !.elapsed = @ \ {"cap", "idle", "dead"},
              !.last = IF cause \in {"end", "teardown"} THEN NoStream ELSE @,
              !.mode = IF @ = "rx" THEN "idle" ELSE @]

\* The results of playing one decoded frame: shut by the gate, keyed, refused.
_emit_rx_pcm(o) ==
    IF o.mode # "rx" THEN {o}
    ELSE {o, [o EXCEPT !.keyed = TRUE,
                       !.elapsed = IF o.keyed THEN @ \ {"dead"} ELSE @ \ {"cap", "idle", "dead"}]}
         \cup (IF "refused" \in DstarFaults THEN {_end_rx(o, "tx-refused")} ELSE {})

\* _play_ambe() and the touch() after it: a frame that decoded keeps the over.
_play_ambe(o) ==
    {[p EXCEPT !.failing = FALSE, !.elapsed = @ \ {"idle"}] : p \in _emit_rx_pcm(o)}
    \cup (IF "undecodable" \in DstarFaults THEN {[o EXCEPT !.failing = TRUE]} ELSE {})

\* The end of _flush_and_end_rx() and the latch of the stream that waits.
Ends(o, cause, next) ==
    LET closed == _end_rx(o, cause)
    IN  IF next = NoStream THEN closed ELSE _latch_over(closed, next)

\* _flush_and_end_rx(): the tail of an open over waits for the vocoder.
_flush_and_end_rx(o, cause, next) ==
    IF o.deco /\ o.mode = "rx"
    THEN /\ over' = o /\ pool' = Append(pool, "drain")
         /\ drain' = [at |-> "flush", id |-> next, cause |-> cause]
    ELSE /\ over' = Ends(o, cause, next) /\ drain' = AtLoop /\ UNCHANGED pool

(***************************************************************************)
(* Inbound: the tasks.                                                     *)
(***************************************************************************)

\* A frame of a stream: the oldest goes when the queue is full.
_enqueue_rx(kind, id) ==
    /\ frames < MaxFrames /\ frames' = frames + 1
    /\ queue' = Append(IF Len(queue) < QueueSize THEN queue ELSE Tail(queue),
                       [kind |-> kind, id |-> id])
    /\ UNCHANGED <<over, drain, pool, heard, session, strays, ended, feeds>>

outbound == <<heard, session, strays, frames, feeds>>

Cuts ==
    /\ drain = AtLoop /\ over.keyed
    /\ \E d \in over.elapsed \cap {"cap", "idle", "dead"} : _flush_and_end_rx(over, d, NoStream)
    /\ UNCHANGED <<queue, ended>> /\ UNCHANGED outbound

StreamQuiet ==
    /\ drain = AtLoop /\ queue = << >> /\ over.mode = "rx"
    /\ _flush_and_end_rx(over, "stream-quiet", NoStream)
    /\ UNCHANGED <<queue, ended>> /\ UNCHANGED outbound

TakesHeader ==
    /\ drain = AtLoop /\ queue # << >> /\ Head(queue).kind = "header"
    /\ queue' = Tail(queue)
    /\ LET id == Head(queue).id
       IN  /\ ended' = ended \ {id}
           /\ IF over.mode = "tx" \/ (over.mode = "rx" /\ over.stream = id)
              THEN UNCHANGED <<over, drain, pool>>
              ELSE _flush_and_end_rx(over, "new-stream", id)
    /\ UNCHANGED outbound

TakesData ==
    /\ drain = AtLoop /\ queue # << >> /\ Head(queue).kind # "header"
    /\ queue' = Tail(queue)
    /\ LET msg == Head(queue)
       IN  IF \/ over.mode = "tx"
              \/ over.mode = "idle" /\ (msg.id # over.last \/ over.failing)
           THEN UNCHANGED <<over, drain, pool>>
           ELSE /\ over' = IF over.mode = "idle" THEN _latch_over(over, msg.id) ELSE over
                /\ pool' = Append(pool, "drain")
                /\ drain' = [at |-> "decode", id |-> msg.id, cause |-> msg.kind]
    /\ UNCHANGED ended /\ UNCHANGED outbound

Waits(who) == \E i \in DOMAIN pool : pool[i] = who
Returns(who) == pool # << >> /\ Head(pool) = who

DecodeReturns ==
    /\ Returns("drain") /\ drain.at = "decode"
    /\ \E o \in _play_ambe(over) :
          IF drain.cause = "end"
          THEN IF o.deco /\ o.mode = "rx"
               THEN /\ over' = o /\ pool' = Append(Tail(pool), "drain") /\ UNCHANGED ended
                    /\ drain' = [at |-> "flush", id |-> NoStream, cause |-> "end"]
               ELSE /\ over' = _end_rx(o, "end") /\ drain' = AtLoop /\ pool' = Tail(pool)
                    /\ ended' = ended \cup {drain.id}
          ELSE over' = o /\ drain' = AtLoop /\ pool' = Tail(pool) /\ UNCHANGED ended
    /\ UNCHANGED queue /\ UNCHANGED outbound

FlushReturns ==
    /\ Returns("drain") /\ drain.at = "flush"
    /\ \E o \in {over} \cup _emit_rx_pcm(over) : over' = Ends(o, drain.cause, drain.id)
    /\ ended' = IF drain.cause = "end" THEN ended \cup {over.last} ELSE ended
    /\ drain' = AtLoop /\ pool' = Tail(pool)
    /\ UNCHANGED queue /\ UNCHANGED outbound

\* _rx_watchdog(): never waits for the vocoder.
_rx_watchdog ==
    /\ over.keyed /\ over.elapsed \cap {"cap", "idle", "dead"} # {}
    /\ drain.at = "flush" => "late_cut" \in DstarFaults
    /\ over' = _end_rx(over, "watchdog")
    /\ UNCHANGED <<drain, queue, pool, ended>> /\ UNCHANGED outbound

\* Time: a deadline of the over passes.
Elapses(d) ==
    /\ d \notin over.elapsed
    /\ IF d = "hang" THEN over.mode = "tx" ELSE over.keyed
    /\ over' = [over EXCEPT !.elapsed = @ \cup {d}]
    /\ UNCHANGED <<drain, queue, pool, ended>> /\ UNCHANGED outbound

(***************************************************************************)
(* Outbound.                                                               *)
(***************************************************************************)

inbound == <<drain, queue, ended, frames>>

\* send_operator_audio() and the crossband's frame: the first to open the over
\* owns it; the frame then waits for the vocoder.
Feeds(f) ==
    /\ feeds < MaxFeeds /\ feeds' = feeds + 1
    /\ ~Waits(f)
    /\ \/ /\ over.mode = "idle"                              \* _open_tx()
          /\ over' = [over EXCEPT !.mode = "tx", !.source = f, !.elapsed = @ \ {"hang"}]
          /\ session' = session + 1 /\ heard' = heard \cup {session + 1}
       \/ over.mode = "tx" /\ over.source = f /\ UNCHANGED <<over, session, heard>>
    /\ pool' = Append(pool, f)
    /\ UNCHANGED strays /\ UNCHANGED inbound

\* _feed_rf() after the vocoder: the frame goes out in the session of the day.
EncodeReturns(f) ==
    /\ Returns(f) /\ pool' = Tail(pool)
    /\ strays' = (strays \/ session \notin heard)
    /\ over' = [over EXCEPT !.elapsed = @ \ {"hang"}]
    /\ UNCHANGED <<heard, session, feeds>> /\ UNCHANGED inbound

_end_tx(f) ==
    /\ over.mode = "tx" /\ over.source = f
    /\ over' = [over EXCEPT !.mode = "idle", !.source = "none"]
    /\ heard' = heard \ {session}
    /\ UNCHANGED <<pool, session, strays, feeds>> /\ UNCHANGED inbound

\* The crossband's loop finds silence, a shut gate or a deaf receiver.
_reap_stale_tx ==
    /\ ~Waits("rf") /\ (Waits("op") => "late_cut" \in DstarFaults)
    /\ "hang" \in over.elapsed /\ \E f \in Feeders : _end_tx(f)

\* The operator's socket closes; it awaits its frames one by one.
end_operator_over ==
    /\ ~Waits("op") /\ _end_tx("op")

Next ==
    \/ \E id \in Streams, kind \in {"header", "data", "end"} : _enqueue_rx(kind, id)
    \/ Cuts \/ StreamQuiet \/ TakesHeader \/ TakesData
    \/ DecodeReturns \/ FlushReturns \/ _rx_watchdog
    \/ \E d \in Deadlines : Elapses(d)
    \/ \E f \in Feeders : Feeds(f) \/ EncodeReturns(f)
    \/ _reap_stale_tx \/ end_operator_over

Spec == Init /\ [][Next]_vars

\* The clock runs and so does the watchdog; nothing is assumed of the vocoder.
FairSpec == Spec /\ WF_vars(Elapses("cap")) /\ WF_vars(_rx_watchdog)

TypeOK ==
    /\ over \in [mode : {"idle", "rx", "tx"}, source : {"none"} \cup Feeders,
                 stream : Streams \cup {NoStream}, last : Streams \cup {NoStream},
                 keyed : BOOLEAN, deco : BOOLEAN, failing : BOOLEAN, elapsed : SUBSET Deadlines]
    /\ drain \in [at : {"loop", "decode", "flush"}, id : Streams \cup {NoStream},
                  cause : {"none", "data", "end", "new-stream", "stream-quiet"} \cup Deadlines]
    /\ queue \in Seq([kind : {"header", "data", "end"}, id : Streams]) /\ Len(queue) <= QueueSize
    /\ pool \in Seq({"drain"} \cup Feeders) /\ Len(pool) <= 3
    /\ heard \subseteq 1 .. MaxFeeds /\ session \in 0 .. MaxFeeds /\ strays \in BOOLEAN
    /\ ended \subseteq Streams /\ frames \in 0 .. MaxFrames /\ feeds \in 0 .. MaxFeeds

\* The transmitter is keyed only inside an over of the reflector: whatever cut
\* the over while a frame or its tail was in the vocoder, the frame that comes
\* back late does not key it again.
KeyedInOver == over.keyed => over.mode = "rx" /\ over.stream # NoStream

\* An over to the reflector is the one the latch shows, and when the latch is
\* given up its end frame has gone out: no session is left open at the far end
\* and no frame follows the end of its session.
OutboundOversEnd ==
    /\ heard = IF over.mode = "tx" THEN {session} ELSE {}
    /\ ~strays

\* A stream that was ended by its end frame does not key the transmitter again
\* from the frames that trail it.
FinishedStaysFinished == over.mode = "rx" => over.stream \notin ended

\* A keyed over is cut whatever the vocoder does.
Keyed == over.keyed
KeyedOverIsCut == Keyed ~> ~Keyed
=============================================================================
