----------------------------- MODULE KissFrames -----------------------------
(***************************************************************************)
(* The streaming KISS deframer (backends/kv4p/frames.py) against what a    *)
(* frame is: the bytes between two FENDs, unescaped.  The stream is any    *)
(* stream of bytes: the banner of a booting board, frames and damage.      *)
(***************************************************************************)
EXTENDS Naturals, Sequences
LOCAL INSTANCE SequencesExt

CONSTANTS
    MaxFrame,   \* KISS_MAX_FRAME_SIZE
    MaxStream   \* bound on the bytes received

KissAssumption == MaxFrame \in Nat /\ MaxStream \in Nat

VARIABLES
    stream,  \* every byte received
    kiss,    \* the decoder: its buffer and three flags
    frame    \* the frame the last byte completed

vars == <<stream, kiss, frame>>

Bytes == {"FEND", "FESC", "TFEND", "TFESC", "x"}
None == <<"none">>
Fresh(in) == [buf |-> <<>>, escape |-> FALSE, drop |-> FALSE, inFrame |-> in]

Init == stream = <<>> /\ kiss = Fresh(FALSE) /\ frame = None

\* Too long a frame is dropped whole.
Append1(k, b) ==
    IF Len(k.buf) >= MaxFrame THEN [k EXCEPT !.drop = TRUE] ELSE [k EXCEPT !.buf = Append(@, b)]

Escaped(k, b) ==
    LET k1 == [k EXCEPT !.escape = FALSE] IN
    CASE b = "TFEND" -> Append1(k1, "FEND")
      [] b = "TFESC" -> Append1(k1, "FESC")
      [] OTHER -> [k1 EXCEPT !.drop = TRUE]

\* A FEND that does not end an escape.
ProcessKeepsEscape(k, b) ==
    IF b = "FEND" THEN [Fresh(TRUE) EXCEPT !.escape = k.escape]
    ELSE IF ~k.inFrame \/ k.drop THEN k
    ELSE IF k.escape THEN Escaped(k, b)
    ELSE IF b = "FESC" THEN [k EXCEPT !.escape = TRUE]
    ELSE Append1(k, b)

Process(k, b) ==
    IF b = "FEND" THEN Fresh(TRUE)
    ELSE IF ~k.inFrame \/ k.drop THEN k
    ELSE IF k.escape THEN Escaped(k, b)
    ELSE IF b = "FESC" THEN [k EXCEPT !.escape = TRUE]
    ELSE Append1(k, b)

Feed(b) ==
    /\ Len(stream) < MaxStream
    /\ stream' = Append(stream, b)
    /\ kiss' = Process(kiss, b)
    /\ frame' = IF b = "FEND" /\ kiss.buf # <<>> /\ ~kiss.drop THEN kiss.buf ELSE None

Next == \E b \in Bytes : Feed(b)
Spec == Init /\ [][Next]_vars

\* What the sender writes for a body.
Escape(body) ==
    FlattenSeq([i \in 1 .. Len(body) |->
        CASE body[i] = "FEND" -> <<"FESC", "TFEND">>
          [] body[i] = "FESC" -> <<"FESC", "TFESC">>
          [] OTHER -> <<body[i]>>])

TypeOK ==
    /\ stream \in Seq(Bytes)
    /\ kiss \in [buf : Seq(Bytes), escape : BOOLEAN, drop : BOOLEAN, inFrame : BOOLEAN]
    /\ frame \in Seq(Bytes) \cup {None}

\* The bytes since the FEND before the last byte, if there was one.
Fends == {i \in 1 .. Len(stream) - 1 : stream[i] = "FEND"}
Segment == LET last == CHOOSE i \in Fends : \A j \in Fends : j <= i
           IN SubSeq(stream, last + 1, Len(stream) - 1)
Bodies == UNION {[1 .. n -> Bytes] : n \in 1 .. MaxFrame}

\* A frame comes out exactly when a FEND ends what is the escaped form of some
\* body of legal length, and it is that body: however the stream was broken
\* before, one FEND is enough to be in step again.  (An escape that the FEND
\* cuts off is forgotten: the body before it stands.)
DecodesWhatWasSent ==
    LET ends == stream # <<>> /\ stream[Len(stream)] = "FEND" /\ Fends # {}
    IN  /\ frame # None =>
              /\ ends /\ frame \in Bodies
              /\ Segment \in {Escape(frame), Append(Escape(frame), "FESC")}
        /\ ends => \A body \in Bodies : Escape(body) = Segment => frame = body
=============================================================================
