----------------------------- MODULE DockFrames -----------------------------
(***************************************************************************)
(* The streaming deframer of the UV-K5 dock (backends/uvk5/frames.py)      *)
(* against what a frame is: preamble AB CD, a length, that many bytes, two *)
(* trailing bytes and the footer DC BA.  The line carries frames the radio *)
(* sends and damages some bytes of them.  A length takes one byte here.    *)
(***************************************************************************)
EXTENDS Naturals, Sequences

CONSTANTS
    MaxPayload,  \* MAX_PAYLOAD_SIZE
    MaxFrames,   \* bound on the frames sent
    MaxDamage    \* bound on the bytes lost, changed or added

DockAssumption == {MaxPayload, MaxFrames, MaxDamage} \subseteq Nat

VARIABLES
    stream,   \* every byte received
    dock,     \* the decoder: stage, size and buffers
    payload,  \* what the last byte completed
    todo,     \* the bytes of the frame being sent that are still to come
    sent,     \* frames sent
    damage    \* bytes damaged so far

vars == <<stream, dock, payload, todo, sent, damage>>

AB == 171
CD == 205
DC == 220
BA == 186
Bytes == {AB, CD, DC, BA, 0, 1}
None == <<>>  \* no frame is empty
Idle == [stage |-> "idle", size |-> 0, buf |-> <<>>, crc |-> <<>>]

\* build_frame: the two trailing bytes are a CRC that a reply does not fill in.
Frame(body) == <<AB, CD, Len(body)>> \o body \o <<0, 0, DC, BA>>
Messages == {<<1>>, <<AB, CD>>}

Init ==
    /\ stream = <<>> /\ dock = Idle /\ payload = None
    /\ todo = <<>> /\ sent = 0 /\ damage = 0

\* One byte through the parser: every stage accepts, collects, or starts over.
At(d, stage) == [d EXCEPT !.stage = stage]
Step(d, b) ==
    CASE d.stage = "idle" -> IF b = AB THEN At(d, "cd") ELSE d
      [] d.stage = "cd" -> At(d, IF b = CD THEN "len" ELSE "idle")
      [] d.stage = "len" ->
            [stage |-> IF b \in 1 .. MaxPayload THEN "data" ELSE "idle",
             size |-> b, buf |-> <<>>, crc |-> <<>>]
      [] d.stage = "data" ->
            [d EXCEPT !.buf = Append(@, b),
                      !.stage = IF Len(d.buf) + 1 >= d.size THEN "crc_lo" ELSE "data"]
      [] d.stage = "crc_lo" -> [At(d, "crc_hi") EXCEPT !.crc = Append(@, b)]
      [] d.stage = "crc_hi" -> [At(d, "dc") EXCEPT !.crc = Append(@, b)]
      [] d.stage = "dc" -> At(d, IF b = DC THEN "ba" ELSE "idle")
      [] d.stage = "ba" -> At(d, "idle")

Feed(b) ==
    /\ stream' = Append(stream, b)
    /\ dock' = Step(dock, b)
    /\ payload' = IF dock.stage = "ba" /\ b = BA THEN dock.buf ELSE None

Sends(body) ==
    /\ todo = <<>> /\ sent < MaxFrames
    /\ todo' = Frame(body) /\ sent' = sent + 1
    /\ payload' = None
    /\ UNCHANGED <<stream, dock, damage>>

Arrives ==
    /\ todo # <<>>
    /\ Feed(Head(todo))
    /\ todo' = Tail(todo)
    /\ UNCHANGED <<sent, damage>>

Damaged == damage < MaxDamage /\ damage' = damage + 1

Loses ==
    /\ todo # <<>> /\ Damaged
    /\ todo' = Tail(todo)
    /\ UNCHANGED <<stream, dock, payload, sent>>

Noise(b) ==
    /\ Damaged
    /\ Feed(b)
    /\ UNCHANGED <<todo, sent>>

Next == (\E body \in Messages : Sends(body)) \/ Arrives \/ Loses \/ \E b \in Bytes : Noise(b)
Spec == Init /\ [][Next]_vars

TypeOK ==
    /\ stream \in Seq(Bytes \cup {2}) /\ payload \in Seq(Bytes \cup {2})
    /\ dock.stage \in {"idle", "cd", "len", "data", "crc_lo", "crc_hi", "dc", "ba"}
    /\ todo \in Seq(Bytes \cup {2}) /\ sent \in 0 .. MaxFrames /\ damage \in 0 .. MaxDamage

Suffix(n) == IF Len(stream) >= n THEN SubSeq(stream, Len(stream) - n + 1, Len(stream)) ELSE <<>>

\* Whatever is lost or added, what comes out is the body of a frame that stands
\* whole in the stream; and an undamaged stream loses none.
OnlyWholeFrames ==
    /\ payload # None =>
          LET end == Suffix(Len(payload) + 7) IN
          /\ Len(payload) \in 1 .. MaxPayload
          /\ end # <<>> /\ SubSeq(end, 1, 3 + Len(payload)) = <<AB, CD, Len(payload)>> \o payload
          /\ SubSeq(end, Len(end) - 1, Len(end)) = <<DC, BA>>
    /\ damage = 0 /\ sent > 0 /\ todo = <<>> => payload # None

\* What the decoder's docstring says: a bad second byte of a preamble is
\* dropped and the stream resyncs at the next AB.  It does not when that very
\* byte is the next AB: the whole frame behind one stray AB is lost.
StrayByteCostsNoFrame ==
    Suffix(8) = Frame(<<1>>) /\ Len(stream) = 9 /\ stream[1] = AB => payload = <<1>>
=============================================================================
