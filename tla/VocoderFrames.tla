---------------------------- MODULE VocoderFrames ----------------------------
(***************************************************************************)
(* The packets of the DV Dongle (vocoder/frames.py): a header word holds   *)
(* type and length, the deframer takes the bytes in any chunks and, when a *)
(* length cannot be one, drops a byte and looks again.  A byte is a digit  *)
(* base Byte, the length takes the low half of the upper byte.             *)
(***************************************************************************)
EXTENDS Naturals, Sequences
LOCAL INSTANCE SequencesExt

CONSTANTS
    Byte,       \* values of a byte, even
    Voice,      \* payload length of an AMBE packet
    Audio,      \* payload length of an audio packet, the longest
    MaxPackets, \* bound on the packets sent
    Glitches    \* bytes the line may lose

VARIABLES
    sent,   \* packets sent
    line,   \* bytes on their way
    buf,    \* the deframer's buffer
    got,    \* packets it gave
    lost    \* bytes lost

vars == <<sent, line, buf, got, lost>>

HeaderLen == 2
MaxPacketLen == HeaderLen + Audio
LengthMask == Byte * (Byte \div 2)
Types == {"control", "audio", "ambe"}
TypeBits(t) == IF t = "control" THEN 0 ELSE 1

\* Two type values are enough to tell a control response from a voice packet.
_build_packet(bits, payload) ==
    LET word == bits * LengthMask + HeaderLen + Len(payload)
    IN  <<word % Byte, word \div Byte>> \o payload

\* classify(): a voice packet has the length of its kind, a control response
\* is one of the known replies, here the one without a payload.
classify(p) ==
    CASE p.bits = 1 /\ Len(p.payload) = Voice -> "ambe"
      [] p.bits = 1 /\ Len(p.payload) = Audio -> "audio"
      [] p.bits = 0 /\ p.payload = << >> -> "nop"
      [] OTHER -> "unknown"

Init == sent = << >> /\ line = << >> /\ buf = << >> /\ got = << >> /\ lost = 0

Payloads == {<<>>} \cup UNION {[1 .. n -> {0, Byte - 1}] : n \in {Voice, Audio}}

Sends ==
    /\ Len(sent) < MaxPackets
    /\ \E p \in Payloads :
          LET packet == [bits |-> IF p = << >> THEN 0 ELSE 1, payload |-> p] IN
          /\ sent' = Append(sent, packet)
          /\ line' = line \o _build_packet(packet.bits, p)
    /\ UNCHANGED <<buf, got, lost>>

\* One turn of the loop of feed(): a byte is dropped, a packet taken, or more is needed.
Turn(d) ==
    IF Len(d.buf) < HeaderLen THEN d ELSE
    LET word == d.buf[1] + Byte * d.buf[2]
        length == word % LengthMask
    IN  IF length < HeaderLen \/ length > MaxPacketLen THEN [d EXCEPT !.buf = Tail(@)]
        ELSE IF Len(d.buf) < length THEN d
        ELSE [buf |-> SubSeq(d.buf, length + 1, Len(d.buf)),
              out |-> Append(d.out, [bits |-> word \div LengthMask,
                                     payload |-> SubSeq(d.buf, HeaderLen + 1, length)])]

feed(n) ==
    LET all == buf \o SubSeq(line, 1, n)
        end == FoldLeft(LAMBDA d, i : Turn(d), [buf |-> all, out |-> << >>], [i \in 1 .. Len(all) |-> i])
    IN  /\ buf' = end.buf /\ got' = got \o end.out
        /\ line' = SubSeq(line, n + 1, Len(line)) /\ UNCHANGED <<sent, lost>>

Loses ==
    /\ lost < Glitches /\ line # << >> /\ lost' = lost + 1
    /\ \E i \in DOMAIN line : line' = RemoveAt(line, i)
    /\ UNCHANGED <<sent, buf, got>>

Next == Sends \/ (\E n \in 1 .. Len(line) : feed(n)) \/ Loses
Spec == Init /\ [][Next]_vars

TypeOK ==
    /\ line \in Seq(0 .. Byte - 1) /\ buf \in Seq(0 .. Byte - 1) /\ lost \in 0 .. Glitches
    /\ \A i \in DOMAIN got : got[i].bits \in 0 .. 1

\* However the stream is cut into chunks, a line that loses nothing gives the
\* packets that were sent, each one when its last byte has come.
GivesWhatWasSent ==
    lost = 0 => /\ IsPrefix(got, sent) /\ (line = << >> => got = sent)
                /\ \A i \in DOMAIN got : classify(got[i]) # "unknown"

\* What is kept back is never a whole packet: a glitch cannot make the reader
\* gather bytes without end.
NeverWedges == Len(buf) < MaxPacketLen
=============================================================================
