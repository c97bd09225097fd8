----------------------------- MODULE DsrpStream -----------------------------
(***************************************************************************)
(* An over on the DSRP wire: the radio header with its CRC                 *)
(* (dstar/header.py), the packets (dstar/dsrp.py), the session ids and     *)
(* sequence numbers of the sender and the loss counter of the receiver     *)
(* (dstar/bridge.py).  The wire loses, cuts short and damages packets.     *)
(*                                                                         *)
(* Lengths are scaled down; the checksum is the real one.  Byte 0 stands   *)
(* for the blank that pads a callsign.                                     *)
(***************************************************************************)
EXTENDS Integers, Sequences

CONSTANTS Long,       \* LONG_CALLSIGN_LEN
          Calls,      \* callsigns, modules and destinations in use
          Modules,
          Dests,
          SeqMax,     \* SEQ_MAX
          Ids,        \* session ids are 1..Ids
          MaxOvers, MaxFrames, MaxWire, MaxDamage,
          WireFaults  \* "lost", "cut", "damaged", "swapped"

Magic == 9
Header == 32
Data == 33
EndBit == 64
Blank == 0
Filler == 0
Sync == 5
NullAmbe == 7
Voice == 8

-----------------------------------------------------------------------------
(* CRC-16/X-25: the table of header.py, and bit by bit. *)

Bit(x, i) == (x \div 2^i) % 2

Xor4 == [x, y \in 0..15 |->
    LET d(i) == (Bit(x, i) + Bit(y, i)) % 2
    IN  d(0) + 2 * d(1) + 4 * d(2) + 8 * d(3)]

\* Exclusive or of two 16-bit words, by their nibbles.
Xor(x, y) ==
    LET d(n) == Xor4[(x \div n) % 16, (y \div n) % 16] * n
    IN  d(1) + d(16) + d(256) + d(4096)

Shift(crc) == IF crc % 2 = 1 THEN Xor(crc \div 2, 33800) ELSE crc \div 2

CrcTable == [b \in 0..255 |->
    Shift(Shift(Shift(Shift(Shift(Shift(Shift(Shift(b))))))))]

CrcStep(crc, b) == Xor(crc \div 256, CrcTable[Xor(crc, b) % 256])

Registers(body) ==
    LET register[n \in 0..Len(body)] ==
            IF n = 0 THEN 65535 ELSE CrcStep(register[n - 1], body[n])
    IN  register

Crc(body) == 65535 - Registers(body)[Len(body)]

SerialStep(crc, b) ==
    LET shifted(r, i) == IF (r + Bit(b, i)) % 2 = 1 THEN Xor(r \div 2, 33800)
                         ELSE r \div 2
        after[i \in 0..8] == IF i = 0 THEN crc ELSE shifted(after[i - 1], i - 1)
    IN  after[8]

ChecksumOf(body) == LET sum == Crc(body) IN <<sum % 256, sum \div 256>>

-----------------------------------------------------------------------------
(* The radio header. *)

Padded(text, length) ==
    [i \in 1..length |-> IF i <= Len(text) THEN text[i] ELSE Blank]

\* The module takes the last place, whatever the callsign has there.
FormatCallsign(call, module) ==
    IF module = Blank THEN Padded(call, Long)
    ELSE [Padded(call, Long) EXCEPT ![Long] = module]

\* A single letter is a command and goes last.
FormatUrcall(ur) ==
    IF Len(ur) = 1 THEN [i \in 1..Long |-> IF i = Long THEN ur[1] ELSE Blank]
    ELSE Padded(ur, Long)

BuildHeader(call, module, ur) ==
    LET body == <<Blank>> \o FormatCallsign(call, 6)
                  \o FormatCallsign(call, module) \o FormatUrcall(ur)
                  \o FormatCallsign(call, Blank)
    IN  body \o ChecksumOf(body)

HeaderLength == 4 * Long + 3

\* FF FF asks for no check.
ChecksumOk(header) ==
    LET body == SubSeq(header, 1, HeaderLength - 2)
        sum == SubSeq(header, HeaderLength - 1, HeaderLength)
    IN  sum = <<255, 255>> \/ sum = ChecksumOf(body)

Field(header, slot) == SubSeq(header, 2 + slot * Long, 1 + (slot + 1) * Long)

ParseHeader(header) ==
    [rpt2 |-> Field(header, 0), rpt1 |-> Field(header, 1),
     ur |-> Field(header, 2), my |-> Field(header, 3),
     sound |-> ChecksumOk(header)]

-----------------------------------------------------------------------------
(* The packets. *)

HeaderPacket(header, id) == <<Magic, Header, id \div 256, id % 256, 0>> \o header

DataPacket(dv, id, seq, end) ==
    <<Magic, Data, id \div 256, id % 256, seq + (IF end THEN EndBit ELSE 0), 0>>
      \o dv

DvLength == 2

Unknown == [kind |-> "unknown", id |-> 0, seq |-> 0, end |-> FALSE,
            dv |-> << >>, header |-> << >>]

Parse(packet) ==
    IF Len(packet) < 2 THEN Unknown
    ELSE IF packet[1] # Magic THEN Unknown
    ELSE IF packet[2] = Header /\ Len(packet) >= 5 + HeaderLength
    THEN [Unknown EXCEPT
            !.kind = "header", !.id = packet[3] * 256 + packet[4],
            !.header = SubSeq(packet, 6, 5 + HeaderLength)]
    ELSE IF packet[2] = Data /\ Len(packet) >= 6 + DvLength
    THEN [Unknown EXCEPT
            !.kind = "data", !.id = packet[3] * 256 + packet[4],
            !.seq = packet[5] % EndBit, !.end = packet[5] \div EndBit = 1,
            !.dv = SubSeq(packet, 7, 6 + DvLength)]
    ELSE Unknown

SlowDataForSeq(seq) == IF seq = 0 THEN Sync ELSE Filler

NextSeq(seq) == IF seq >= SeqMax THEN 0 ELSE seq + 1

-----------------------------------------------------------------------------
VARIABLES
    over,     \* the over being sent: its id and sequence, what was asked
    counter,  \* _session_counter
    wire,     \* the packets under way, each with what it was when sent
    inOver,   \* receiver: _enq_stream_id and _enq_prev_seq
    lost,     \* receiver: _rx_seq_lost
    gone,     \* frames that the wire lost since the last one received
    missing,  \* of those, the ones a later frame of the over has shown
    got,      \* the last packet received, what it was when sent, and whether
              \* its header had been damaged
    overs, frames, damage

vars == <<over, counter, wire, inOver, lost, gone, missing, got, overs,
          frames, damage>>

NoOver == [open |-> FALSE, id |-> 0, seq |-> 0]
NoPrev == 0 - 1
Nothing == [sent |-> Unknown, read |-> Unknown, damaged |-> FALSE]

Init ==
    /\ over = NoOver
    /\ counter = 0
    /\ wire = << >>
    /\ inOver = [id |-> 0, prev |-> NoPrev]
    /\ lost = 0
    /\ gone = 0
    /\ missing = 0
    /\ got = Nothing
    /\ overs = 0
    /\ frames = 0
    /\ damage = 0

receiver == <<inOver, lost, gone, missing, got>>

Send(packet) ==
    /\ Len(wire) < MaxWire
    /\ wire' = Append(wire, [bytes |-> packet, sent |-> Parse(packet),
                             damaged |-> FALSE])

\* _open_tx
OpenOver ==
    /\ ~over.open
    /\ overs < MaxOvers
    /\ overs' = overs + 1
    /\ counter' = (counter + 1) % Ids
    /\ over' = [open |-> TRUE, id |-> counter' + 1, seq |-> 0]
    /\ \E call \in Calls, module \in Modules, ur \in Dests :
          Send(HeaderPacket(BuildHeader(call, module, ur), counter' + 1))
    /\ UNCHANGED <<frames, damage>>
    /\ UNCHANGED receiver

\* _feed_rf: the sync pattern opens every superframe.
SendFrame ==
    /\ over.open
    /\ frames < MaxFrames
    /\ frames' = frames + 1
    /\ Send(DataPacket(<<Voice, SlowDataForSeq(over.seq)>>, over.id, over.seq,
                       FALSE))
    /\ over' = [over EXCEPT !.seq = NextSeq(over.seq)]
    /\ UNCHANGED <<counter, overs, damage>>
    /\ UNCHANGED receiver

\* _end_tx: the null frame with the end bit.
EndOver ==
    /\ over.open
    /\ Send(DataPacket(<<NullAmbe, SlowDataForSeq(over.seq)>>, over.id,
                       over.seq, TRUE))
    /\ over' = NoOver
    /\ UNCHANGED <<counter, overs, frames, damage>>
    /\ UNCHANGED receiver

-----------------------------------------------------------------------------
(* The wire. *)

Harm ==
    /\ wire # << >>
    /\ damage < MaxDamage
    /\ damage' = damage + 1
    /\ UNCHANGED <<over, counter, inOver, lost, missing, got, overs, frames>>

IsFrame(msg) == msg.kind = "data" /\ ~msg.end

Lose ==
    /\ "lost" \in WireFaults
    /\ Harm
    /\ wire' = Tail(wire)
    /\ gone' = gone + IF IsFrame(Parse(Head(wire).bytes)) THEN 1 ELSE 0

Cut ==
    /\ "cut" \in WireFaults
    /\ Harm
    /\ wire' = [wire EXCEPT ![1].bytes = SubSeq(@, 1, Len(@) - 1)]
    /\ gone' = gone + IF IsFrame(Parse(Head(wire).bytes)) THEN 1 ELSE 0

\* One byte of a header comes out as another.
Damage ==
    /\ "damaged" \in WireFaults
    /\ Harm
    /\ wire[1].sent.kind = "header"
    /\ ~wire[1].damaged
    /\ Len(wire[1].bytes) = 5 + HeaderLength
    /\ \E i \in 6..5 + HeaderLength, b \in {0, 255} :
          /\ wire[1].bytes[i] # b
          /\ wire' = [wire EXCEPT ![1].bytes[i] = b, ![1].damaged = TRUE]
    /\ UNCHANGED gone

Swap ==
    /\ "swapped" \in WireFaults
    /\ Len(wire) >= 2
    /\ Harm
    /\ wire' = <<wire[2], wire[1]>> \o SubSeq(wire, 3, Len(wire))
    /\ UNCHANGED gone

-----------------------------------------------------------------------------
(* _enqueue_rx: continuity is kept within a stream, ended by its end frame. *)

Gap(msg) == (msg.seq - inOver.prev - 1) % (SeqMax + 1)

\* A frame of the stream that the last one was of, and not its first.
Continues(msg) == msg.id = inOver.id /\ inOver.prev # NoPrev

Receive ==
    /\ wire # << >>
    /\ wire' = Tail(wire)
    /\ LET msg == Parse(Head(wire).bytes) IN
       /\ got' = [sent |-> Head(wire).sent, read |-> msg,
                  damaged |-> Head(wire).damaged]
       /\ IF msg.kind # "data" THEN UNCHANGED <<inOver, lost, gone, missing>>
          ELSE /\ gone' = 0
               /\ inOver' = [id |-> msg.id,
                             prev |-> IF msg.end THEN NoPrev ELSE msg.seq]
               /\ IF Continues(msg) /\ ~msg.end
                  THEN lost' = lost + Gap(msg) /\ missing' = missing + gone
                  ELSE UNCHANGED <<lost, missing>>
    /\ UNCHANGED <<over, counter, overs, frames, damage>>

Next ==
    \/ OpenOver \/ SendFrame \/ EndOver
    \/ Lose \/ Cut \/ Damage \/ Swap \/ Receive

Spec == Init /\ [][Next]_vars

-----------------------------------------------------------------------------
TypeOK ==
    /\ over \in [open : BOOLEAN, id : 0..Ids, seq : 0..SeqMax + 2]
    /\ counter \in 0..Ids
    /\ Len(wire) <= MaxWire
    /\ inOver.id \in 0..65535
    /\ lost \in Nat
    /\ gone \in 0..MaxFrames
    /\ missing \in 0..MaxFrames
    /\ overs \in 0..MaxOvers
    /\ frames \in 0..MaxFrames
    /\ damage \in 0..MaxDamage

\* A packet is read as it was sent or not at all, and a header that one byte
\* of damage has reached is not vouched for by its checksum.
ReadAsSent ==
    /\ got.read # Unknown /\ ~got.damaged => got.read = got.sent
    /\ got.damaged /\ got.read.kind = "header" =>
          ~ParseHeader(got.read.header).sound

\* Between the frames of an over, rx_seq_lost is the number of frames the
\* network did not deliver, while fewer than a superframe go missing in a
\* row: across the wrap, and not across two overs.
LossIsCounted == lost = missing

\* The table gives the same register as the serial definition, byte by byte,
\* for every header that is sent: each is alone on the wire, and whole, at some
\* time.
ChecksumIsX25 ==
    LET body == SubSeq(wire[1].sent.header, 1, HeaderLength - 2)
        register == Registers(body)
    IN  Len(wire) = 1 =>
            (wire[1].sent.kind = "header" /\ ~wire[1].damaged =>
                \A n \in 1..Len(body) :
                    register[n] = SerialStep(register[n - 1], body[n]))

\* The sync pattern is in the frames that open a superframe and in no other.
SyncOpensSuperframes ==
    got.read.kind = "data" => (got.read.dv[2] = Sync <=> got.read.seq = 0)
=============================================================================
