---------------------------- MODULE DockMessages ----------------------------
(***************************************************************************)
(* The messages of the UV-K5 dock (backends/uvk5/frames.py): which field   *)
(* values a request may be built with, the bytes it is packed into, and    *)
(* what parse_frame makes of the bytes that arrive, from a peer whose      *)
(* firmware may know a longer or a shorter form of the message.            *)
(* A byte has Byte values, a stand-in for 256, so that widths and          *)
(* sentinels can be exercised to their ends.                               *)
(***************************************************************************)
EXTENDS Integers, Sequences, FiniteSets, TLC
LOCAL INSTANCE SequencesExt

CONSTANTS
    Byte,       \* values of a byte
    Chunk,      \* EEPROM_CHUNK
    Tones,      \* CTCSS_TENTHS
    Raster,     \* BROADCAST_FM_RASTER_HZ
    MaxList,    \* bound on the items of a list and the bytes of a block
    Names       \* the messages exchanged

VARIABLES
    sent,   \* the message last packed
    wire,   \* its parameters on the line
    got     \* what the peer parsed

vars == <<sent, wire, got>>

None == [name |-> "none", fields |-> << >>, items |-> << >>]
Raw  == [name |-> "RawMessage", fields |-> << >>, items |-> << >>]

(***************************************************************************)
(* The formats: widths of the fields, in bytes, then those of an item.     *)
(***************************************************************************)

HostFormats ==
    [Hello |-> <<4>>, KeyPress |-> <<1, 1, 4>>, GetScreen |-> <<4>>, Scan |-> <<4, 4, 2, 4>>,
     StockSetModulation |-> <<2, 2>>, JetScan |-> <<4, 4, 4>>, EnterHwMode |-> << >>,
     ExitHwMode |-> << >>, Reset |-> << >>]

EepromFormats ==
    [EepromRead |-> <<2, 1, 1, 4>>, EepromReadReply |-> <<2, 1, 1>>,
     EepromWrite |-> <<2, 1, 1, 4>>, EepromWriteReply |-> <<2>>]

VfoFormats == [SetVfo |-> <<4, 4, 2, 1, 1, 1>>, SetVfoProbe |-> << >>]
VfoReplyFormats == [SetVfoReply |-> <<1, 1, 4, 4, 2>>]
ModulationFormats == [SetModulation |-> <<1>>, SetModulationReply |-> <<1, 1, 1, 1>>]

FmFormats ==
    [SetBroadcastFm |-> <<1, 4, 1>>, ProbeBroadcastFm |-> <<1, 4, 1>>, ClearBroadcastFm |-> <<1, 4, 1>>]
FmReplyFormats == [BroadcastFmReply |-> <<1, 1, 4, 1, 1>>]

ReplyFormats ==
    [RegisterInfo |-> <<2, 2>>, GpioInfo |-> <<1, 1>>, ImHere |-> <<4, 1, 1, 4>>,
     ScanReply |-> <<1, 1, 4>>, JetScanReply |-> <<4, 2>>]

Formats ==
    HostFormats @@ EepromFormats @@ VfoFormats @@ VfoReplyFormats @@ ModulationFormats
    @@ FmFormats @@ FmReplyFormats @@ ReplyFormats @@ [n \in {"WriteRegisters", "ReadRegisters", "WriteGpio", "ReadGpio"} |-> <<2>>]

\* Lists that a count announces, and blocks of bytes that a size field does.
Listed == [WriteRegisters |-> <<2, 2>>, ReadRegisters |-> <<2>>, WriteGpio |-> <<1, 1>>, ReadGpio |-> <<1, 1>>]
Blocks == {"EepromReadReply", "EepromWrite"}

\* Two requests share an opcode with another, and only replies of the
\* broadcast receiver are parsed.
Opcode(name) ==
    CASE name = "SetVfoProbe" -> "SetVfo"
      [] name \in {"ProbeBroadcastFm", "ClearBroadcastFm"} -> "SetBroadcastFm"
      [] OTHER -> name
Parsed(opcode) == opcode # "SetBroadcastFm"

(***************************************************************************)
(* What a message may be built with: the __post_init__ checks.             *)
(***************************************************************************)

EepromValid(m) ==
    CASE m.name = "EepromRead"  -> m.fields[2] \in 1 .. Byte \div 2
      [] m.name = "EepromWrite" -> /\ m.items # << >> /\ Len(m.items) % Chunk = 0
                                   /\ m.fields[1] % Chunk = 0 /\ m.fields[2] = Len(m.items)
      [] OTHER -> TRUE

\* rx, offset, tone, direction, narrow, power
SetVfoValid(f) ==
    /\ f[4] \in 0 .. 2 /\ f[5] \in 0 .. 1 /\ f[6] \in 0 .. 2 /\ f[1] > 0
    /\ f[3] \in {0} \cup Tones
    /\ f[4] # 0 => f[2] > 0

SetModulationValid(f) == f[1] \in {0, 1}

\* action (0 off, 1 on, 2 tune), hz, band
SetBroadcastFmValid(f) == f[1] \in {1, 2} /\ f[2] > 0 /\ f[2] % Raster = 0 /\ f[3] \in 0 .. 3

Valid(m) ==
    /\ EepromValid(m)
    /\ m.name = "SetVfo" => SetVfoValid(m.fields)
    /\ m.name = "SetModulation" => SetModulationValid(m.fields)
    /\ m.name = "SetBroadcastFm" => SetBroadcastFmValid(m.fields)
    /\ m.name = "ProbeBroadcastFm" => m.fields = <<2, 0, 0>>
    /\ m.name = "ClearBroadcastFm" => m.fields = <<0, 0, 0>>

(***************************************************************************)
(* Bytes.                                                                  *)
(***************************************************************************)

\* Little end first.
Bytes(v, w) == [i \in 1 .. w |-> (v \div Byte ^ (i - 1)) % Byte]
Value(bs) == FoldLeft(LAMBDA acc, i : acc + bs[i] * Byte ^ (i - 1), 0, [i \in DOMAIN bs |-> i])

Total(ws) == FoldLeft(LAMBDA a, b : a + b, 0, ws)
PackAll(ws, f) == FlattenSeq([i \in DOMAIN ws |-> Bytes(f[i], ws[i])])
UnpackAll(ws, bs) ==
    [i \in DOMAIN ws |-> LET at == Total(SubSeq(ws, 1, i - 1)) IN Value(SubSeq(bs, at + 1, at + ws[i]))]

pack(m) ==
    PackAll(Formats[m.name], m.fields)
    \o (IF m.name \in DOMAIN Listed THEN FlattenSeq([i \in DOMAIN m.items |-> PackAll(Listed[m.name], m.items[i])])
        ELSE m.items)

\* unpack(): the exact size for a fixed message, as many items as announced for
\* a list, at least the announced bytes for a block, and two for a write's reply.
unpack(name, bs) ==
    LET ws == Formats[name] n == Total(ws) f == UnpackAll(ws, bs) rest == SubSeq(bs, n + 1, Len(bs))
        m == [name |-> name, fields |-> f, items |-> << >>]
    IN  CASE Len(bs) < n -> Raw
          [] Len(bs) >= n /\ name \in DOMAIN Listed ->
                LET u == Total(Listed[name])
                IN  IF Len(rest) # u * f[1] THEN Raw
                    ELSE [m EXCEPT !.items = [i \in 1 .. f[1] |->
                              UnpackAll(Listed[name], SubSeq(rest, u * (i - 1) + 1, u * i))]]
          [] Len(bs) >= n /\ name \in Blocks ->
                LET b == [m EXCEPT !.items = SubSeq(rest, 1, f[2])]
                IN  IF Len(rest) < f[2] \/ ~Valid([b EXCEPT !.fields[2] = IF name = "EepromWrite" THEN Len(b.items) ELSE @])
                    THEN Raw ELSE b
          [] OTHER -> IF (Len(bs) # n /\ name # "EepromWriteReply") \/ ~Valid(m) THEN Raw ELSE m

parse_frame(opcode, bs) == IF Parsed(opcode) THEN unpack(opcode, bs) ELSE Raw

(***************************************************************************)
(* A message at a time.                                                    *)
(***************************************************************************)

Fields(name) ==
    LET ws == Formats[name]
    IN  {f \in [DOMAIN ws -> {0, 1, 2, 3, Byte - 1, Byte ^ 2 - 1, Byte ^ 4 - 1}] :
            \A i \in DOMAIN ws : f[i] < Byte ^ ws[i] /\ (f[i] > 3 => f[i] = Byte ^ ws[i] - 1)}

Items(name) ==
    IF name \in DOMAIN Listed THEN BoundedSeq({[i \in DOMAIN Listed[name] |-> v] : v \in {0, 1, Byte - 1}}, MaxList)
    ELSE IF name \in Blocks THEN BoundedSeq({0, Byte - 1}, MaxList) ELSE {<< >>}

Init == sent = None /\ wire = << >> /\ got = None

\* A count is that of the list; a block read may carry more than its size says.
Sends(name) ==
    /\ sent = None
    /\ \E f \in Fields(name), items \in Items(name) :
          LET m == [name |-> name, fields |-> f, items |-> items]
          IN  /\ name \in DOMAIN Listed => f = <<Len(items)>>
              /\ name = "EepromReadReply" => f[2] <= Len(items)
              /\ Valid(m)
              /\ sent' = m /\ wire' = pack(m)
    /\ UNCHANGED got

\* The bytes arrive as sent, or as a firmware with another form sends them.
Arrives ==
    /\ sent # None /\ got = None
    /\ \E bs \in {wire, Append(wire, 0), Append(wire, Byte - 1)}
                 \cup (IF wire = << >> THEN {} ELSE {Front(wire)}) :
          wire' = bs /\ got' = parse_frame(Opcode(sent.name), bs)
    /\ UNCHANGED sent

Done == got # None /\ sent' = None /\ wire' = << >> /\ got' = None

Next == (\E name \in Names : Sends(name)) \/ Arrives \/ Done

Spec == Init /\ [][Next]_vars

TypeOK ==
    /\ sent.name \in Names \cup {"none"} /\ wire \in Seq(0 .. Byte - 1)
    /\ got.name \in {"none", "RawMessage", sent.name}

Body(m) == IF m.name = "EepromReadReply" THEN SubSeq(m.items, 1, m.fields[2]) ELSE m.items

\* A message is read as it was sent or not at all, whatever was added to it or
\* cut from it on the way: a longer reply of a newer firmware is not read with
\* its fields shifted, and a shorter one not with fields made up.
ReadAsSent ==
    /\ got.name \notin {"none", "RawMessage"} =>
          got.fields = sent.fields /\ got.items = Body(sent)
    /\ got # None /\ wire = pack(sent) =>
          (got = Raw <=> sent.name = "SetVfoProbe" \/ Opcode(sent.name) = "SetBroadcastFm")

\* A request that only asks, or that turns the broadcast receiver off, is never
\* the bytes of one that tunes: the radio must refuse the one, obey the other.
AskingIsNotTuning ==
    /\ sent.name = "SetVfoProbe" => unpack("SetVfo", wire) = Raw
    /\ sent.name = "SetBroadcastFm" =>
          wire \notin {PackAll(Formats["SetBroadcastFm"], f) : f \in {<<2, 0, 0>>, <<0, 0, 0>>}}
=============================================================================
