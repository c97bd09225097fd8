---------------------------- MODULE DecodeStream ----------------------------
(***************************************************************************)
(* The streaming decode of an over (vocoder/dvdongle.py): frames go into a *)
(* chip that holds some of them back, come out in order when more are fed, *)
(* travel to a FIFO that is drained without waiting, and the rest is       *)
(* flushed out with silence when the over ends.                            *)
(***************************************************************************)
EXTENDS Naturals, Sequences, FiniteSets

CONSTANTS
    Depth,      \* frames the chip holds back
    Latency,    \* silence frames a flush feeds (decode_latency_frames), at least Depth
    MaxFrames,  \* bound on the frames of an over
    MaxOvers,   \* bound on the overs
    Retains,    \* the chip keeps what it holds from one over to the next
    ChipFaults  \* {"starves"}: the chip takes frames and gives none

VARIABLES
    chip,    \* frames in the chip
    line,    \* decoded frames on their way
    fifo,    \* _decode_fifo
    stream,  \* the stream: open, flushing, closed; _fed, _emitted, _wedged
    over,    \* the over being played
    played,  \* its frames given to the radio
    starved  \* the chip gives no more

vars == <<chip, line, fifo, stream, over, played, starved>>

Silent == <<0, 0>>
Frame(i) == <<over, i>>
Real(f) == f # Silent
Closed == [at |-> "closed", fed |-> 0, emitted |-> 0, wedged |-> FALSE]

Init ==
    /\ chip = << >> /\ line = << >> /\ fifo = << >> /\ stream = Closed
    /\ over = 0 /\ played = << >> /\ starved = FALSE

\* The chip after frames fs: a frame comes out for each one past its depth.
Clocked(fs) ==
    LET held == chip \o fs
        out  == IF starved THEN 0 ELSE IF Len(held) > Depth THEN Len(held) - Depth ELSE 0
    IN  /\ chip' = SubSeq(held, out + 1, Len(held))
        /\ line' = line \o SubSeq(held, 1, out)

open_decode_stream ==
    /\ stream.at = "closed" /\ over < MaxOvers
    /\ over' = over + 1 /\ played' = << >>
    /\ stream' = [Closed EXCEPT !.at = "open"] /\ fifo' = << >>
    /\ chip' = IF Retains THEN chip ELSE << >>
    /\ line' = IF Retains THEN line ELSE << >>
    /\ UNCHANGED starved

\* Drains what has arrived.
Drained(fed) ==
    /\ played' = played \o fifo /\ fifo' = << >>
    /\ stream' = [stream EXCEPT !.fed = fed, !.emitted = @ + Len(fifo)]

decode ==
    /\ stream.at = "open" /\ ~stream.wedged /\ stream.fed < MaxFrames
    /\ Clocked(<<Frame(stream.fed + 1)>>) /\ Drained(stream.fed + 1)
    /\ UNCHANGED <<over, starved>>

\* Past the priming window and a whole reply timeout without a frame.
Starves ==
    /\ stream.at = "open" /\ stream.fed > Latency /\ fifo = << >> /\ line = << >> /\ starved
    /\ stream' = [stream EXCEPT !.wedged = TRUE]
    /\ UNCHANGED <<chip, line, fifo, over, played, starved>>

\* flush(): the silence goes in at once, then it waits for the frames it owes.
flush ==
    /\ stream.at = "open" /\ ~stream.wedged
    /\ Clocked([i \in 1 .. Latency |-> Silent])
    /\ stream' = [stream EXCEPT !.at = "flushing"]
    /\ UNCHANGED <<fifo, over, played, starved>>

Collects ==
    /\ stream.at = "flushing" /\ stream.emitted < stream.fed /\ fifo # << >>
    /\ Drained(stream.fed) /\ UNCHANGED <<chip, line, over, starved>>

TimesOut ==
    /\ stream.at = "flushing" /\ stream.emitted < stream.fed /\ fifo = << >> /\ line = << >>
    /\ stream' = [stream EXCEPT !.at = "flushed", !.wedged = TRUE]
    /\ UNCHANGED <<chip, line, fifo, over, played, starved>>

Sweeps ==
    /\ stream.at = "flushing" /\ stream.emitted >= stream.fed
    /\ played' = played \o fifo /\ fifo' = << >>
    /\ stream' = [stream EXCEPT !.at = "flushed"]
    /\ UNCHANGED <<chip, line, over, starved>>

\* close(): also without a flush, by the watchdog or a refusal.
close ==
    /\ stream.at \in {"open", "flushed"} /\ stream' = Closed /\ fifo' = << >>
    /\ UNCHANGED <<chip, line, over, played, starved>>

\* The reader: with no stream open the frame goes to the single reply slot.
_dispatch ==
    /\ line # << >> /\ line' = Tail(line)
    /\ fifo' = IF stream.at = "closed" THEN fifo ELSE Append(fifo, Head(line))
    /\ UNCHANGED <<chip, stream, over, played, starved>>

ChipStops ==
    /\ "starves" \in ChipFaults /\ ~starved /\ starved' = TRUE
    /\ UNCHANGED <<chip, line, fifo, stream, over, played>>

Next ==
    \/ open_decode_stream \/ decode \/ Starves \/ flush \/ Collects \/ TimesOut \/ Sweeps
    \/ close \/ _dispatch \/ ChipStops

Spec == Init /\ [][Next]_vars

TypeOK ==
    /\ chip \in Seq((0 .. MaxOvers) \X (0 .. MaxFrames)) /\ Len(line) <= MaxFrames + 2 * Latency
    /\ stream \in [at : {"closed", "open", "flushing", "flushed"}, fed : 0 .. MaxFrames,
                   emitted : Nat, wedged : BOOLEAN]
    /\ over \in 0 .. MaxOvers /\ starved \in BOOLEAN
    /\ fifo # << >> => stream.at # "closed"

Voice == SelectSeq(played, Real)

\* The radio plays the frames of this over, each once and in their order.
PlaysInOrder == Voice = [i \in 1 .. Len(Voice) |-> Frame(i)]

\* A flush that did not time out has brought out the whole over, the frames
\* the chip held back with it.
TailIsPlayed == stream.at = "flushed" /\ ~stream.wedged => Len(Voice) = stream.fed
=============================================================================
