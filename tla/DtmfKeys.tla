------------------------------ MODULE DtmfKeys ------------------------------
(***************************************************************************)
(* DTMF keys into entries (audio/dtmf.py).  An operator presses, holds and *)
(* releases keys, block by block; the detector in use is the Goertzel one  *)
(* with its onset and release rule, or the windowed one that collapses the *)
(* repeats of a held key; DtmfFramer makes entries of the keys reported.   *)
(***************************************************************************)
EXTENDS Naturals, Sequences, TLC

CONSTANTS
    Keys,        \* digits, "#" and "*"
    Silence,     \* no tone
    Mode,        \* "native" or "buffered"
    Onset, Release, \* NATIVE_ONSET_BLOCKS, NATIVE_RELEASE_BLOCKS (1 and 1)
    Window,      \* blocks of a decode window
    Timeout,     \* blocks after which a partial entry is dropped
    Gap,         \* silence the operator leaves before the same key again
    MaxKeys, MaxBlocks \* bounds on the presses and on time

VARIABLES
    air,      \* the tone of this block
    quiet,    \* blocks of silence since the last tone
    keyed,    \* the presses: key and block
    clock,
    det,      \* the Goertzel detector: _held, _gap_run, _candidate, _candidate_run
    win,      \* the window's blocks and _last_digit
    reported, \* the keys the detector gave
    framer,   \* _buffer and _last_at
    entries   \* the entries submitted

vars == <<air, quiet, keyed, clock, det, win, reported, framer, entries>>

Init ==
    /\ air = Silence /\ quiet = Gap /\ keyed = << >> /\ clock = 0
    /\ det = [held |-> Silence, gap |-> 0, cand |-> Silence, run |-> 0]
    /\ win = [buf |-> << >>, last |-> Silence]
    /\ reported = << >> /\ framer = [buffer |-> << >>, at |-> 0] /\ entries = << >>

\* GoertzelStream._advance(): the detector after a block and the keys it gives.
_advance(d, tone) ==
    IF tone # Silence /\ tone = d.held THEN [det |-> [d EXCEPT !.gap = 0], keys |-> << >>]
    ELSE LET held == IF d.gap + 1 >= Release THEN Silence ELSE d.held
             run  == IF tone = Silence THEN 0 ELSE IF tone = d.cand THEN d.run + 1 ELSE 1
         IN  IF run >= Onset /\ held = Silence
             THEN [det |-> [held |-> tone, gap |-> 0, cand |-> Silence, run |-> 0], keys |-> <<tone>>]
             ELSE [det |-> [held |-> held, gap |-> IF d.gap < Release THEN d.gap + 1 ELSE d.gap,
                            cand |-> tone, run |-> run], keys |-> << >>]

\* The windowed decoder names every tone block; a key equal to the last one is
\* still held, and only a silent window says it was released.
Collapse[ds \in Seq(Keys), last \in Keys \cup {Silence}] ==
    IF ds = << >> THEN << >>
    ELSE IF Head(ds) = last THEN Collapse[Tail(ds), last]
    ELSE <<Head(ds)>> \o Collapse[Tail(ds), Head(ds)]

Heard(tone) == tone # Silence

_decode_window(w) ==
    LET digits == SelectSeq(w.buf, Heard)
    IN  [win  |-> [buf |-> << >>,
                   last |-> IF digits = << >> THEN Silence ELSE digits[Len(digits)]],
         keys |-> Collapse[digits, w.last]]

pump(tone) ==
    IF Mode = "native"
    THEN LET a == _advance(det, tone) IN [det |-> a.det, win |-> win, keys |-> a.keys]
    ELSE LET w == [win EXCEPT !.buf = Append(@, tone)]
         IN  IF Len(w.buf) < Window THEN [det |-> det, win |-> w, keys |-> << >>]
             ELSE [det |-> det] @@ _decode_window(w)

Framers == [buffer : Seq(Keys), at : Nat]

\* DtmfFramer.feed() of the keys of one block, in order.
feed[f \in Framers, es \in Seq(Seq(Keys)), ks \in Seq(Keys), now \in Nat] ==
    IF ks = << >> THEN <<f, es>>
    ELSE LET key  == Head(ks)
             left == IF now - f.at >= Timeout THEN << >> ELSE f.buffer      \* _expire()
             next == IF key \in {"#", "*"} THEN << >> ELSE Append(left, key)
             out  == IF key = "#" /\ left # << >> THEN Append(es, left) ELSE es
         IN  feed[[buffer |-> next, at |-> now], out, Tail(ks), now]

Block(tone) ==
    LET r == pump(tone) f == feed[framer, entries, r.keys, clock + 1]
    IN  /\ clock < MaxBlocks /\ clock' = clock + 1
        /\ air' = tone
        /\ quiet' = IF tone # Silence THEN 0 ELSE IF quiet < Gap THEN quiet + 1 ELSE quiet
        /\ det' = r.det /\ win' = r.win /\ reported' = reported \o r.keys
        /\ framer' = f[1] /\ entries' = f[2]

Presses(key) ==
    /\ Len(keyed) < MaxKeys
    /\ keyed # << >> /\ keyed[Len(keyed)].key = key => air = Silence /\ quiet >= Gap
    /\ keyed' = Append(keyed, [key |-> key, at |-> clock + 1])
    /\ Block(key)

Holds == air # Silence /\ Block(air) /\ UNCHANGED keyed
Releases == Block(Silence) /\ UNCHANGED keyed

Next == (\E key \in Keys : Presses(key)) \/ Holds \/ Releases

Spec == Init /\ [][Next]_vars

TypeOK ==
    /\ air \in Keys \cup {Silence} /\ quiet \in 0 .. Gap /\ clock \in 0 .. MaxBlocks
    /\ keyed \in Seq([key : Keys, at : 1 .. MaxBlocks]) /\ Len(keyed) <= MaxKeys
    /\ det \in [held : Keys \cup {Silence}, gap : 0 .. Release, cand : Keys \cup {Silence}, run : 0 .. Onset]
    /\ win.buf \in Seq(Keys \cup {Silence}) /\ win.last \in Keys \cup {Silence}
    /\ reported \in Seq(Keys) /\ framer.buffer \in Seq(Keys) /\ entries \in Seq(Seq(Keys))

\* Each press is reported once, however long it is held and wherever a block
\* or a window begins, and a key pressed twice is reported twice.
KeysOnce ==
    win.buf = << >> => reported = [i \in DOMAIN keyed |-> keyed[i].key]

\* An entry is what was keyed, from one key to the "#", without a pause that
\* outlasts the timeout: no digit of an abandoned code is in it.
EntriesAreOneCode ==
    \A e \in DOMAIN entries :
        \E i \in DOMAIN keyed :
            LET n == Len(entries[e]) slack == IF Mode = "native" THEN 0 ELSE Window
            IN  /\ i + n \in DOMAIN keyed /\ keyed[i + n].key = "#"
                /\ \A j \in 1 .. n : /\ keyed[i + j - 1].key = entries[e][j]
                                     /\ keyed[i + j].at - keyed[i + j - 1].at < Timeout + slack
=============================================================================
