------------------------------ MODULE DvDongle ------------------------------
(***************************************************************************)
(* The transport of the DV Dongle (vocoder/dvdongle.py): one frame is      *)
(* exchanged at a time under the io lock, a dongle that does not answer is *)
(* recovered by opening its port anew with a new reader, a stream that is  *)
(* opened after a reader died recovers it too, and close() may come while  *)
(* any of that goes on.                                                    *)
(***************************************************************************)
EXTENDS Naturals, FiniteSets

CONSTANTS
    Attempts,    \* _RECOVER_HANDSHAKE_ATTEMPTS
    MaxAsked,    \* bound on the frames asked for
    MaxGen,      \* bound on the readers started
    DongleFaults \* {"sleeps", "late", "port_taken", "reader_dies"}

VARIABLES
    port,    \* the port of each reader generation: "open" or "closed"
    gen,     \* _reader_gen, and the port it reads
    stopped, \* generations whose stop event is set
    error,   \* _reader_error
    closed,  \* _closed
    lock,    \* who holds _io_lock
    pc,      \* where the vocoder thread, the loop and the closer are
    slot,    \* the reply slots: the frame they answer, 0 for empty
    line,    \* the replies on their way: generation and frame
    asked,   \* frames asked for
    wrong,   \* an exchange returned the reply of another frame
    awake    \* the chip answers

vars == <<port, gen, stopped, error, closed, lock, pc, slot, line, asked, wrong, awake>>

Callers == {"pool", "loop"}
At(who, at) == pc[who].at = at
Goes(who, at) == pc' = [pc EXCEPT ![who].at = at]
Rests(who) == pc' = [pc EXCEPT ![who] = [at |-> "idle", tries |-> 0, retry |-> FALSE]]

Init ==
    /\ port = [g \in 1 .. MaxGen |-> IF g = 1 THEN "open" ELSE "closed"]
    /\ gen = 1 /\ stopped = {} /\ error = FALSE /\ closed = FALSE /\ lock = "none"
    /\ pc = [w \in Callers \cup {"closer"} |-> [at |-> "idle", tries |-> 0, retry |-> FALSE]]
    /\ slot = 0 /\ line = {} /\ asked = 0 /\ wrong = FALSE /\ awake = TRUE

Reads(g) == port[g] = "open" /\ g \notin stopped

(***************************************************************************)
(* An exchange.                                                            *)
(***************************************************************************)

\* _exchange_once(): under the lock the slots are emptied and the frame goes
\* out; a dead reader or a shut port refuses it.
Asks ==
    /\ At("pool", "idle") /\ lock = "none" /\ asked < MaxAsked
    /\ IF error \/ port[gen] = "closed" THEN UNCHANGED <<lock, pc, slot, line, asked>>
       ELSE /\ lock' = "pool" /\ slot' = 0 /\ asked' = asked + 1
            /\ line' = IF awake THEN line \cup {[gen |-> gen, frame |-> asked + 1]} ELSE line
            /\ pc' = [pc EXCEPT !["pool"] = [at |-> "wait", tries |-> 0, retry |-> FALSE]]
    /\ UNCHANGED <<port, gen, stopped, error, closed, wrong, awake>>

\* The reader of a generation hands a reply over, unless another took its place.
_dispatch ==
    /\ \E r \in line :
          /\ \A q \in line : q.gen = r.gen => q.frame >= r.frame
          /\ line' = line \ {r}
          /\ slot' = IF r.gen = gen /\ Reads(r.gen) THEN r.frame ELSE slot
    /\ UNCHANGED <<port, gen, stopped, error, closed, lock, pc, asked, wrong, awake>>

Answered ==
    /\ At("pool", "wait") /\ slot # 0
    /\ wrong' = (wrong \/ slot # asked)
    /\ lock' = "none" /\ Rests("pool")
    /\ UNCHANGED <<port, gen, stopped, error, closed, slot, line, asked, awake>>

\* The reply deadline: once the dongle is recovered and the frame asked again,
\* the second time the caller is told.
TimesOut ==
    /\ At("pool", "wait") /\ slot = 0
    /\ "late" \in DongleFaults \/ (\A r \in line : r.gen # gen \/ ~Reads(gen))
    /\ lock' = "none"
    /\ IF pc["pool"].retry \/ error THEN Rests("pool") ELSE Goes("pool", "recover")
    /\ UNCHANGED <<port, gen, stopped, error, closed, slot, line, asked, wrong, awake>>

\* open_decode_stream(), on the loop: a dead reader is recovered first.
open_decode_stream ==
    /\ At("loop", "idle") /\ error /\ ~closed /\ gen < MaxGen /\ Goes("loop", "recover")
    /\ UNCHANGED <<port, gen, stopped, error, closed, lock, slot, line, asked, wrong, awake>>

(***************************************************************************)
(* _recover(), under the lock.                                             *)
(***************************************************************************)

Gives(w) == lock' = "none" /\ Rests(w)

\* The old reader is stopped and its port closed.
Recovers(w) ==
    /\ At(w, "recover") /\ lock = "none"
    /\ IF closed THEN Rests(w) /\ UNCHANGED <<lock, stopped, port>>
       ELSE /\ lock' = w /\ stopped' = stopped \cup {gen}
            /\ port' = [port EXCEPT ![gen] = "closed"]
            /\ Goes(w, "attempt")
    /\ UNCHANGED <<gen, error, closed, slot, line, asked, wrong, awake>>

\* An attempt: a fresh state, then the port, which may be taken.
Attempt(w) ==
    /\ At(w, "attempt")
    /\ IF closed \/ pc[w].tries = Attempts \/ gen = MaxGen
       THEN Gives(w) /\ UNCHANGED <<port, gen, error, slot, awake>>
       ELSE /\ error' = FALSE /\ slot' = 0
            /\ \/ /\ "port_taken" \in DongleFaults
                  /\ pc' = [pc EXCEPT ![w].tries = @ + 1] /\ UNCHANGED <<port, gen, awake>>
               \/ /\ port' = [port EXCEPT ![gen + 1] = "open"] /\ gen' = gen + 1
                  /\ Goes(w, "shake") /\ awake' = TRUE
            /\ UNCHANGED lock
    /\ UNCHANGED <<stopped, closed, line, asked, wrong>>

\* The handshake: heard by the new reader, or not.
Shakes(w) ==
    /\ At(w, "shake")
    /\ \/ /\ Reads(gen) /\ awake
          /\ IF w = "pool" /\ asked < MaxAsked
             THEN /\ asked' = asked + 1 /\ slot' = 0 /\ UNCHANGED <<lock>>
                  /\ line' = line \cup {[gen |-> gen, frame |-> asked + 1]}
                  /\ pc' = [pc EXCEPT !["pool"] = [at |-> "wait", tries |-> 0, retry |-> TRUE]]
             ELSE Gives(w) /\ UNCHANGED <<asked, slot, line>>
          /\ UNCHANGED <<port, stopped>>
       \/ /\ ~Reads(gen) \/ ~awake
          /\ stopped' = stopped \cup {gen} /\ port' = [port EXCEPT ![gen] = "closed"]
          /\ pc' = [pc EXCEPT ![w].at = "attempt", ![w].tries = @ + 1]
          /\ UNCHANGED <<lock, asked, slot, line>>
    /\ UNCHANGED <<gen, error, closed, wrong, awake>>

(***************************************************************************)
(* close(), and what the dongle does.                                      *)
(***************************************************************************)

close ==
    /\ At("closer", "idle") /\ ~closed /\ closed' = TRUE /\ Goes("closer", "stop")
    /\ UNCHANGED <<port, gen, stopped, error, lock, slot, line, asked, wrong, awake>>

\* The lock was free and the session was stopped, or the wait for it ended:
\* the reader is stopped and the port closed under whoever uses them.
Closes ==
    /\ At("closer", "stop")
    /\ stopped' = stopped \cup {gen} /\ port' = [port EXCEPT ![gen] = "closed"]
    /\ Goes("closer", "done")
    /\ UNCHANGED <<gen, error, closed, lock, slot, line, asked, wrong, awake>>

Sleeps ==
    /\ "sleeps" \in DongleFaults /\ awake /\ awake' = FALSE
    /\ UNCHANGED <<port, gen, stopped, error, closed, lock, pc, slot, line, asked, wrong>>

\* A read fails; only the reader of the day may say so.
_fail ==
    /\ "reader_dies" \in DongleFaults /\ Reads(gen) /\ ~error
    /\ error' = TRUE /\ stopped' = stopped \cup {gen}
    /\ UNCHANGED <<port, gen, closed, lock, pc, slot, line, asked, wrong, awake>>

Next ==
    \/ Asks \/ _dispatch \/ Answered \/ TimesOut \/ open_decode_stream
    \/ \E w \in Callers : Recovers(w) \/ Attempt(w) \/ Shakes(w)
    \/ close \/ Closes \/ Sleeps \/ _fail

Spec == Init /\ [][Next]_vars
FairSpec ==
    /\ Spec /\ WF_vars(Answered) /\ WF_vars(TimesOut) /\ WF_vars(Closes) /\ WF_vars(_dispatch)
    /\ \A w \in Callers : WF_vars(Recovers(w)) /\ WF_vars(Attempt(w)) /\ WF_vars(Shakes(w))

Threads == Callers \cup {"closer"}
Places == {"idle", "wait", "recover", "attempt", "shake", "stop", "done"}
Positions == [Threads -> [at : Places, tries : Nat, retry : BOOLEAN]]

TypeOK ==
    /\ port \in [1 .. MaxGen -> {"open", "closed"}] /\ gen \in 1 .. MaxGen
    /\ stopped \subseteq 1 .. MaxGen /\ {error, closed, wrong, awake} \subseteq BOOLEAN
    /\ lock \in {"none"} \cup Callers
    /\ pc \in Positions /\ \A w \in Callers : pc[w].tries \in 0 .. Attempts
    /\ slot \in 0 .. MaxAsked /\ line \subseteq [gen : 1 .. MaxGen, frame : 1 .. MaxAsked]
    /\ asked \in 0 .. MaxAsked

\* One port is open at most, the one the reader of the day reads: the dongle is
\* shared with another instance, which could not open it otherwise.
OnePort == \A g \in 1 .. MaxGen : port[g] = "open" => g = gen

\* A closed dongle is free for the other instance once the recovery that was
\* going on has ended.
ClosedIsFree ==
    closed /\ pc["closer"].at = "done" /\ pc["pool"].at = "idle" /\ pc["loop"].at = "idle" =>
        \A g \in 1 .. MaxGen : port[g] = "closed"

\* An exchange returns the reply to its own frame: a synchronous exchange
\* consumes each reply before the next one.
AnswersItsFrame == ~wrong

\* No caller is held for ever by a dongle that sleeps, dies or is closed.
InCall(w) == pc[w].at # "idle"
CallersComeBack == \A w \in Callers : InCall(w) ~> ~InCall(w)

\* The vocoder never holds the event loop: what may wait runs on its thread.
LoopNeverWaits == pc["loop"].at \notin {"attempt", "shake"}

-----------------------------------------------------------------------------
(* Why: who works on the port holds the lock, has closed the port of the    *)
(* day before it opens the next, and opens none once the vocoder is closed; *)
(* and a reply that the reader of the day can still hand over is to the     *)
(* frame that is waited for, while no reply comes after its deadline.       *)
Typed ==
    /\ port \in [1 .. MaxGen -> {"open", "closed"}] /\ gen \in 1 .. MaxGen
    /\ pc \in Positions /\ asked \in Nat /\ line \subseteq [gen : 1 .. gen, frame : Nat]

Holds(w) == pc[w].at \in {"wait", "attempt", "shake"} => lock = w
PortsApart ==
    /\ OnePort /\ \A w \in Callers : Holds(w) /\ (At(w, "attempt") => port[gen] = "closed")
    /\ At("closer", "stop") => closed
    /\ At("closer", "done") => closed /\ port[gen] = "closed"

RepliesInStep ==
    /\ ~At("loop", "wait")
    /\ At("pool", "wait") => slot \in {0, asked}
    /\ \A r \in line : r.gen = gen /\ Reads(gen) =>
          At("pool", "wait") /\ r.frame = asked /\ slot = 0

IInv == Typed /\ PortsApart /\ RepliesInStep /\ ~wrong
=============================================================================
