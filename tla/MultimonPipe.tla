---------------------------- MODULE MultimonPipe ----------------------------
(***************************************************************************)
(* MultimonStream (audio/dtmf.py): the loop writes audio into a bounded    *)
(* queue, a writer thread feeds it to a multimon-ng process, a write that  *)
(* finds the process dead starts another, and close() takes all of it down *)
(* from whatever it was doing.                                             *)
(***************************************************************************)
EXTENDS Naturals, Sequences, FiniteSets

CONSTANTS
    QueueSize,   \* WRITE_QUEUE_MAXSIZE
    MaxProcs,    \* bound on the processes started
    MaxWrites,   \* bound on the writes
    PipeFaults   \* {"dies", "stalls"}: the process exits, stops reading

VARIABLES
    procs,   \* the state of each process started: "up", "stalled", "gone"
    proc,    \* _proc: its number, 0 for None
    writer,  \* the writer thread: where it is and the process it writes to
    queue,   \* _write_queue: "pcm" and the close sentinel
    closed,  \* _closed
    closing, \* close() is at its joins
    writes

vars == <<procs, proc, writer, queue, closed, closing, writes>>

Init ==
    /\ procs = << >> /\ proc = 0 /\ writer = [at |-> "none", to |-> 0]
    /\ queue = << >> /\ closed = FALSE /\ closing = "no" /\ writes = 0

Dead(n) == procs[n] = "gone"

\* write(): a dead process is replaced, a dead writer too; the oldest goes.
write ==
    /\ ~closed /\ closing = "no" /\ writes < MaxWrites /\ writes' = writes + 1
    /\ IF proc = 0 \/ (proc # 0 /\ Dead(proc))
       THEN /\ Len(procs) < MaxProcs
            /\ procs' = Append(procs, "up") /\ proc' = Len(procs) + 1
            /\ writer' = IF writer.at \in {"none", "ended"} THEN [at |-> "get", to |-> 0] ELSE writer
       ELSE UNCHANGED <<procs, proc, writer>>
    /\ queue' = Append(IF Len(queue) < QueueSize THEN queue ELSE Tail(queue), "pcm")
    /\ UNCHANGED <<closed, closing>>

\* _pump_stdin(): takes a chunk, looks up the process, writes to it.
Takes ==
    /\ writer.at = "get" /\ queue # << >>
    /\ queue' = Tail(queue)
    /\ writer' = IF Head(queue) = "end" \/ closed THEN [at |-> "ended", to |-> 0]
                 ELSE IF proc = 0 THEN writer ELSE [at |-> "write", to |-> proc]
    /\ UNCHANGED <<procs, proc, closed, closing, writes>>

Writes ==
    /\ writer.at = "write" /\ procs[writer.to] # "stalled"
    /\ proc' = IF Dead(writer.to) /\ proc = writer.to THEN 0 ELSE proc
    /\ writer' = [at |-> IF closed THEN "ended" ELSE "get", to |-> 0]
    /\ UNCHANGED <<procs, queue, closed, closing, writes>>

Dies ==
    /\ "dies" \in PipeFaults
    /\ \E n \in DOMAIN procs : procs[n] # "gone" /\ procs' = [procs EXCEPT ![n] = "gone"]
    /\ UNCHANGED <<proc, writer, queue, closed, closing, writes>>

Stalls ==
    /\ "stalls" \in PipeFaults
    /\ \E n \in DOMAIN procs : procs[n] = "up" /\ procs' = [procs EXCEPT ![n] = "stalled"]
    /\ UNCHANGED <<proc, writer, queue, closed, closing, writes>>

\* close(): the process first, so that a writer stuck in it comes free, then
\* the sentinel for one that waits for audio, then the joins.
close ==
    /\ ~closed /\ closed' = TRUE
    /\ procs' = IF proc = 0 THEN procs ELSE [procs EXCEPT ![proc] = "gone"]   \* terminate()
    /\ proc' = 0 /\ closing' = "join"
    /\ queue' = Append(IF Len(queue) < QueueSize THEN queue ELSE Tail(queue), "end")
    /\ UNCHANGED <<writer, writes>>

\* The writer is joined, or the budget of the close runs out.
Joined ==
    /\ closing = "join" /\ writer.at \in {"none", "ended"} /\ closing' = "done"
    /\ UNCHANGED <<procs, proc, writer, queue, closed, writes>>

Next == write \/ Takes \/ Writes \/ Dies \/ Stalls \/ close \/ Joined

Spec == Init /\ [][Next]_vars

\* The writer thread runs when it can, and close() waits for it.
FairSpec == Spec /\ WF_vars(Takes) /\ WF_vars(Writes) /\ WF_vars(Joined)

TypeOK ==
    /\ procs \in Seq({"up", "stalled", "gone"}) /\ Len(procs) <= MaxProcs
    /\ proc \in 0 .. MaxProcs
    /\ writer \in [at : {"none", "get", "write", "ended"}, to : 0 .. MaxProcs]
    /\ queue \in Seq({"pcm", "end"}) /\ Len(queue) <= QueueSize
    /\ closed \in BOOLEAN /\ closing \in {"no", "join", "done"} /\ writes \in 0 .. MaxWrites

\* One decoder lives at a time and it is the one being fed: a replaced process
\* is dead, and none outlives the close.
OneDecoder == \A n \in DOMAIN procs : ~Dead(n) => n = proc /\ ~closed

\* close() is not held up, by a decoder that does not read or by a queue that
\* is full or empty.
Closing == closed
Closed == closing = "done"
CloseEnds == Closing ~> Closed

-----------------------------------------------------------------------------
(* Why: _proc is one of the processes started. *)
IInv ==
    /\ procs \in Seq({"up", "stalled", "gone"}) /\ proc \in 0 .. Len(procs)
    /\ OneDecoder
=============================================================================
