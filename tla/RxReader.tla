------------------------------ MODULE RxReader ------------------------------
(***************************************************************************)
(* The one capture reader of the station and the demand for it.            *)
(*                                                                         *)
(* Listeners (browsers on /audio/rx, the controller, the bridges) count a  *)
(* demand; the first starts the RxPump, the last stops it (_acquire_rx and *)
(* _release_rx of api/app.py, rx/pump.py).  A pump's task reads the radio  *)
(* on a worker thread, and cancelling the task does not call the thread    *)
(* back.  POST /radio/select tears pump and radio down and builds others   *)
(* (RadioHolder.rebuild) while listeners come and go.                      *)
(*                                                                         *)
(* Steps are the code between two awaits of the event loop, and the worker *)
(* threads' returns.  A pump and the radio it was built on share their     *)
(* name; so do a run of the pump's task and its worker thread, which is    *)
(* named by its pump and a number.                                         *)
(***************************************************************************)
EXTENDS Naturals, FiniteSetTheorems, TLAPS, TLC

CONSTANTS Listeners,
          Selector,    \* the request that swaps the backend
          Pumps,       \* bound on pumps (and radios) that exist at once
          Slots,       \* bound on the tasks and threads of a pump
          NoRun,
          Faults       \* what may go wrong

AllFaults == {"read_wedged", "read_raises", "close_late", "build_raises"}

Runs == Pumps \X Slots

ASSUME NamesAssumption == Selector \notin Listeners /\ NoRun \notin Runs
ASSUME ListenersAssumption == IsFiniteSet(Listeners)
ASSUME FaultsAssumption == Faults \subseteq AllFaults
ASSUME PumpsAssumption == Pumps # {}

Stoppers == Listeners \cup {Selector}

VARIABLES
    demand,     \* app.state.rx_demand
    route,      \* the pump the routes reach: the closure's rx_pump
    radio,      \* the holder's radio
    built,      \* holder.rx_pump is not None
    closed,     \* the radios whose close() has begun
    task,       \* RxPump._task
    reader,     \* RxPump._reader is not None
    inflight,   \* RxPump._inflight: the thread of the last tracked read
    run,        \* where each task is
    driver,     \* the threads inside radio.receive()
    receiving,  \* RadioArbiter._receiving
    pc,         \* where each listener and the selector are
    awaits      \* the task or read that a caller of stop() awaits

vars == <<demand, route, radio, built, closed, task, reader, inflight, run,
          driver, receiving, pc, awaits>>
holderVars == <<radio, built, closed>>

Live == {"new", "ready", "reading"}
Ended == {"none", "failed"}

Home(r) == r[1]

Init ==
    /\ demand = 0
    /\ \E p \in Pumps : route = p /\ radio = p
    /\ built = TRUE
    /\ closed = {}
    /\ task = [p \in Pumps |-> NoRun]
    /\ reader = [p \in Pumps |-> FALSE]
    /\ inflight = [p \in Pumps |-> NoRun]
    /\ run = [r \in Runs |-> "none"]
    /\ driver = {}
    /\ receiving = FALSE
    /\ pc = [s \in Stoppers |-> "off"]
    /\ awaits = [s \in Stoppers |-> NoRun]

Goto(s, l) == pc' = [pc EXCEPT ![s] = l]

-----------------------------------------------------------------------------
(* RxPump.                                                                 *)

\* Names that nothing refers to any more, and that may be used again.
FreeRun(r) ==
    /\ run[r] \in Ended /\ r \notin driver
    /\ \A p \in Pumps : task[p] # r /\ inflight[p] # r
    /\ \A s \in Stoppers : awaits[s] # r

FreePump(p) ==
    /\ p \notin {route, radio}
    /\ task[p] = NoRun /\ inflight[p] = NoRun
    /\ \A r \in Runs : Home(r) = p => FreeRun(r)

\* RxPump.start: nothing if _task is set.
Start(p) ==
    IF task[p] # NoRun THEN UNCHANGED <<task, reader, run>>
    ELSE \E r \in {x \in Runs : Home(x) = p /\ FreeRun(x)} :
            /\ task' = [task EXCEPT ![p] = r]
            /\ reader' = [reader EXCEPT ![p] = TRUE]
            /\ run' = [run EXCEPT ![r] = "new"]

\* task.cancel(): a task that was never stepped ends without its `finally`.
Cancelled(r) ==
    IF run[r] \in {"ready", "reading"} THEN "cancelled" ELSE "none"

\* What follows RxPump.stop: a listener is gone; holder.stop goes on to the
\* radio's close(), which begins at once on a thread of its own.
AfterStop(s) ==
    IF s = Selector
    THEN Goto(s, "closing") /\ closed' = closed \cup {radio}
    ELSE Goto(s, "off") /\ UNCHANGED closed

\* Mutant: stop forgets the task and does not cancel it.
BeginStopAbandons(s, p) ==
    IF task[p] = NoRun
    THEN AfterStop(s) /\ UNCHANGED <<task, run, awaits>>
    ELSE /\ task' = [task EXCEPT ![p] = NoRun]
         /\ awaits' = [awaits EXCEPT ![s] = task[p]]
         /\ Goto(s, "joining")
         /\ UNCHANGED <<run, closed>>

\* RxPump.stop up to its first await; with no _task it has none.
BeginStop(s, p) ==
    IF task[p] = NoRun
    THEN AfterStop(s) /\ UNCHANGED <<task, run, awaits>>
    ELSE /\ task' = [task EXCEPT ![p] = NoRun]
         /\ run' = [run EXCEPT ![task[p]] = Cancelled(task[p])]
         /\ awaits' = [awaits EXCEPT ![s] = task[p]]
         /\ Goto(s, "joining")
         /\ UNCHANGED closed

\* The end of RxPump.stop: whatever _reader is now is shut down.
EndStop(s) ==
    /\ reader' = [reader EXCEPT ![Home(awaits[s])] = FALSE]
    /\ awaits' = [awaits EXCEPT ![s] = NoRun]
    /\ AfterStop(s)

\* The task has ended.  _inflight is taken, and awaited if it still runs.
Joined(s) ==
    /\ pc[s] = "joining" /\ run[awaits[s]] \in Ended
    /\ LET p == Home(awaits[s]) IN
          /\ inflight' = [inflight EXCEPT ![p] = NoRun]
          /\ IF inflight[p] \in driver
             THEN /\ awaits' = [awaits EXCEPT ![s] = inflight[p]]
                  /\ Goto(s, "draining")
                  /\ UNCHANGED <<reader, closed>>
             ELSE EndStop(s)
    /\ UNCHANGED <<demand, route, radio, built, task, run, driver, receiving>>

\* Mutant: the wait for the thread has no bound.
DrainedUnbounded(s) ==
    /\ pc[s] = "drained"
    /\ EndStop(s)
    /\ UNCHANGED <<demand, route, radio, built, task, inflight, run, driver,
                   receiving>>

\* The read came back, or READER_JOIN_TIMEOUT_S passed.
Drained(s) ==
    /\ pc[s] = "drained" \/ (pc[s] = "draining" /\ "read_wedged" \in Faults)
    /\ EndStop(s)
    /\ UNCHANGED <<demand, route, radio, built, task, inflight, run, driver,
                   receiving>>

\* The first step of RxPump.run.  The loop is first in, first out: a task
\* that was cancelled earlier has unwound by now.
Enters(r) ==
    /\ run[r] = "new"
    /\ \A q \in Runs : run[q] # "cancelled"
    /\ run' = [run EXCEPT ![r] = "ready"]
    /\ receiving' = TRUE
    /\ UNCHANGED <<demand, route, holderVars, task, reader, inflight,
                   driver, pc, awaits>>

\* _read_frame: on the pump's own executor, or on the default pool, where
\* nobody keeps the future, when _reader is None.
Reads(r) ==
    /\ run[r] = "ready" /\ r \notin driver
    /\ run' = [run EXCEPT ![r] = "reading"]
    /\ driver' = driver \cup {r}
    /\ inflight' = [inflight EXCEPT ![Home(r)] =
                       IF reader[Home(r)] THEN r
                       ELSE IF @ = r THEN NoRun ELSE @]
    /\ UNCHANGED <<demand, route, holderVars, task, reader, receiving,
                   pc, awaits>>

\* Thread r leaves the driver; who drains it may go on.
LeavesDriver(r) ==
    /\ r \in driver
    /\ driver' = driver \ {r}
    /\ pc' = [s \in Stoppers |->
                IF pc[s] = "draining" /\ awaits[s] = r THEN "drained" ELSE pc[s]]

\* A task that still waits takes the frame.
ReadReturns(r) ==
    /\ LeavesDriver(r)
    /\ run' = [run EXCEPT ![r] = IF @ = "reading" THEN "ready" ELSE @]
    /\ UNCHANGED <<demand, route, holderVars, task, reader, inflight,
                   receiving, awaits>>

\* receive() raises: out of `run`, through its `finally`.
ReadRaises(r) ==
    /\ "read_raises" \in Faults
    /\ LeavesDriver(r)
    /\ run' = [run EXCEPT ![r] = IF @ = "reading" THEN "failed" ELSE @]
    /\ receiving' = (receiving /\ run[r] # "reading")
    /\ UNCHANGED <<demand, route, holderVars, task, reader, inflight, awaits>>

\* Mutant: the `finally` leaves the arbiter's mark.
UnwindsSilently(r) ==
    /\ run[r] = "cancelled"
    /\ run' = [run EXCEPT ![r] = "none"]
    /\ UNCHANGED <<demand, route, holderVars, task, reader, inflight, driver,
                   receiving, pc, awaits>>

\* The `finally` of a cancelled task.
Unwinds(r) ==
    /\ run[r] = "cancelled"
    /\ run' = [run EXCEPT ![r] = "none"]
    /\ receiving' = FALSE
    /\ UNCHANGED <<demand, route, holderVars, task, reader, inflight,
                   driver, pc, awaits>>

-----------------------------------------------------------------------------
(* The demand counter.                                                     *)

Acquire(l) ==
    /\ pc[l] = "off"
    /\ IF demand = 0 THEN Start(route) ELSE UNCHANGED <<task, reader, run>>
    /\ demand' = demand + 1
    /\ Goto(l, "on")
    /\ UNCHANGED <<route, holderVars, inflight, driver, receiving, awaits>>

\* Mutants: a release that stops the pump under the others, and one that
\* does not count.
ReleaseStops(l) ==
    /\ pc[l] = "on"
    /\ demand' = demand - 1
    /\ BeginStop(l, route)
    /\ UNCHANGED <<route, radio, built, reader, inflight, driver, receiving>>

ReleaseUncounted(l) ==
    /\ pc[l] = "on"
    /\ Goto(l, "off")
    /\ UNCHANGED <<demand, route, holderVars, task, reader, inflight, run,
                   driver, receiving, awaits>>

Release(l) ==
    /\ pc[l] = "on"
    /\ demand' = demand - 1
    /\ IF demand = 1
       THEN BeginStop(l, route)
       ELSE Goto(l, "off") /\ UNCHANGED <<closed, task, run, awaits>>
    /\ UNCHANGED <<route, radio, built, reader, inflight, driver, receiving>>

-----------------------------------------------------------------------------
(* POST /radio/select and RadioHolder.rebuild, under the holder's lock.    *)

Select ==
    /\ pc[Selector] = "off"
    /\ IF built THEN BeginStop(Selector, radio)
       ELSE AfterStop(Selector) /\ UNCHANGED <<task, run, awaits>>
    /\ UNCHANGED <<demand, route, radio, built, reader, inflight, driver,
                   receiving>>

\* close() returned under its deadline, or the swap is refused.
Closed ==
    /\ pc[Selector] = "closing"
    /\ \/ built' = FALSE /\ Goto(Selector, "building")
       \/ "close_late" \in Faults /\ Goto(Selector, "off") /\ UNCHANGED built
    /\ UNCHANGED <<demand, route, radio, closed, task, reader, inflight, run,
                   driver, receiving, awaits>>

\* The target is up: holder.start, the routes re-pointed, the pump started
\* for those who already listen.
Builds ==
    /\ pc[Selector] = "building"
    /\ \E p \in {x \in Pumps : FreePump(x)} :
          /\ radio' = p /\ route' = p
          /\ closed' = closed \ {p}
          /\ IF demand > 0 THEN Start(p) ELSE UNCHANGED <<task, reader, run>>
    /\ built' = TRUE
    /\ Goto(Selector, "off")
    /\ UNCHANGED <<demand, inflight, driver, receiving, awaits>>

BuildFails ==
    /\ pc[Selector] = "building" /\ "build_raises" \in Faults
    /\ Goto(Selector, "restoring")
    /\ UNCHANGED <<demand, route, holderVars, task, reader, inflight, run,
                   driver, receiving, awaits>>

\* _restore, and the 503: the routes are not told.
Restores ==
    /\ pc[Selector] = "restoring"
    /\ \/ /\ \E p \in {x \in Pumps : FreePump(x)} :
                radio' = p /\ closed' = closed \ {p}
          /\ built' = TRUE
       \/ UNCHANGED holderVars
    /\ Goto(Selector, "off")
    /\ UNCHANGED <<demand, route, task, reader, inflight, run, driver,
                   receiving, awaits>>

-----------------------------------------------------------------------------
RunStep(r) ==
    Enters(r) \/ Reads(r) \/ ReadReturns(r) \/ ReadRaises(r) \/ Unwinds(r)

SelectStep == Select \/ Closed \/ Builds \/ BuildFails \/ Restores

ListenerStep(l) == Acquire(l) \/ Release(l)

StopStep(s) == Joined(s) \/ Drained(s)

ListenNext ==
    \/ \E r \in Runs : RunStep(r)
    \/ \E l \in Listeners : ListenerStep(l)
    \/ \E s \in Stoppers : StopStep(s)

Next == ListenNext \/ SelectStep

\* A station that keeps its backend, and one that is switched.
ListenSpec == Init /\ [][ListenNext]_vars
Spec == Init /\ [][Next]_vars

\* The loop runs what is ready, and its timed waits end.
Fairness ==
    /\ \A r \in Runs : WF_vars(Unwinds(r)) /\ WF_vars(Enters(r))
    /\ \A s \in Stoppers : WF_vars(StopStep(s))

FairSpec == Spec /\ Fairness

-----------------------------------------------------------------------------
(* Every variable has its type.                                            *)
TypeOK ==
    /\ demand \in 0 .. Cardinality(Listeners)
    /\ route \in Pumps /\ radio \in Pumps
    /\ built \in BOOLEAN
    /\ closed \subseteq Pumps
    /\ task \in [Pumps -> Runs \cup {NoRun}]
    /\ reader \in [Pumps -> BOOLEAN]
    /\ inflight \in [Pumps -> Runs \cup {NoRun}]
    /\ run \in [Runs -> Live \cup Ended \cup {"cancelled"}]
    /\ driver \subseteq Runs
    /\ receiving \in BOOLEAN
    /\ pc \in [Stoppers -> {"off", "on", "joining", "draining", "drained",
                            "closing", "building", "restoring"}]
    /\ awaits \in [Stoppers -> Runs \cup {NoRun}]

LiveRuns(p) == {r \in Runs : Home(r) = p /\ run[r] \in Live}

(* A pump has one live task at most, and `_task` is that task: a listener  *)
(* that comes during a teardown, or a swap that starts the new pump, never *)
(* sets two readers loose in one pump.                                     *)
OneTaskPerPump ==
    \A p \in Pumps : \A r \in LiveRuns(p) : task[p] = r

(* "The one rx_pump runs while there is any demand for received audio",    *)
(* and only then, through every overlap of a listener that leaves (and     *)
(* awaits the stop) with listeners that come.  Needs a backend that is not *)
(* swapped and a card that does not die.                                   *)
ReaderFollowsDemand == demand > 0 <=> LiveRuns(route) # {}

(* The same claim for a moment at which no swap is under way: somebody     *)
(* listens, so the pump of the holder's radio reads.                       *)
DemandIsServed ==
    pc[Selector] = "off" /\ demand > 0 => LiveRuns(radio) # {}

(* The arbiter's RECEIVING mode is what the pump does: the unwinding of an *)
(* old task never takes the mark of its successor.                         *)
ReceivingIsTrue ==
    receiving <=> \E r \in Runs : run[r] \in {"ready", "reading", "cancelled"}

(* "Exactly one read is ever in flight": what the capture paths build on.  *)
OneReader ==
    \A q, r \in driver : Home(q) = Home(r) => q = r

(* stop() waits for the read in the driver "before the backend closes the  *)
(* stream underneath it".                                                  *)
NoCloseUnderRead == [][\A r \in driver : Home(r) \in closed' => Home(r) \in closed]_vars

(* Between swaps only the pump of the holder's radio reads.                *)
NoStrayReader ==
    pc[Selector] = "off" => \A p \in Pumps : p # radio => LiveRuns(p) = {}

(* A release, a swap and a shutdown always get past the pump, also with a  *)
(* thread that never leaves the driver.                                    *)
StopsEnd ==
    \A s \in Stoppers : pc[s] \in {"joining", "draining", "drained"} ~>
                           pc[s] \in {"off", "closing"}

\* Listeners, pumps and slots are names only; for runs without liveness.
Symmetry ==
    Permutations(Listeners) \cup Permutations(Pumps) \cup Permutations(Slots)

(***************************************************************************)
(* Proofs, checked by TLAPS: for any number of listeners, pumps and        *)
(* threads.                                                                *)
(*                                                                         *)
(* OneTaskAtATime holds of every behaviour, swaps and faults included.     *)
(* DemandStartsAndStops is about a backend that is not swapped: a pump's   *)
(* task is then the task of the one pump the routes reach, and the counter *)
(* says whether there is one.                                              *)
(***************************************************************************)

States == Live \cup Ended \cup {"cancelled"}
Places == {"off", "on", "joining", "draining", "drained", "closing",
           "building", "restoring"}

\* TypeOK without the bound of the counter.
Types ==
    /\ demand \in Nat
    /\ route \in Pumps /\ radio \in Pumps
    /\ built \in BOOLEAN
    /\ closed \subseteq Pumps
    /\ task \in [Pumps -> Runs \cup {NoRun}]
    /\ reader \in [Pumps -> BOOLEAN]
    /\ inflight \in [Pumps -> Runs \cup {NoRun}]
    /\ run \in [Runs -> States]
    /\ driver \subseteq Runs
    /\ receiving \in BOOLEAN
    /\ pc \in [Stoppers -> Places]
    /\ awaits \in [Stoppers -> Runs \cup {NoRun}]

\* A caller inside stop() awaits a task or thread; the count is the number
\* of listeners that are on; _task is a task of its own pump.
On == {l \in Listeners : pc[l] = "on"}

IInv ==
    /\ Types
    /\ demand = Cardinality(On)
    /\ \A p \in Pumps : task[p] # NoRun => Home(task[p]) = p
    /\ OneTaskPerPump

LEMMA HomeIsPump == \A r \in Runs : Home(r) \in Pumps
BY DEF Runs, Home

LEMMA InitIInv == Init => IInv
<1> SUFFICES ASSUME Init PROVE IInv
  OBVIOUS
<1>1. Types
  BY PumpsAssumption DEF Init, Types, States, Places, Live, Ended
<1>2. On = {}
  BY DEF Init, On, Stoppers
<1>3. demand = Cardinality(On)
  BY <1>2, FS_EmptySet DEF Init
<1> QED BY <1>1, <1>3 DEF Init, IInv, OneTaskPerPump, LiveRuns, Live

\* Listeners come and go one at a time.
LEMMA Joins ==
    ASSUME IInv, NEW l \in Listeners, pc[l] # "on", pc' = [pc EXCEPT ![l] = "on"]
    PROVE  Cardinality(On') = demand + 1
<1>1. On' = On \cup {l} /\ l \notin On
  BY DEF On, IInv, Types, Stoppers
<1>2. IsFiniteSet(On)
  BY ListenersAssumption, FS_Subset DEF On
<1> QED BY <1>1, <1>2, FS_AddElement DEF IInv

LEMMA Leaves ==
    ASSUME IInv, NEW l \in Listeners, pc[l] = "on", NEW x \in Places \ {"on"},
           pc' = [pc EXCEPT ![l] = x]
    PROVE  demand > 0 /\ Cardinality(On') = demand - 1
<1>1. On' = On \ {l} /\ l \in On
  BY DEF On, IInv, Types, Stoppers
<1>2. IsFiniteSet(On)
  BY ListenersAssumption, FS_Subset DEF On
<1>3. Cardinality(On \ {l}) = Cardinality(On) - 1
  BY <1>1, <1>2, FS_RemoveElement
<1>4. Cardinality(On) # 0
  BY <1>1, <1>2, FS_EmptySet
<1> QED BY <1>1, <1>3, <1>4 DEF IInv, Types

LEMMA Stays ==
    ASSUME IInv, \A l \in Listeners : pc'[l] = "on" <=> pc[l] = "on"
    PROVE  Cardinality(On') = demand
<1>1. On' = On
  BY DEF On
<1> QED BY <1>1 DEF IInv

-----------------------------------------------------------------------------
(* The tasks of a pump.  Each of the pieces that a step is made of keeps   *)
(* the two facts about _task.                                              *)
Tasks ==
    /\ task \in [Pumps -> Runs \cup {NoRun}]
    /\ run \in [Runs -> States]
    /\ \A p \in Pumps : task[p] # NoRun => Home(task[p]) = p
    /\ OneTaskPerPump

LEMMA StartKeeps ==
    ASSUME Tasks, reader \in [Pumps -> BOOLEAN], NEW p \in Pumps, Start(p)
    PROVE  Tasks' /\ reader' \in [Pumps -> BOOLEAN]
<1>1. CASE task[p] # NoRun
  BY <1>1 DEF Start, Tasks, OneTaskPerPump, LiveRuns
<1>2. CASE task[p] = NoRun
  <2>1. PICK r \in Runs : /\ Home(r) = p
                          /\ task' = [task EXCEPT ![p] = r]
                          /\ reader' = [reader EXCEPT ![p] = TRUE]
                          /\ run' = [run EXCEPT ![r] = "new"]
    BY <1>2 DEF Start
  <2>2. task' \in [Pumps -> Runs \cup {NoRun}] /\ run' \in [Runs -> States]
    BY <2>1 DEF Tasks, States, Live
  <2>3. \A q \in Pumps : task'[q] # NoRun => Home(task'[q]) = q
    BY <2>1 DEF Tasks
  <2>4. ASSUME NEW q \in Pumps, NEW x \in Runs, Home(x) = q, run'[x] \in Live
        PROVE  task'[q] = x
    <3>1. CASE x = r
      BY <2>1, <2>4, <3>1 DEF Tasks
    <3>2. CASE x # r
      <4>1. run[x] \in Live
        BY <2>1, <2>4, <3>2 DEF Tasks
      <4>2. task[q] = x
        BY <4>1, <2>4 DEF Tasks, OneTaskPerPump, LiveRuns
      <4>3. q # p
        BY <4>2, <1>2, NamesAssumption
      <4> QED BY <2>1, <4>2, <4>3 DEF Tasks
    <3> QED BY <3>1, <3>2
  <2> QED BY <2>1, <2>2, <2>3, <2>4 DEF Tasks, OneTaskPerPump, LiveRuns
<1> QED BY <1>1, <1>2

\* One task ends, or is cancelled with its pump's _task cleared.
LEMMA BeginStopKeeps ==
    ASSUME Tasks, awaits \in [Stoppers -> Runs \cup {NoRun}],
           NEW s \in Stoppers, NEW p \in Pumps, BeginStop(s, p)
    PROVE  Tasks' /\ awaits' \in [Stoppers -> Runs \cup {NoRun}]
<1>1. CASE task[p] = NoRun
  BY <1>1 DEF BeginStop, Tasks, OneTaskPerPump, LiveRuns
<1>2. CASE task[p] # NoRun
  <2> DEFINE r == task[p]
  <2>1. /\ r \in Runs /\ Home(r) = p
        /\ task' = [task EXCEPT ![p] = NoRun]
        /\ run' = [run EXCEPT ![r] = Cancelled(r)]
        /\ awaits' = [awaits EXCEPT ![s] = r]
    BY <1>2 DEF BeginStop, Tasks
  <2>2. Cancelled(r) \in States /\ Cancelled(r) \notin Live
    BY DEF Cancelled, States, Live, Ended
  <2>3. task' \in [Pumps -> Runs \cup {NoRun}] /\ run' \in [Runs -> States]
    BY <2>1, <2>2 DEF Tasks
  <2>4. \A q \in Pumps : task'[q] # NoRun => Home(task'[q]) = q
    BY <2>1 DEF Tasks
  <2>5. ASSUME NEW q \in Pumps, NEW x \in Runs, Home(x) = q, run'[x] \in Live
        PROVE  task'[q] = x
    <3>1. x # r
      BY <2>1, <2>2, <2>5 DEF Tasks
    <3>2. run[x] \in Live
      BY <2>1, <2>5, <3>1 DEF Tasks
    <3>3. task[q] = x
      BY <3>2, <2>5 DEF Tasks, OneTaskPerPump, LiveRuns
    <3>4. q # p
      BY <3>1, <3>3
    <3> QED BY <2>1, <3>3, <3>4 DEF Tasks
  <2> QED BY <2>1, <2>3, <2>4, <2>5 DEF Tasks, OneTaskPerPump, LiveRuns
<1> QED BY <1>1, <1>2

\* A task moves on without coming to life.
LEMMA MoveKeeps ==
    ASSUME Tasks, NEW r \in Runs, NEW x \in States,
           x \in Live => run[r] \in Live,
           run' = [run EXCEPT ![r] = x], UNCHANGED task
    PROVE  Tasks'
<1>1. run' \in [Runs -> States]
  BY DEF Tasks
<1>2. \A y \in Runs : run'[y] \in Live => run[y] \in Live
  BY DEF Tasks
<1> QED BY <1>1, <1>2 DEF Tasks, OneTaskPerPump, LiveRuns

LEMMA SameKeeps ==
    ASSUME Tasks, UNCHANGED <<task, run>>
    PROVE  Tasks'
BY DEF Tasks, OneTaskPerPump, LiveRuns

-----------------------------------------------------------------------------
LEMMA IInvIsTasks == IInv => Tasks
BY DEF IInv, Types, Tasks

LEMMA AfterStopMoves ==
    ASSUME Types, NEW s \in Stoppers, AfterStop(s)
    PROVE  /\ closed' \subseteq Pumps
           /\ \E x \in Places \ {"on"} :
                 /\ pc' = [pc EXCEPT ![s] = x]
                 /\ s # Selector => x = "off"
BY DEF AfterStop, Goto, Types, Places

LEMMA BeginStopMoves ==
    ASSUME Types, NEW s \in Stoppers, NEW p, BeginStop(s, p)
    PROVE  /\ closed' \subseteq Pumps
           /\ \E x \in Places \ {"on"} : pc' = [pc EXCEPT ![s] = x]
<1>1. CASE task[p] = NoRun
  BY <1>1, AfterStopMoves DEF BeginStop
<1>2. CASE task[p] # NoRun
  <2>1. pc' = [pc EXCEPT ![s] = "joining"] /\ closed' = closed
    BY <1>2 DEF BeginStop, Goto
  <2> QED BY <2>1 DEF Types, Places
<1> QED BY <1>1, <1>2

\* A caller that was not "on" and does not come "on" leaves the count alone.
LEMMA MovesOff ==
    ASSUME IInv, NEW s \in Stoppers, pc[s] # "on", NEW x \in Places \ {"on"},
           pc' = [pc EXCEPT ![s] = x], demand' = demand
    PROVE  pc' \in [Stoppers -> Places] /\ demand' = Cardinality(On')
<1>1. pc' \in [Stoppers -> Places]
  BY DEF IInv, Types
<1>2. \A l \in Listeners : pc'[l] = "on" <=> pc[l] = "on"
  BY DEF IInv, Types, Stoppers
<1> QED BY <1>1, <1>2, Stays

LEMMA RunKeeps ==
    ASSUME IInv, NEW r \in Runs, RunStep(r)
    PROVE  IInv'
<1>t. Types /\ Tasks /\ Home(r) \in Pumps
  BY IInvIsTasks, HomeIsPump DEF IInv
<1>1. CASE Enters(r)
  <2>1. Tasks'
    BY <1>t, <1>1, MoveKeeps DEF Enters, States, Live
  <2>2. demand' = Cardinality(On')
    BY <1>1, Stays DEF Enters
  <2>3. Types'
    BY <1>t, <1>1, <2>1 DEF Enters, Types, Tasks, holderVars
  <2> QED BY <2>1, <2>2, <2>3 DEF IInv, Tasks
<1>2. CASE Reads(r)
  <2>1. Tasks'
    BY <1>t, <1>2, MoveKeeps DEF Reads, States, Live
  <2>2. demand' = Cardinality(On')
    BY <1>2, Stays DEF Reads
  <2>3. inflight' \in [Pumps -> Runs \cup {NoRun}]
    BY <1>t, <1>2 DEF Reads, Types
  <2>4. Types'
    BY <1>t, <1>2, <2>1, <2>3 DEF Reads, Types, Tasks, holderVars
  <2> QED BY <2>1, <2>2, <2>4 DEF IInv, Tasks
<1>3. CASE ReadReturns(r) \/ ReadRaises(r)
  <2>1. PICK x \in States : /\ x \in Live => run[r] \in Live
                            /\ run' = [run EXCEPT ![r] = x]
    <3>1. CASE ReadReturns(r)
      <4> DEFINE x == IF run[r] = "reading" THEN "ready" ELSE run[r]
      <4>1. x \in States /\ (x \in Live => run[r] \in Live)
        BY <1>t DEF Types, States, Live
      <4>2. run' = [run EXCEPT ![r] = x]
        BY <3>1 DEF ReadReturns
      <4> QED BY <4>1, <4>2
    <3>2. CASE ReadRaises(r)
      <4> DEFINE x == IF run[r] = "reading" THEN "failed" ELSE run[r]
      <4>1. x \in States /\ (x \in Live => run[r] \in Live)
        BY <1>t DEF Types, States, Live, Ended
      <4>2. run' = [run EXCEPT ![r] = x]
        BY <3>2 DEF ReadRaises
      <4> QED BY <4>1, <4>2
    <3> QED BY <1>3, <3>1, <3>2
  <2>2. Tasks'
    BY <1>t, <1>3, <2>1, MoveKeeps DEF ReadReturns, ReadRaises
  <2>3. LeavesDriver(r)
    BY <1>3 DEF ReadReturns, ReadRaises
  <2>4. /\ pc' \in [Stoppers -> Places] /\ driver' \subseteq Runs
        /\ \A l \in Listeners : pc'[l] = "on" <=> pc[l] = "on"
    BY <1>t, <2>3 DEF LeavesDriver, Types, Places, Stoppers
  <2>5. demand' = Cardinality(On')
    BY <1>3, <2>4, Stays DEF ReadReturns, ReadRaises
  <2>6. Types'
    BY <1>t, <1>3, <2>2, <2>4 DEF ReadReturns, ReadRaises, Types, Tasks, holderVars
  <2> QED BY <2>2, <2>5, <2>6 DEF IInv, Tasks
<1>4. CASE Unwinds(r)
  <2>1. Tasks'
    BY <1>t, <1>4, MoveKeeps DEF Unwinds, States, Live, Ended
  <2>2. demand' = Cardinality(On')
    BY <1>4, Stays DEF Unwinds
  <2>3. Types'
    BY <1>t, <1>4, <2>1 DEF Unwinds, Types, Tasks, holderVars
  <2> QED BY <2>1, <2>2, <2>3 DEF IInv, Tasks
<1> QED BY <1>1, <1>2, <1>3, <1>4 DEF RunStep

LEMMA ListenerKeeps ==
    ASSUME IInv, NEW l \in Listeners, ListenerStep(l)
    PROVE  IInv'
<1>t. Types /\ Tasks /\ l \in Stoppers
  BY IInvIsTasks DEF IInv, Stoppers
<1>1. CASE Acquire(l)
  <2>1. Tasks' /\ reader' \in [Pumps -> BOOLEAN]
    <3>1. CASE demand = 0
      BY <1>t, <1>1, <3>1, StartKeeps DEF Acquire, Types
    <3>2. CASE demand # 0
      BY <1>t, <1>1, <3>2, SameKeeps DEF Acquire, Types
    <3> QED BY <3>1, <3>2
  <2>2. pc' = [pc EXCEPT ![l] = "on"] /\ pc[l] # "on" /\ demand' = demand + 1
    BY <1>1 DEF Acquire, Goto
  <2>3. demand' = Cardinality(On')
    BY <2>2, Joins
  <2>4. Types'
    BY <1>t, <1>1, <2>1, <2>2 DEF Acquire, Types, Tasks, holderVars, Places
  <2> QED BY <2>1, <2>3, <2>4 DEF IInv, Tasks
<1>2. CASE Release(l)
  <2>1. Tasks' /\ awaits' \in [Stoppers -> Runs \cup {NoRun}]
    <3>1. CASE demand = 1
      BY <1>t, <1>2, <3>1, BeginStopKeeps DEF Release, Types
    <3>2. CASE demand # 1
      BY <1>t, <1>2, <3>2, SameKeeps DEF Release, Types
    <3> QED BY <3>1, <3>2
  <2>2. closed' \subseteq Pumps /\ \E x \in Places \ {"on"} : pc' = [pc EXCEPT ![l] = x]
    <3>1. CASE demand = 1
      BY <1>t, <1>2, <3>1, BeginStopMoves DEF Release
    <3>2. CASE demand # 1
      <4>1. pc' = [pc EXCEPT ![l] = "off"] /\ closed' = closed
        BY <1>2, <3>2 DEF Release, Goto
      <4> QED BY <1>t, <4>1 DEF Types, Places
    <3> QED BY <3>1, <3>2
  <2>3. demand > 0 /\ demand' = Cardinality(On') /\ demand' = demand - 1
    BY <1>2, <2>2, Leaves DEF Release
  <2>4. demand' \in Nat
    BY <1>t, <2>3 DEF Types
  <2>5. Types'
    BY <1>t, <1>2, <2>1, <2>2, <2>4 DEF Release, Types, Tasks
  <2> QED BY <2>1, <2>3, <2>5 DEF IInv, Tasks
<1> QED BY <1>1, <1>2 DEF ListenerStep

LEMMA EndStopMoves ==
    ASSUME Types, NEW s \in Stoppers, awaits[s] \in Runs \/ awaits[s] = NoRun, EndStop(s)
    PROVE  /\ reader' \in [Pumps -> BOOLEAN]
           /\ awaits' \in [Stoppers -> Runs \cup {NoRun}]
           /\ closed' \subseteq Pumps
           /\ \E x \in Places \ {"on"} : pc' = [pc EXCEPT ![s] = x]
BY AfterStopMoves DEF EndStop, Types

LEMMA StopKeeps ==
    ASSUME IInv, NEW s \in Stoppers, StopStep(s)
    PROVE  IInv'
<1>t. Types /\ Tasks /\ (awaits[s] \in Runs \/ awaits[s] = NoRun) /\ pc[s] # "on"
  BY IInvIsTasks DEF IInv, Types, StopStep, Joined, Drained
<1>1. /\ reader' \in [Pumps -> BOOLEAN]
      /\ inflight' \in [Pumps -> Runs \cup {NoRun}]
      /\ awaits' \in [Stoppers -> Runs \cup {NoRun}]
      /\ closed' \subseteq Pumps
      /\ \E x \in Places \ {"on"} : pc' = [pc EXCEPT ![s] = x]
  <2>1. CASE Joined(s)
    <3> DEFINE p == Home(awaits[s])
    <3>1. inflight' = [inflight EXCEPT ![p] = NoRun]
      BY <2>1 DEF Joined
    <3>2. inflight' \in [Pumps -> Runs \cup {NoRun}]
      BY <1>t, <3>1 DEF Types
    <3>3. CASE inflight[p] \in driver
      <4>1. /\ awaits' = [awaits EXCEPT ![s] = inflight[p]]
            /\ pc' = [pc EXCEPT ![s] = "draining"]
            /\ UNCHANGED <<reader, closed>>
        BY <2>1, <3>3 DEF Joined, Goto
      <4>2. inflight[p] \in Runs
        BY <1>t, <3>3 DEF Types
      <4> QED BY <1>t, <3>2, <4>1, <4>2 DEF Types, Places
    <3>4. CASE inflight[p] \notin driver
      <4>1. EndStop(s)
        BY <2>1, <3>4 DEF Joined
      <4> QED BY <1>t, <3>2, <4>1, EndStopMoves
    <3> QED BY <3>3, <3>4
  <2>2. CASE Drained(s)
    <3>1. EndStop(s) /\ inflight' = inflight
      BY <2>2 DEF Drained
    <3> QED BY <1>t, <3>1, EndStopMoves DEF Types
  <2> QED BY <2>1, <2>2 DEF StopStep
<1>2. UNCHANGED <<demand, route, radio, built, task, run, driver, receiving>>
  BY DEF StopStep, Joined, Drained
<1>3. pc' \in [Stoppers -> Places] /\ demand' = Cardinality(On')
  BY <1>t, <1>1, <1>2, MovesOff
<1>4. Tasks'
  BY <1>t, <1>2, SameKeeps
<1>5. Types'
  BY <1>t, <1>1, <1>2, <1>3 DEF Types
<1> QED BY <1>3, <1>4, <1>5 DEF IInv, Tasks

LEMMA SelectKeeps ==
    ASSUME IInv, SelectStep
    PROVE  IInv'
<1>t. Types /\ Tasks /\ Selector \in Stoppers
  BY IInvIsTasks DEF IInv, Stoppers
<1>1. CASE Select
  <2>1. Tasks' /\ awaits' \in [Stoppers -> Runs \cup {NoRun}]
    <3>1. CASE built
      BY <1>t, <1>1, <3>1, BeginStopKeeps DEF Select, Types
    <3>2. CASE ~built
      BY <1>t, <1>1, <3>2, SameKeeps DEF Select, Types
    <3> QED BY <3>1, <3>2
  <2>2. closed' \subseteq Pumps /\ \E x \in Places \ {"on"} : pc' = [pc EXCEPT ![Selector] = x]
    BY <1>t, <1>1, BeginStopMoves, AfterStopMoves DEF Select
  <2>3. pc' \in [Stoppers -> Places] /\ demand' = Cardinality(On')
    BY <1>t, <1>1, <2>2, MovesOff DEF Select
  <2>4. Types'
    BY <1>t, <1>1, <2>1, <2>2, <2>3 DEF Select, Types, Tasks
  <2> QED BY <2>1, <2>3, <2>4 DEF IInv, Tasks
<1>2. CASE Closed
  <2>1. pc[Selector] # "on" /\ \E x \in Places \ {"on"} : pc' = [pc EXCEPT ![Selector] = x]
    BY <1>2 DEF Closed, Goto, Places
  <2>2. pc' \in [Stoppers -> Places] /\ demand' = Cardinality(On')
    BY <1>t, <1>2, <2>1, MovesOff DEF Closed
  <2>3. Tasks'
    BY <1>t, <1>2, SameKeeps DEF Closed
  <2>4. Types'
    BY <1>t, <1>2, <2>2 DEF Closed, Types
  <2> QED BY <2>2, <2>3, <2>4 DEF IInv, Tasks
<1>3. CASE Builds
  <2>1. PICK p \in Pumps : /\ radio' = p /\ route' = p /\ closed' = closed \ {p}
                           /\ IF demand > 0 THEN Start(p) ELSE UNCHANGED <<task, reader, run>>
    BY <1>3 DEF Builds
  <2>2. Tasks' /\ reader' \in [Pumps -> BOOLEAN]
    BY <1>t, <2>1, StartKeeps, SameKeeps DEF Types
  <2>3. pc[Selector] # "on" /\ pc' = [pc EXCEPT ![Selector] = "off"] /\ demand' = demand
    BY <1>3 DEF Builds, Goto
  <2>4. pc' \in [Stoppers -> Places] /\ demand' = Cardinality(On')
    BY <1>t, <2>3, MovesOff DEF Places
  <2>5. Types'
    BY <1>t, <1>3, <2>1, <2>2, <2>4 DEF Builds, Types, Tasks
  <2> QED BY <2>2, <2>4, <2>5 DEF IInv, Tasks
<1>4. CASE BuildFails
  <2>1. pc[Selector] # "on" /\ pc' = [pc EXCEPT ![Selector] = "restoring"] /\ demand' = demand
    BY <1>4 DEF BuildFails, Goto
  <2>2. pc' \in [Stoppers -> Places] /\ demand' = Cardinality(On')
    BY <1>t, <2>1, MovesOff DEF Places
  <2>3. Tasks'
    BY <1>t, <1>4, SameKeeps DEF BuildFails
  <2>4. Types'
    BY <1>t, <1>4, <2>2 DEF BuildFails, Types, holderVars
  <2> QED BY <2>2, <2>3, <2>4 DEF IInv, Tasks
<1>5. CASE Restores
  <2>1. pc[Selector] # "on" /\ pc' = [pc EXCEPT ![Selector] = "off"] /\ demand' = demand
    BY <1>5 DEF Restores, Goto
  <2>2. pc' \in [Stoppers -> Places] /\ demand' = Cardinality(On')
    BY <1>t, <2>1, MovesOff DEF Places
  <2>3. Tasks'
    BY <1>t, <1>5, SameKeeps DEF Restores
  <2>4. radio' \in Pumps /\ closed' \subseteq Pumps /\ built' \in BOOLEAN
    BY <1>t, <1>5 DEF Restores, Types, holderVars
  <2>5. Types'
    BY <1>t, <1>5, <2>2, <2>4 DEF Restores, Types
  <2> QED BY <2>2, <2>3, <2>5 DEF IInv, Tasks
<1> QED BY <1>1, <1>2, <1>3, <1>4, <1>5 DEF SelectStep

LEMMA ListenKeeps ==
    ASSUME IInv, [ListenNext]_vars
    PROVE  IInv'
<1>1. CASE UNCHANGED vars
  BY <1>1 DEF vars, IInv, Types, OneTaskPerPump, LiveRuns, On
<1> QED BY <1>1, RunKeeps, ListenerKeeps, StopKeeps DEF ListenNext

LEMMA StepKeeps ==
    ASSUME IInv, [Next]_vars
    PROVE  IInv'
BY ListenKeeps, SelectKeeps DEF Next

LEMMA IInvIsTypeOK == IInv => TypeOK
<1> SUFFICES ASSUME IInv PROVE TypeOK
  OBVIOUS
<1>1. Cardinality(On) <= Cardinality(Listeners)
  BY ListenersAssumption, FS_Subset DEF On
<1>2. Cardinality(Listeners) \in Nat
  BY ListenersAssumption, FS_CardinalityType
<1>3. demand \in 0 .. Cardinality(Listeners)
  BY <1>1, <1>2 DEF IInv, Types
<1> QED BY <1>3 DEF IInv, Types, TypeOK, States, Places, Live, Ended

(* The variables keep their types, and the demand never exceeds the        *)
(* listeners there are, through swaps, dead cards and wedged reads.        *)
THEOREM TypeCorrect == Spec => []TypeOK
<1>1. Spec => []IInv
  BY InitIInv, StepKeeps, PTL DEF Spec
<1> QED BY <1>1, IInvIsTypeOK, PTL

(* A pump never has two live tasks, whatever overlaps: listeners that      *)
(* leave and come, a swap, a failed swap.                                  *)
THEOREM OneTaskAtATime == Spec => []OneTaskPerPump
<1>1. IInv => OneTaskPerPump
  BY DEF IInv
<1>2. Spec => []IInv
  BY InitIInv, StepKeeps, PTL DEF Spec
<1> QED BY <1>1, <1>2, PTL

-----------------------------------------------------------------------------
(* A backend that is not swapped, and a card that does not die.            *)
Active == {"ready", "reading", "cancelled"}

\* All tasks belong to the routed pump; its _task is set while somebody
\* listens, and is alive; one task at most is past its first step.
Serves ==
    /\ \A r \in Runs : Home(r) # route => run[r] \in Ended
    /\ demand > 0 <=> task[route] # NoRun
    /\ task[route] # NoRun => run[task[route]] \in Live
    /\ \A q, r \in Runs : run[q] \in Active /\ run[r] \in Active => q = r
    /\ ReceivingIsTrue

LEMMA ServesIsUseful ==
    ASSUME IInv, Serves
    PROVE  ReaderFollowsDemand /\ ReceivingIsTrue
<1>1. ASSUME demand > 0 PROVE LiveRuns(route) # {}
  <2>1. task[route] \in Runs /\ Home(task[route]) = route /\ run[task[route]] \in Live
    BY <1>1 DEF IInv, Types, Serves
  <2> QED BY <2>1 DEF LiveRuns
<1>2. ASSUME NEW r \in LiveRuns(route) PROVE demand > 0
  <2>1. task[route] = r /\ r # NoRun
    BY <1>2, NamesAssumption DEF IInv, Types, OneTaskPerPump, LiveRuns
  <2> QED BY <2>1 DEF Serves
<1> QED BY <1>1, <1>2 DEF ReaderFollowsDemand, Serves

\* The task in _task is the only live one.
LEMMA OnlyTask ==
    ASSUME IInv, Serves, NEW r \in Runs, run[r] \in Live
    PROVE  task[route] = r /\ Home(r) = route
<1>1. Home(r) = route
  BY DEF Serves, Ended, Live
<1> QED BY <1>1 DEF IInv, Types, OneTaskPerPump, LiveRuns

LEMMA ServesInit == Init => Serves
BY PumpsAssumption DEF Init, Serves, ReceivingIsTrue, Ended, Active

\* A task that moves on among the states in which it is active.
LEMMA ServesMove ==
    ASSUME IInv, Serves, NEW r \in Runs, NEW x,
           run' = [run EXCEPT ![r] = x],
           \/ x = run[r]
           \/ x \in {"ready", "reading"} /\ run[r] \in {"ready", "reading"},
           UNCHANGED <<demand, route, task, receiving>>
    PROVE  Serves'
<1>t. run \in [Runs -> States]
  BY DEF IInv, Types
<1>1. \A q \in Runs : /\ run'[q] \in Active <=> run[q] \in Active
                      /\ run'[q] \in Live <=> run[q] \in Live
                      /\ run'[q] \in Ended <=> run[q] \in Ended
  BY <1>t DEF Active, Live, Ended
<1>2. task[route] # NoRun => task[route] \in Runs
  BY DEF IInv, Types
<1>3. (\E q \in Runs : run[q] \in Active) <=> \E q \in Runs : run'[q] \in Active
  BY <1>1
<1> QED BY <1>1, <1>2, <1>3 DEF Serves, ReceivingIsTrue, Active

LEMMA ServesRun ==
    ASSUME IInv, Serves, "read_raises" \notin Faults, NEW r \in Runs, RunStep(r)
    PROVE  Serves'
<1>t. run \in [Runs -> States] /\ (task[route] # NoRun => task[route] \in Runs)
  BY DEF IInv, Types
<1>1. CASE Enters(r)
  <2>1. /\ run[r] = "new" /\ run' = [run EXCEPT ![r] = "ready"] /\ receiving' = TRUE
        /\ \A q \in Runs : run[q] # "cancelled"
        /\ UNCHANGED <<demand, route, task>>
    BY <1>1 DEF Enters
  <2>2. task[route] = r
    BY <2>1, OnlyTask DEF Live
  <2>3. \A q \in Runs : run[q] \notin Active
    BY <2>1, <2>2, OnlyTask DEF Active, Live
  <2>4. \A q \in Runs : run'[q] \in Active <=> q = r
    BY <1>t, <2>1, <2>3 DEF Active
  <2>5. run'[r] = "ready" /\ \A q \in Runs : q # r => run'[q] = run[q]
    BY <1>t, <2>1
  <2>6. Home(r) = route
    BY <2>1, OnlyTask DEF Live
  <2> QED BY <2>1, <2>2, <2>4, <2>5, <2>6 DEF Serves, ReceivingIsTrue, Active, Live
<1>2. CASE Reads(r)
  BY <1>2, ServesMove DEF Reads
<1>3. CASE ReadReturns(r)
  <2> DEFINE x == IF run[r] = "reading" THEN "ready" ELSE run[r]
  <2>1. run' = [run EXCEPT ![r] = x] /\ UNCHANGED <<demand, route, task, receiving>>
    BY <1>3 DEF ReadReturns
  <2>2. \/ x = run[r]
        \/ x \in {"ready", "reading"} /\ run[r] \in {"ready", "reading"}
    OBVIOUS
  <2> HIDE DEF x
  <2> QED BY <2>1, <2>2, ServesMove
<1>4. CASE ReadRaises(r)
  BY <1>4 DEF ReadRaises
<1>5. CASE Unwinds(r)
  <2>1. /\ run[r] = "cancelled" /\ run' = [run EXCEPT ![r] = "none"] /\ receiving' = FALSE
        /\ UNCHANGED <<demand, route, task>>
    BY <1>5 DEF Unwinds
  <2>2. \A q \in Runs : run[q] \in Active => q = r
    BY <2>1 DEF Serves, Active
  <2>3. run'[r] = "none" /\ \A q \in Runs : q # r => run'[q] = run[q]
    BY <1>t, <2>1
  <2>4. \A q \in Runs : run'[q] \notin Active
    BY <2>2, <2>3 DEF Active
  <2>5. task[route] # r
    BY <2>1, <1>t, NamesAssumption DEF Serves, Live
  <2> QED BY <1>t, <2>1, <2>3, <2>4, <2>5 DEF Serves, ReceivingIsTrue, Active, Ended
<1> QED BY <1>1, <1>2, <1>3, <1>4, <1>5 DEF RunStep

LEMMA ServesListener ==
    ASSUME IInv, Serves, NEW l \in Listeners, ListenerStep(l)
    PROVE  Serves'
<1>t. /\ run \in [Runs -> States] /\ task \in [Pumps -> Runs \cup {NoRun}]
      /\ route \in Pumps /\ demand \in Nat
      /\ \A p \in Pumps : task[p] # NoRun => Home(task[p]) = p
  BY DEF IInv, Types
<1>1. CASE Acquire(l)
  <2>1. route' = route /\ receiving' = receiving /\ demand' = demand + 1
    BY <1>1 DEF Acquire
  <2>2. CASE demand = 0
    <3>1. task[route] = NoRun
      BY <2>2 DEF Serves
    <3>2. PICK r \in Runs : /\ Home(r) = route /\ FreeRun(r)
                            /\ task' = [task EXCEPT ![route] = r]
                            /\ run' = [run EXCEPT ![r] = "new"]
      BY <1>1, <2>2, <3>1 DEF Acquire, Start
    <3>3. task'[route] = r /\ r # NoRun
      BY <1>t, <3>2, NamesAssumption
    <3>4. run'[r] = "new" /\ \A q \in Runs : q # r => run'[q] = run[q]
      BY <1>t, <3>2
    <3>5. run[r] \in Ended
      BY <3>2 DEF FreeRun
    <3>6. \A q \in Runs : run'[q] \in Active <=> run[q] \in Active
      BY <3>4, <3>5 DEF Active, Ended
    <3>7. ReceivingIsTrue'
      BY <2>1, <3>6 DEF Serves, ReceivingIsTrue, Active
    <3> QED BY <1>t, <2>1, <3>2, <3>3, <3>4, <3>6, <3>7 DEF Serves, Live
  <2>3. CASE demand # 0
    <3>1. UNCHANGED <<task, run>> /\ demand > 0 /\ demand' > 0
      BY <1>t, <1>1, <2>3 DEF Acquire
    <3> QED BY <2>1, <3>1 DEF Serves, ReceivingIsTrue
  <2> QED BY <2>2, <2>3
<1>2. CASE Release(l)
  <2>1. route' = route /\ receiving' = receiving /\ demand' = demand - 1 /\ demand > 0
    <3>1. PICK x \in Places \ {"on"} : pc' = [pc EXCEPT ![l] = x]
      <4>1. CASE demand = 1
        BY <1>2, <4>1, BeginStopMoves DEF Release, IInv, Stoppers
      <4>2. CASE demand # 1
        BY <1>2, <4>2 DEF Release, Goto, Places
      <4> QED BY <4>1, <4>2
    <3> QED BY <1>2, <3>1, Leaves DEF Release
  <2>2. CASE demand = 1
    <3> DEFINE r == task[route]
    <3>1. r # NoRun /\ r \in Runs /\ Home(r) = route /\ run[r] \in Live
      BY <1>t, <2>2 DEF Serves
    <3>2. /\ task' = [task EXCEPT ![route] = NoRun]
          /\ run' = [run EXCEPT ![r] = Cancelled(r)]
      BY <1>2, <2>2, <3>1 DEF Release, BeginStop
    <3>3. task'[route] = NoRun
      BY <1>t, <3>2
    <3>4. run'[r] = Cancelled(r) /\ \A q \in Runs : q # r => run'[q] = run[q]
      BY <1>t, <3>1, <3>2
    <3>5. Cancelled(r) \in Active <=> run[r] \in Active
      BY <3>1 DEF Cancelled, Active, Live
    <3>6. \A q \in Runs : run'[q] \in Active <=> run[q] \in Active
      BY <3>4, <3>5
    <3>7. ReceivingIsTrue'
      BY <2>1, <3>6 DEF Serves, ReceivingIsTrue, Active
    <3> HIDE DEF r
    <3> QED BY <2>1, <2>2, <3>1, <3>3, <3>4, <3>6, <3>7 DEF Serves
  <2>3. CASE demand # 1
    <3>1. UNCHANGED <<task, run>> /\ demand' > 0
      BY <1>t, <1>2, <2>1, <2>3 DEF Release
    <3> QED BY <2>1, <3>1 DEF Serves, ReceivingIsTrue
  <2> QED BY <2>2, <2>3
<1> QED BY <1>1, <1>2 DEF ListenerStep

LEMMA ServesSame ==
    ASSUME Serves, UNCHANGED <<demand, route, task, run, receiving>>
    PROVE  Serves'
BY DEF Serves, ReceivingIsTrue

(* While the backend is not swapped and the card does not die, the pump of *)
(* the routes runs exactly while somebody listens, and the arbiter's mark  *)
(* follows it, for any number of listeners and of overlapping stops.       *)
THEOREM DemandStartsAndStops ==
    ASSUME "read_raises" \notin Faults
    PROVE  ListenSpec => [](ReaderFollowsDemand /\ ReceivingIsTrue)
<1> DEFINE Inv == IInv /\ Serves
<1>1. Init => Inv
  BY InitIInv, ServesInit
<1>2. Inv /\ [ListenNext]_vars => Inv'
  <2> SUFFICES ASSUME Inv, [ListenNext]_vars PROVE Serves'
    BY ListenKeeps
  <2>1. CASE \E r \in Runs : RunStep(r)
    BY <2>1, ServesRun
  <2>2. CASE \E l \in Listeners : ListenerStep(l)
    BY <2>2, ServesListener
  <2>3. CASE \E s \in Stoppers : StopStep(s)
    BY <2>3, ServesSame DEF StopStep, Joined, Drained
  <2>4. CASE UNCHANGED vars
    BY <2>4, ServesSame DEF vars
  <2> QED BY <2>1, <2>2, <2>3, <2>4 DEF ListenNext
<1>3. Inv => ReaderFollowsDemand /\ ReceivingIsTrue
  BY ServesIsUseful
<1> QED BY <1>1, <1>2, <1>3, PTL DEF ListenSpec

\* The receiving mark of the arbiter, which the transmit side asks before it
\* keys, follows the reader, whatever listeners come and go.
COROLLARY ReceivingIsKnown ==
    ASSUME "read_raises" \notin Faults
    PROVE  ListenSpec => []ReceivingIsTrue
<1>1. ListenSpec => [](ReaderFollowsDemand /\ ReceivingIsTrue)
  BY DemandStartsAndStops
<1> QED BY <1>1, PTL
=============================================================================
