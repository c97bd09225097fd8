---------------------------- MODULE StationParts ----------------------------
(***************************************************************************)
(* The radios' parts of the station, and what is proved of each one, for   *)
(* every value of its constants: the UV-K5 alone and docked behind an      *)
(* AIOC, the kv4p HT.                                                      *)
(*                                                                         *)
(* A sentinel (nobody, none) and a switch between two sources of the model *)
(* (PacerOverlaps) is a value here, no constant.                           *)
(***************************************************************************)
EXTENDS Station, TLAPS, FiniteSetTheorems

-----------------------------------------------------------------------------
(* Uvk5Wire: the serial link to a UV-K5 dock. *)

CONSTANTS
    WireCallers, WireRepairers, WireRegisters, WireMaxHandles, WireMaxAsked,
    WireFaults

Wire == INSTANCE Uvk5Wire WITH
    Callers <- WireCallers, Repairers <- WireRepairers, Registers <- WireRegisters,
    MaxHandles <- WireMaxHandles, MaxAsked <- WireMaxAsked, NoCaller <- "nobody",
    WireFaults <- WireFaults,
    port <- c1, opened <- c2, stopped <- c3, readers <- c4, wire <- c5,
    listed <- c6, call <- c7, line <- c8, asked <- c9, repair <- c10, closing <- c11

LEMMA WireCountAlike == \A S : Wire!Cardinality(S) = Cardinality(S)
  BY DEF Wire!Cardinality, Cardinality

LEMMA WireShedInTwo ==
    /\ Wire!StragglersAreShed <=> Wire!Current /\ Wire!Blamed
    /\ Wire!StragglersAreShed' <=> Wire!Current' /\ Wire!Blamed'
BY DEF Wire!StragglersAreShed, Wire!Current, Wire!Blamed

LEMMA WireCallsKeep ==
    ASSUME Wire!WireAssumption, Wire!Calls, Wire!TypedPort, Wire!Current, NEW c \in WireCallers,
           Wire!CallSteps(c) \/ \E reg \in WireRegisters : Wire!Wants(c, reg)
    PROVE  Wire!Calls' /\ Wire!Current'
<1> USE DEF Wire!WireAssumption, Wire!Calls, Wire!TypedPort, Wire!TypedCalls, Wire!Clean, Wire!WireHolderAsks, Wire!Current, Wire!Idle, Wire!portVars
<1>1. ASSUME NEW reg \in WireRegisters, Wire!Wants(c, reg)
      PROVE  Wire!Calls' /\ Wire!Current'
  BY <1>1, ZenonT(60) DEF Wire!Wants
<1>2. CASE Wire!GivesUp(c)
  BY <1>2 DEF Wire!GivesUp
<1>3. CASE Wire!Takes(c)
  BY <1>3, SMTT(30) DEF Wire!Takes
<1>4. CASE Wire!Sends(c)
  <2>1. /\ c7' = [c7 EXCEPT ![c].pc = "waiting", ![c].question = c9 + 1]
        /\ c9' = c9 + 1 /\ UNCHANGED <<c1, c5, c6>>
        /\ c7[c].pc = "sending"
    BY <1>4 DEF Wire!Sends
  <2>2. c8' \subseteq Wire!Replies
    <3>1. c8 \subseteq Wire!Replies /\ c7[c].register \in WireRegisters \cup {"nobody"}
      OBVIOUS
    <3>2. c9 + 1 \in Nat /\ c1.handle \in Nat
      BY DEF Wire!Handles
    <3> QED
      BY <1>4, <3>1, <3>2 DEF Wire!Sends, Wire!Replies
  <2>3. c7' \in [WireCallers -> [pc : {"idle", "wanting", "sending", "waiting"},
                               register : WireRegisters \cup {"nobody"},
                               question : Nat, got : Wire!Replies \cup {Wire!NoAnswer}]]
    <3>1. c9 + 1 \in Nat
      OBVIOUS
    <3> HIDE DEF Wire!WireAssumption, Wire!Clean, Wire!WireHolderAsks, Wire!Current, Wire!TypedPort
    <3> QED
      BY <2>1, <3>1, ZenonT(60)
  <2>4. Wire!Clean' /\ Wire!WireHolderAsks' /\ Wire!Current'
    BY <2>1
  <2> QED
    BY <2>1, <2>2, <2>3, <2>4
<1>5. CASE Wire!SendRaises(c) \/ Wire!Answered(c) \/ Wire!WaitRaises(c)
  BY <1>5 DEF Wire!SendRaises, Wire!Answered, Wire!WaitRaises, Wire!Frees
<1>6. CASE Wire!ProbesAgain(c)
  BY <1>6 DEF Wire!ProbesAgain, Wire!Frees
<1> QED
  BY <1>1, <1>2, <1>3, <1>4, <1>5, <1>6 DEF Wire!CallSteps

\* What a reader of the current generation hands out is of the current handle.
LEMMA WireReadsKeep ==
    ASSUME Wire!WireAssumption, Wire!IInv, NEW i \in Wire!Handles, NEW a \in c8, Wire!Reads(i, a)
    PROVE  Wire!Calls' /\ Wire!Current'
<1>1. /\ UNCHANGED <<c1, c5, c6, c9>> /\ c8' \subseteq c8
      /\ a \in Wire!Replies /\ a.handle = c4[i].handle /\ i \in Wire!Spawned
  BY DEF Wire!Reads, Wire!portVars, Wire!IInv, Wire!Calls, Wire!TypedCalls, Wire!Spawned
<1>2. CASE c7' = c7
  BY <1>1, <1>2, WireShedInTwo DEF Wire!IInv, Wire!Calls, Wire!TypedCalls, Wire!Clean, Wire!WireHolderAsks, Wire!Current
<1>3. ASSUME c4[i].gen = c1.gen, NEW c \in c6, c7' = [c7 EXCEPT ![c].got = a]
      PROVE  Wire!Calls' /\ Wire!Current'
  <2>1. a.handle = c1.handle
    BY <1>1, <1>3 DEF Wire!IInv, Wire!Port, Wire!Numbered
  <2>2. Wire!Calls'
    BY <1>1, <1>3 DEF Wire!IInv, Wire!Calls, Wire!TypedCalls, Wire!Clean, Wire!WireHolderAsks
  <2>3. Wire!Current
    BY WireShedInTwo DEF Wire!IInv
  <2>4. Wire!Current'
    BY <1>1, <1>3, <2>1, <2>3 DEF Wire!Current, Wire!IInv, Wire!Calls, Wire!TypedCalls
  <2> QED
    BY <2>2, <2>4
<1> QED
  BY <1>2, <1>3 DEF Wire!Reads, Wire!Dispatch

\* A reader ends.
LEMMA WireReadersKeep ==
    ASSUME Wire!IInv, NEW i \in Wire!Handles, Wire!ReadRaises(i) \/ Wire!ReaderLeaves(i)
    PROVE  Wire!IInv'
<1>1. PICK error \in BOOLEAN :
          /\ c4[i].st = "running"
          /\ c4' = [c4 EXCEPT ![i].st = "over"]
          /\ c1' = [c1 EXCEPT !.error = error]
          /\ error => c1.error \/ c4[i].gen = c1.gen
  <2>1. CASE Wire!ReadRaises(i)
    BY <2>1 DEF Wire!ReadRaises, Wire!IInv, Wire!Port, Wire!TypedPort
  <2>2. CASE Wire!ReaderLeaves(i)
    <3>1. c1 = [c1 EXCEPT !.error = c1.error] /\ c1.error \in BOOLEAN
      BY DEF Wire!IInv, Wire!Port, Wire!TypedPort
    <3> QED
      BY <2>2, <3>1 DEF Wire!ReaderLeaves
  <2> QED
    BY <2>1, <2>2
<1>2. UNCHANGED <<c10, Wire!callVars>>
  BY DEF Wire!ReadRaises, Wire!ReaderLeaves
<1>3. Wire!Spawned' = Wire!Spawned /\ i \in Wire!Spawned
  BY <1>1 DEF Wire!Spawned, Wire!IInv, Wire!Port, Wire!TypedPort
<1>4. Wire!Port'
  BY <1>1, <1>2, <1>3, SMTT(30) DEF Wire!IInv, Wire!Port, Wire!TypedPort, Wire!Numbered, Wire!InOrder, Wire!Spawned
<1>5. Wire!Calls' /\ Wire!Current'
  BY <1>1, <1>2, WireShedInTwo
  DEF Wire!IInv, Wire!Calls, Wire!TypedCalls, Wire!Clean, Wire!WireHolderAsks, Wire!Current, Wire!callVars, Wire!Port, Wire!TypedPort
<1>6. Wire!Blamed'
  BY <1>1, <1>3, WireShedInTwo DEF Wire!IInv, Wire!Port, Wire!TypedPort, Wire!Blamed, Wire!Spawned
<1> QED
  BY <1>4, <1>5, <1>6, WireShedInTwo DEF Wire!IInv

LEMMA WireRepairsKeep ==
    ASSUME Wire!WireAssumption, Wire!IInv, NEW r \in WireRepairers,
           Wire!Reconnect(r) \/ Wire!ReopenRaises(r) \/ Wire!Installs(r) \/ Wire!Spawns(r)
    PROVE  Wire!IInv'
<1>1. CASE Wire!Reconnect(r) \/ Wire!ReopenRaises(r)
  BY <1>1 DEF Wire!Reconnect, Wire!ReopenRaises, Wire!callVars, Wire!IInv, Wire!Calls, Wire!TypedCalls, Wire!Clean,
         Wire!WireHolderAsks, Wire!Port, Wire!TypedPort, Wire!Numbered, Wire!InOrder, Wire!Spawned, Wire!StragglersAreShed
<1>2. CASE Wire!Installs(r)
  <2>1. /\ UNCHANGED <<c4, c5, c7, c8, c9>> /\ c6' = {}
        /\ c1'.gen = c1.gen + 1 /\ c1'.handle = c1.gen + 1 /\ ~c1'.error
    BY <1>2 DEF Wire!Installs, Wire!IInv, Wire!Port, Wire!TypedPort
  <2>2. Wire!TypedPort'
    <3>1. c1.gen + 1 \in Wire!Handles
      BY <1>2 DEF Wire!Installs, Wire!WireAssumption, Wire!IInv, Wire!Port, Wire!TypedPort, Wire!Handles
    <3>2. c1' \in [closed : BOOLEAN, error : BOOLEAN, gen : Wire!Handles, handle : Wire!Handles,
                     reader : Nat]
      BY <1>2, <3>1 DEF Wire!Installs, Wire!IInv, Wire!Port, Wire!TypedPort
    <3> QED
      BY <1>2, <3>2 DEF Wire!Installs, Wire!IInv, Wire!Port, Wire!TypedPort
  <2>3. Wire!Calls'
    BY <2>1 DEF Wire!IInv, Wire!Calls, Wire!TypedCalls, Wire!Clean, Wire!WireHolderAsks
  <2>4. Wire!Numbered' /\ Wire!InOrder'
    BY <2>1, SMTT(30) DEF Wire!IInv, Wire!Port, Wire!TypedPort, Wire!Numbered, Wire!InOrder, Wire!Spawned, Wire!Handles
  <2>5. Wire!StragglersAreShed'
    BY <2>1 DEF Wire!StragglersAreShed
  <2> QED
    BY <2>2, <2>3, <2>4, <2>5 DEF Wire!IInv, Wire!Port
<1>3. CASE Wire!Spawns(r)
  <2>1. PICK k \in 0 .. WireMaxHandles : Wire!Spawned = 1 .. k
    BY DEF Wire!IInv, Wire!Port, Wire!InOrder
  <2>2. Cardinality(Wire!Spawned) = k
    BY <2>1, FS_Interval, WireCountAlike DEF Wire!WireAssumption
  <2>3. /\ c4' = [c4 EXCEPT ![k + 1] =
              [gen |-> c1.gen, handle |-> c1.handle, st |-> "running"]]
        /\ c1' = [c1 EXCEPT !.reader = k + 1]
        /\ UNCHANGED Wire!callVars
    BY <1>3, <2>2, WireCountAlike DEF Wire!Spawns
  <2>4. Wire!TypedPort'
    <3>1. /\ c1 \in [closed : BOOLEAN, error : BOOLEAN, gen : Wire!Handles, handle : Wire!Handles,
                       reader : Nat]
          /\ c1.gen \in Nat /\ c1.handle \in Nat /\ k + 1 \in Nat
      BY DEF Wire!IInv, Wire!Port, Wire!TypedPort, Wire!Handles
    <3>2. c1' \in [closed : BOOLEAN, error : BOOLEAN, gen : Wire!Handles, handle : Wire!Handles,
                     reader : Nat]
      BY <2>3, <3>1
    <3>3. c4' \in [Wire!Handles -> [gen : Nat, handle : Nat, st : {"unborn", "running", "over"}]]
      BY <2>3, <3>1 DEF Wire!IInv, Wire!Port, Wire!TypedPort
    <3> QED
      BY <1>3, <3>2, <3>3 DEF Wire!Spawns, Wire!IInv, Wire!Port, Wire!TypedPort
  <2>5. \A i \in Wire!Handles \ {k + 1} : c4'[i] = c4[i]
    BY <2>3 DEF Wire!IInv, Wire!Port, Wire!TypedPort
  <2>6. k + 1 \in Wire!Handles => c4'[k + 1] =
            [gen |-> c1.gen, handle |-> c1.handle, st |-> "running"]
    BY <2>3 DEF Wire!IInv, Wire!Port, Wire!TypedPort
  <2>7. k + 1 \notin Wire!Spawned
    BY <2>1
  <2>8. Wire!InOrder'
    <3>1. CASE k + 1 \in Wire!Handles
      <4>1. Wire!Spawned' = 1 .. k + 1
        BY <2>1, <2>5, <2>6, <3>1 DEF Wire!Spawned, Wire!Handles
      <4> QED
        BY <3>1, <4>1 DEF Wire!InOrder, Wire!Handles
    <3>2. CASE k + 1 \notin Wire!Handles
      <4>1. Wire!Spawned' = Wire!Spawned
        BY <2>5, <3>2 DEF Wire!Spawned
      <4> QED
        BY <2>1, <4>1 DEF Wire!InOrder
    <3> QED
      BY <3>1, <3>2
  <2>9. Wire!Numbered'
    BY <2>3, <2>5, <2>6 DEF Wire!IInv, Wire!Port, Wire!TypedPort, Wire!Numbered, Wire!Spawned, Wire!Handles
  <2>10. Wire!Calls'
    BY <2>3 DEF Wire!IInv, Wire!Calls, Wire!TypedCalls, Wire!Clean, Wire!WireHolderAsks, Wire!callVars
  <2>11. Wire!Current' /\ Wire!Blamed'
    BY <2>3, <2>5, <2>7, WireShedInTwo
    DEF Wire!IInv, Wire!Port, Wire!TypedPort, Wire!callVars, Wire!Current, Wire!Blamed, Wire!Spawned
  <2> QED
    BY <2>4, <2>8, <2>9, <2>10, <2>11, WireShedInTwo DEF Wire!IInv, Wire!Port
<1> QED
  BY <1>1, <1>2, <1>3

LEMMA WireRestKeeps ==
    ASSUME Wire!IInv,
           \/ Wire!CloseBegins \/ Wire!CloseStops \/ Wire!CloseEnds
           \/ \E a \in c8 : Wire!ReplyLost(a)
           \/ UNCHANGED Wire!vars
    PROVE  Wire!IInv'
<1>1. \/ /\ UNCHANGED <<Wire!callVars, c4, c10>>
         /\ c1' = c1 \/ c1' = [c1 EXCEPT !.closed = TRUE]
      \/ \E a \in c8 : Wire!ReplyLost(a)
  BY DEF Wire!CloseBegins, Wire!CloseStops, Wire!CloseEnds, Wire!vars, Wire!callVars
<1>2. CASE /\ UNCHANGED <<Wire!callVars, c4, c10>>
           /\ c1' = c1 \/ c1' = [c1 EXCEPT !.closed = TRUE]
  <2>1. Wire!TypedPort'
    BY <1>2 DEF Wire!IInv, Wire!Port, Wire!TypedPort
  <2>2. c1'.gen = c1.gen /\ c1'.handle = c1.handle /\ c1'.error = c1.error
    BY <1>2 DEF Wire!IInv, Wire!Port, Wire!TypedPort
  <2>3. Wire!Calls'
    BY <1>2 DEF Wire!IInv, Wire!Calls, Wire!TypedCalls, Wire!Clean, Wire!WireHolderAsks, Wire!callVars
  <2>4. Wire!Numbered' /\ Wire!InOrder'
    BY <1>2, <2>2 DEF Wire!IInv, Wire!Port, Wire!Numbered, Wire!InOrder, Wire!Spawned
  <2>5. Wire!StragglersAreShed'
    BY <1>2, <2>2 DEF Wire!IInv, Wire!StragglersAreShed, Wire!Spawned, Wire!callVars
  <2> QED
    BY <2>1, <2>3, <2>4, <2>5 DEF Wire!IInv, Wire!Port
<1>3. ASSUME NEW a \in c8, Wire!ReplyLost(a)
      PROVE  Wire!IInv'
  <2>1. Wire!Calls'
    BY <1>3 DEF Wire!ReplyLost, Wire!IInv, Wire!Calls, Wire!TypedCalls, Wire!Clean, Wire!WireHolderAsks
  <2>2. Wire!Port'
    BY <1>3 DEF Wire!ReplyLost, Wire!portVars, Wire!IInv, Wire!Port, Wire!TypedPort, Wire!Numbered, Wire!InOrder, Wire!Spawned
  <2>3. Wire!StragglersAreShed'
    BY <1>3 DEF Wire!ReplyLost, Wire!portVars, Wire!IInv, Wire!StragglersAreShed, Wire!Spawned
  <2> QED
    BY <2>1, <2>2, <2>3 DEF Wire!IInv
<1> QED
  BY <1>1, <1>2, <1>3

LEMMA WireStepKeeps ==
    ASSUME Wire!WireAssumption, Wire!IInv, [Wire!Next]_(Wire!vars)
    PROVE  Wire!IInv'
<1>1. ASSUME UNCHANGED Wire!portVars, Wire!Calls', Wire!Current'
      PROVE  Wire!IInv'
  <2>1. Wire!Port' /\ Wire!Blamed'
    BY <1>1, WireShedInTwo
    DEF Wire!portVars, Wire!IInv, Wire!Port, Wire!TypedPort, Wire!Numbered, Wire!InOrder, Wire!Spawned, Wire!Blamed
  <2> QED
    BY <1>1, <2>1, WireShedInTwo DEF Wire!IInv
<1>2. ASSUME NEW c \in WireCallers, Wire!CallSteps(c) \/ \E reg \in WireRegisters : Wire!Wants(c, reg)
      PROVE  Wire!IInv'
  <2>1. UNCHANGED Wire!portVars
    BY <1>2 DEF Wire!CallSteps, Wire!Wants, Wire!GivesUp, Wire!Takes, Wire!Sends, Wire!SendRaises, Wire!Answered, Wire!WaitRaises,
           Wire!ProbesAgain
  <2>2. Wire!Calls' /\ Wire!Current'
    BY <1>2, WireCallsKeep, WireShedInTwo DEF Wire!IInv, Wire!Port
  <2> QED
    BY <1>1, <2>1, <2>2
<1>3. ASSUME NEW i \in Wire!Handles, NEW a \in c8, Wire!Reads(i, a)
      PROVE  Wire!IInv'
  <2>1. UNCHANGED Wire!portVars
    BY <1>3 DEF Wire!Reads
  <2> QED
    BY <1>1, <1>3, <2>1, WireReadsKeep
<1> QED
  BY <1>2, <1>3, WireReadersKeep, WireRepairsKeep, WireRestKeeps DEF Wire!Next

LEMMA WireInitGood ==
    ASSUME Wire!WireAssumption, Wire!Init
    PROVE  Wire!IInv
<1>1. Wire!Calls
  BY DEF Wire!Init, Wire!Calls, Wire!TypedCalls, Wire!Clean, Wire!WireHolderAsks, Wire!Idle, Wire!WireAssumption
<1>2. Wire!TypedPort /\ Wire!Numbered
  BY DEF Wire!Init, Wire!TypedPort, Wire!Numbered, Wire!Unborn, Wire!Spawned, Wire!Handles, Wire!WireAssumption
<1>3. Wire!Spawned = 1 .. 1
  BY DEF Wire!Init, Wire!Spawned, Wire!Unborn, Wire!Handles, Wire!WireAssumption
<1>4. Wire!InOrder
  BY <1>3 DEF Wire!InOrder, Wire!WireAssumption
<1>5. Wire!StragglersAreShed
  BY DEF Wire!Init, Wire!StragglersAreShed
<1> QED
  BY <1>1, <1>2, <1>4, <1>5 DEF Wire!IInv, Wire!Port

(* A reader that has been superseded serves nobody and blames nobody, and  *)
(* only the holder of the wire has a frame out: for any number of callers, *)
(* of threads that reconnect, of openings, and whatever is lost or pulled. *)
THEOREM WireIsOrderly ==
    ASSUME Wire!WireAssumption
    PROVE  Wire!Spec => [](Wire!StragglersAreShed /\ Wire!WireHolderAsks)
<1>1. Wire!IInv => Wire!StragglersAreShed /\ Wire!WireHolderAsks
  BY DEF Wire!IInv, Wire!Calls
<1> QED
  BY <1>1, WireInitGood, WireStepKeeps, PTL DEF Wire!Spec

LEMMA WireAtMostOne ==
    ASSUME NEW S, \A x, y \in S : x = y
    PROVE  Cardinality(S) <= 1
<1>1. CASE S = {}
  BY <1>1, FS_EmptySet, WireCountAlike
<1>2. ASSUME NEW x \in S
      PROVE  Cardinality(S) <= 1
  <2>1. S = {x}
    OBVIOUS
  <2> QED
    BY <2>1, FS_Singleton, WireCountAlike
<1> QED
  BY <1>1, <1>2

LEMMA WireRepairsOwn ==
    ASSUME Wire!WireAssumption, Wire!IInv, Wire!Owned, NEW r \in WireRepairers, \A s \in WireRepairers : s = r,
           Wire!Reconnect(r) \/ Wire!ReopenRaises(r) \/ Wire!Installs(r) \/ Wire!Spawns(r)
    PROVE  Wire!Owned'
<1>1. CASE Wire!Reconnect(r) \/ Wire!ReopenRaises(r)
  BY <1>1 DEF Wire!Reconnect, Wire!ReopenRaises, Wire!Owned, Wire!Spawned, Wire!IInv, Wire!Port, Wire!TypedPort
<1>2. CASE Wire!Installs(r)
  <2>1. /\ c4' = c4 /\ c11 = "no" /\ c11' = "no"
        /\ c1'.gen = c1.gen + 1 /\ c1'.handle = c1.gen + 1 /\ c2' = {c1.gen + 1}
    BY <1>2 DEF Wire!Installs, Wire!Owned, Wire!IInv, Wire!Port, Wire!TypedPort
  <2>2. \A i \in Wire!Spawned' : c4'[i].gen # c1'.gen
    BY <2>1 DEF Wire!IInv, Wire!Port, Wire!TypedPort, Wire!Numbered, Wire!Spawned, Wire!Handles
  <2> QED
    BY <2>1, <2>2 DEF Wire!Owned
<1>3. CASE Wire!Spawns(r)
  <2>1. PICK k \in Nat :
            /\ c4' = [c4 EXCEPT ![k] =
                  [gen |-> c1.gen, handle |-> c1.handle, st |-> "running"]]
            /\ c1' = [c1 EXCEPT !.reader = k]
    <3>1. Cardinality(Wire!Spawned) + 1 \in Nat
      BY FS_Interval, WireCountAlike, SMTT(30) DEF Wire!IInv, Wire!Port, Wire!InOrder, Wire!WireAssumption
    <3> QED
      BY <1>3, <3>1, WireCountAlike DEF Wire!Spawns
  <2>2. \A i \in Wire!Spawned : c4[i].gen # c1.gen
    BY <1>3 DEF Wire!Spawns, Wire!Owned
  <2>3. c1'.gen = c1.gen /\ c1'.handle = c1.handle /\ c1'.closed = c1.closed
    BY <2>1 DEF Wire!IInv, Wire!Port, Wire!TypedPort
  <2>4. \A i \in Wire!Spawned' : i # k => i \in Wire!Spawned /\ c4'[i] = c4[i]
    BY <2>1 DEF Wire!IInv, Wire!Port, Wire!TypedPort, Wire!Spawned
  <2>5. \A s \in WireRepairers : c10'[s] = "idle"
    BY <1>3 DEF Wire!Spawns, Wire!IInv, Wire!Port, Wire!TypedPort
  <2>6. c2' = c2 /\ c11' = c11
    BY <1>3 DEF Wire!Spawns
  <2> QED
    BY <2>2, <2>3, <2>4, <2>5, <2>6 DEF Wire!Owned
<1> QED
  BY <1>1, <1>2, <1>3

LEMMA WireRestOwn ==
    ASSUME Wire!IInv, Wire!Owned, "close_in_reconnect" \notin WireFaults,
           \/ \E i \in Wire!Handles : Wire!ReadRaises(i) \/ Wire!ReaderLeaves(i)
           \/ Wire!CloseBegins \/ Wire!CloseStops \/ Wire!CloseEnds
    PROVE  Wire!Owned'
<1>1. ASSUME NEW i \in Wire!Handles, Wire!ReadRaises(i) \/ Wire!ReaderLeaves(i)
      PROVE  Wire!Owned'
  <2>1. /\ c4' = [c4 EXCEPT ![i].st = "over"] /\ c4[i].st = "running"
        /\ UNCHANGED <<c2, c10, c11>>
    BY <1>1 DEF Wire!ReadRaises, Wire!ReaderLeaves
  <2>2. c1'.gen = c1.gen /\ c1'.handle = c1.handle /\ c1'.closed = c1.closed
    BY <1>1 DEF Wire!ReadRaises, Wire!ReaderLeaves, Wire!IInv, Wire!Port, Wire!TypedPort
  <2>3. Wire!Spawned' = Wire!Spawned /\ \A j \in Wire!Spawned : c4'[j].gen = c4[j].gen
    BY <2>1 DEF Wire!IInv, Wire!Port, Wire!TypedPort, Wire!Spawned
  <2> QED
    BY <2>1, <2>2, <2>3 DEF Wire!Owned
<1>2. CASE Wire!CloseBegins
  BY <1>2 DEF Wire!CloseBegins, Wire!Owned, Wire!Spawned, Wire!IInv, Wire!Port, Wire!TypedPort
<1>3. CASE Wire!CloseStops \/ Wire!CloseEnds
  BY <1>3 DEF Wire!CloseStops, Wire!CloseEnds, Wire!Owned, Wire!Spawned
<1> QED
  BY <1>1, <1>2, <1>3

(* No two readers take bytes off one handle, and nothing is left open after *)
(* a close: with one thread that reconnects, and close not beside it.       *)
THEOREM TtyIsOwned ==
    ASSUME Wire!WireAssumption, \A r, s \in WireRepairers : r = s,
           "close_in_reconnect" \notin WireFaults
    PROVE  Wire!Spec => []Wire!TtyHasOneOwner
<1>1. Wire!Init => Wire!IInv /\ Wire!Owned
  BY WireInitGood DEF Wire!Init, Wire!Owned, Wire!Spawned, Wire!Unborn
<1>2. Wire!IInv /\ Wire!Owned /\ [Wire!Next]_(Wire!vars) => Wire!IInv' /\ Wire!Owned'
  <2> SUFFICES ASSUME Wire!IInv, Wire!Owned, [Wire!Next]_(Wire!vars)
               PROVE  Wire!Owned'
    BY WireStepKeeps
  <2>1. CASE UNCHANGED Wire!portVars
    BY <2>1 DEF Wire!portVars, Wire!Owned, Wire!Spawned
  <2>2. CASE \/ \E c \in WireCallers : Wire!CallSteps(c) \/ \E reg \in WireRegisters : Wire!Wants(c, reg)
             \/ \E i \in Wire!Handles, a \in c8 : Wire!Reads(i, a)
             \/ \E a \in c8 : Wire!ReplyLost(a)
             \/ UNCHANGED Wire!vars
    BY <2>1, <2>2 DEF Wire!CallSteps, Wire!Wants, Wire!GivesUp, Wire!Takes, Wire!Sends, Wire!SendRaises, Wire!Answered, Wire!WaitRaises,
           Wire!ProbesAgain, Wire!Reads, Wire!ReplyLost, Wire!vars, Wire!portVars
  <2> QED
    BY <2>2, WireRepairsOwn, WireRestOwn DEF Wire!Next
<1>3. Wire!IInv /\ Wire!Owned => Wire!TtyHasOneOwner
  <2> SUFFICES ASSUME Wire!IInv, Wire!Owned
               PROVE  Wire!TtyHasOneOwner
    OBVIOUS
  <2>1. \A S : (\A x, y \in S : x = y) => Cardinality(S) <= 1
    BY WireAtMostOne
  <2> QED
    BY <2>1, WireCountAlike DEF Wire!Owned, Wire!TtyHasOneOwner
<1> QED
  BY <1>1, <1>2, <1>3, PTL DEF Wire!Spec

-----------------------------------------------------------------------------
(* DockTuner: the channel of a docked UV-K5 behind an AIOC. *)

CONSTANTS
    NoImage,  \* a model value
    TunerFreqs, TunerTones, TunerRoutes, TunerMaxFaults, TunerDockFaults

Tuner == INSTANCE DockTuner WITH
    Freqs <- TunerFreqs, Tones <- TunerTones, NoImage <- NoImage,
    Routes <- TunerRoutes, MaxFaults <- TunerMaxFaults,
    DockFaults <- TunerDockFaults, Overlaps <- FALSE,
    radio <- c1, host <- c2, line <- c3, key <- c4, route <- c5, touched <- c6,
    faults <- c7

LEMMA TunerRequestsWait ==
    ASSUME TunerTones # {}, Tuner!IInv, NEW t \in TunerRoutes,
           \/ \E hz \in TunerFreqs : Tuner!SetFrequency(t, hz)
           \/ \E tone \in TunerTones : Tuner!SetTone(t, tone)
           \/ \E on \in BOOLEAN : Tuner!SetTunePersist(t, on)
           \/ Tuner!Commit(t) \/ Tuner!Apply(t) \/ Tuner!Store(t) \/ Tuner!Restore(t)
    PROVE  Tuner!IInv'
<1>1. ASSUME NEW image \in Tuner!Images, Tuner!Stages(t, image)
      PROVE  Tuner!IInv'
  BY <1>1 DEF Tuner!Stages, Tuner!Free, Tuner!IInv, Tuner!Typed, Tuner!TypedRadio, Tuner!TypedHost, Tuner!TypedRoutes, Tuner!RoutesWait, Tuner!Awaited, Tuner!OnChannel, Tuner!Listened,
         Tuner!Modulated, Tuner!Parked, Tuner!Maybe, Tuner!Images, Tuner!KeySteps
<1>2. ASSUME NEW hz \in TunerFreqs, Tuner!SetFrequency(t, hz)
      PROVE  Tuner!IInv'
  <2>1. Tuner!Staged \in Tuner!Maybe
    BY DEF Tuner!Staged, Tuner!IInv, Tuner!Typed, Tuner!TypedHost
  <2>2. PICK image \in Tuner!Images : Tuner!Stages(t, image)
    BY <1>2, <2>1 DEF Tuner!SetFrequency, Tuner!Maybe, Tuner!Images
  <2> QED
    BY <2>2, <1>1
<1>3. ASSUME NEW tone \in TunerTones, Tuner!SetTone(t, tone)
      PROVE  Tuner!IInv'
  <2>1. Tuner!Staged \in Tuner!Maybe
    BY DEF Tuner!Staged, Tuner!IInv, Tuner!Typed, Tuner!TypedHost
  <2>2. PICK image \in Tuner!Images : Tuner!Stages(t, image)
    BY <1>3, <2>1 DEF Tuner!SetTone, Tuner!Maybe, Tuner!Images
  <2> QED
    BY <2>2, <1>1
<1>4. ASSUME NEW on \in BOOLEAN, Tuner!SetTunePersist(t, on)
      PROVE  Tuner!IInv'
  BY <1>4 DEF Tuner!SetTunePersist, Tuner!Free, Tuner!IInv, Tuner!Typed, Tuner!TypedRadio, Tuner!TypedHost, Tuner!TypedRoutes, Tuner!RoutesWait, Tuner!Awaited, Tuner!OnChannel,
         Tuner!Listened, Tuner!Modulated, Tuner!Parked, Tuner!Maybe, Tuner!Images, Tuner!KeySteps
<1>5. CASE Tuner!Commit(t)
  BY <1>5 DEF Tuner!Commit, Tuner!Leaves, Tuner!IInv, Tuner!Typed, Tuner!TypedRadio, Tuner!TypedHost, Tuner!TypedRoutes, Tuner!RoutesWait, Tuner!Awaited, Tuner!OnChannel,
         Tuner!Listened, Tuner!Modulated, Tuner!Parked, Tuner!Maybe, Tuner!Images, Tuner!KeySteps
<1>6. CASE Tuner!Apply(t)
  <2>1. Tuner!Typed'
    <3>1. Tuner!TypedRadio'
      BY <1>6 DEF Tuner!IInv, Tuner!Typed, Tuner!TypedRadio, Tuner!TypedRoutes, Tuner!Apply, Tuner!Done, Tuner!Leaves, Tuner!Answered, Tuner!Lost, Tuner!Fault, Tuner!Parked, Tuner!Maybe, Tuner!Images
    <3>2. Tuner!TypedHost'
      BY <1>6 DEF Tuner!IInv, Tuner!Typed, Tuner!TypedHost, Tuner!TypedRoutes, Tuner!Apply, Tuner!Done, Tuner!Leaves, Tuner!Answered, Tuner!Lost, Tuner!Fault, Tuner!Parked, Tuner!Maybe, Tuner!Images
    <3>3. Tuner!TypedRoutes'
      BY <1>6 DEF Tuner!IInv, Tuner!Typed, Tuner!TypedRoutes, Tuner!TypedHost, Tuner!Apply, Tuner!Done, Tuner!Leaves, Tuner!Answered, Tuner!Lost, Tuner!Fault, Tuner!Parked, Tuner!Maybe, Tuner!Images
    <3> QED
      BY <1>6, <3>1, <3>2, <3>3 DEF Tuner!IInv, Tuner!Typed, Tuner!Apply
  <2>2. Tuner!RoutesWait'
    BY <1>6 DEF Tuner!IInv, Tuner!Typed, Tuner!TypedRadio, Tuner!TypedHost, Tuner!TypedRoutes, Tuner!Apply, Tuner!Done, Tuner!Leaves, Tuner!Touch, Tuner!Keying, Tuner!Answered, Tuner!Lost,
           Tuner!Fault, Tuner!Parked, Tuner!RoutesWait
  <2>3. Tuner!Awaited'
    BY <1>6 DEF Tuner!IInv, Tuner!Typed, Tuner!TypedRadio, Tuner!TypedHost, Tuner!TypedRoutes, Tuner!Apply, Tuner!Done, Tuner!Leaves, Tuner!Touch, Tuner!Keying, Tuner!Answered, Tuner!Lost,
           Tuner!Fault, Tuner!Parked, Tuner!Awaited
  <2>4. Tuner!OnChannel'
    BY <1>6 DEF Tuner!IInv, Tuner!Typed, Tuner!TypedRadio, Tuner!TypedHost, Tuner!TypedRoutes, Tuner!Apply, Tuner!Done, Tuner!Leaves, Tuner!Touch, Tuner!Keying, Tuner!Answered, Tuner!Lost,
           Tuner!Fault, Tuner!Parked, Tuner!OnChannel, Tuner!RoutesWait
  <2>5. Tuner!Listened'
    BY <1>6 DEF Tuner!IInv, Tuner!Typed, Tuner!TypedRadio, Tuner!TypedHost, Tuner!TypedRoutes, Tuner!Apply, Tuner!Done, Tuner!Leaves, Tuner!Touch, Tuner!Keying, Tuner!Answered, Tuner!Lost,
           Tuner!Fault, Tuner!Parked, Tuner!Listened, Tuner!RoutesWait
  <2>6. Tuner!Modulated'
    BY <1>6 DEF Tuner!IInv, Tuner!Typed, Tuner!TypedRadio, Tuner!TypedHost, Tuner!TypedRoutes, Tuner!Apply, Tuner!Done, Tuner!Leaves, Tuner!Touch, Tuner!Keying, Tuner!Answered, Tuner!Lost,
           Tuner!Fault, Tuner!Parked, Tuner!Modulated, Tuner!RoutesWait
  <2> QED
    BY <2>1, <2>2, <2>3, <2>4, <2>5, <2>6 DEF Tuner!IInv
<1>7. CASE Tuner!Store(t)
  <2>1. Tuner!Typed'
    <3>1. Tuner!TypedRadio'
      BY <1>7 DEF Tuner!IInv, Tuner!Typed, Tuner!TypedRadio, Tuner!TypedRoutes, Tuner!Store, Tuner!Done, Tuner!Leaves, Tuner!Answered, Tuner!Fault, Tuner!Parked, Tuner!Maybe, Tuner!Images
    <3>2. Tuner!TypedHost'
      BY <1>7 DEF Tuner!IInv, Tuner!Typed, Tuner!TypedHost, Tuner!TypedRoutes, Tuner!Store, Tuner!Done, Tuner!Leaves, Tuner!Answered, Tuner!Fault, Tuner!Parked, Tuner!Maybe, Tuner!Images
    <3>3. Tuner!TypedRoutes'
      BY <1>7 DEF Tuner!IInv, Tuner!Typed, Tuner!TypedRoutes, Tuner!TypedHost, Tuner!Store, Tuner!Done, Tuner!Leaves, Tuner!Answered, Tuner!Fault, Tuner!Parked, Tuner!Maybe, Tuner!Images
    <3> QED
      BY <1>7, <3>1, <3>2, <3>3 DEF Tuner!IInv, Tuner!Typed, Tuner!Store
  <2>2. Tuner!RoutesWait'
    BY <1>7 DEF Tuner!IInv, Tuner!Typed, Tuner!TypedRadio, Tuner!TypedHost, Tuner!TypedRoutes, Tuner!Store, Tuner!Done, Tuner!Leaves, Tuner!Answered, Tuner!Fault, Tuner!Parked, Tuner!RoutesWait
  <2>3. Tuner!Awaited'
    <3>1. ~c3 /\ c3' = c3
      BY <1>7 DEF Tuner!IInv, Tuner!RoutesWait, Tuner!Store
    <3>2. c2'.lockout \/ c1'.mute = "untold"
      BY <1>7 DEF Tuner!IInv, Tuner!Typed, Tuner!TypedHost, Tuner!TypedRadio, Tuner!Store, Tuner!Done, Tuner!Answered, Tuner!Fault
    <3> QED
      BY <3>1, <3>2 DEF Tuner!Awaited
  <2>4. Tuner!OnChannel'
    BY <1>7 DEF Tuner!IInv, Tuner!Typed, Tuner!TypedRadio, Tuner!TypedHost, Tuner!TypedRoutes, Tuner!Store, Tuner!Done, Tuner!Leaves, Tuner!Answered, Tuner!Fault, Tuner!Parked, Tuner!OnChannel, Tuner!RoutesWait
  <2>5. Tuner!Listened'
    BY <1>7 DEF Tuner!IInv, Tuner!Typed, Tuner!TypedRadio, Tuner!TypedHost, Tuner!TypedRoutes, Tuner!Store, Tuner!Done, Tuner!Leaves, Tuner!Answered, Tuner!Fault, Tuner!Parked, Tuner!Listened, Tuner!RoutesWait
  <2>6. Tuner!Modulated'
    BY <1>7 DEF Tuner!IInv, Tuner!Typed, Tuner!TypedRadio, Tuner!TypedHost, Tuner!TypedRoutes, Tuner!Store, Tuner!Done, Tuner!Leaves, Tuner!Answered, Tuner!Fault, Tuner!Parked, Tuner!Modulated, Tuner!RoutesWait
  <2> QED
    BY <2>1, <2>2, <2>3, <2>4, <2>5, <2>6 DEF Tuner!IInv
<1>8. CASE Tuner!Restore(t)
  <2>1. Tuner!Typed'
    <3>1. Tuner!TypedRadio'
      <4>1. PICK boot \in Tuner!Maybe, mute \in {"told", "untold"} :
               c1' = [c1 EXCEPT !.boot = boot, !.mute = mute]
        <5>1. c5[t].image \in Tuner!Maybe /\ c1.boot \in Tuner!Maybe
          BY DEF Tuner!IInv, Tuner!Typed, Tuner!TypedRoutes, Tuner!TypedRadio
        <5>2. CASE Tuner!Answered([c1 EXCEPT !.boot = c5[t].image, !.mute = "told"])
          BY <5>1, <5>2 DEF Tuner!Answered
        <5>3. CASE c1' = [c1 EXCEPT !.mute = "untold"]
          <6>1. c1' = [c1 EXCEPT !.boot = c1.boot, !.mute = "untold"]
            BY <5>3 DEF Tuner!IInv, Tuner!Typed, Tuner!TypedRadio
          <6> QED
            BY <5>1, <6>1
        <5> QED
          BY <1>8, <5>2, <5>3 DEF Tuner!Restore
      <4> QED
        BY <4>1 DEF Tuner!IInv, Tuner!Typed, Tuner!TypedRadio
    <3>2. Tuner!TypedHost'
      BY <1>8 DEF Tuner!IInv, Tuner!Typed, Tuner!TypedHost, Tuner!TypedRoutes, Tuner!Restore, Tuner!Leaves, Tuner!Answered, Tuner!Fault, Tuner!Parked, Tuner!Maybe, Tuner!Images
    <3>3. Tuner!TypedRoutes'
      BY <1>8 DEF Tuner!IInv, Tuner!Typed, Tuner!TypedRoutes, Tuner!TypedHost, Tuner!Restore, Tuner!Leaves, Tuner!Answered, Tuner!Fault, Tuner!Parked, Tuner!Maybe, Tuner!Images
    <3> QED
      BY <1>8, <3>1, <3>2, <3>3 DEF Tuner!IInv, Tuner!Typed, Tuner!Restore
  <2>2. Tuner!RoutesWait'
    BY <1>8 DEF Tuner!IInv, Tuner!Typed, Tuner!TypedRadio, Tuner!TypedHost, Tuner!TypedRoutes, Tuner!Restore, Tuner!Leaves, Tuner!Answered, Tuner!Fault, Tuner!Parked, Tuner!RoutesWait
  <2>3. Tuner!Awaited'
    <3>1. ~c3 /\ c3' = c3
      BY <1>8 DEF Tuner!IInv, Tuner!RoutesWait, Tuner!Restore
    <3>2. c2'.lockout \/ c1'.mute = "untold"
      BY <1>8 DEF Tuner!IInv, Tuner!Typed, Tuner!TypedHost, Tuner!TypedRadio, Tuner!Restore, Tuner!Done, Tuner!Answered, Tuner!Fault
    <3> QED
      BY <3>1, <3>2 DEF Tuner!Awaited
  <2>4. Tuner!OnChannel'
    BY <1>8 DEF Tuner!IInv, Tuner!Typed, Tuner!TypedRadio, Tuner!TypedHost, Tuner!TypedRoutes, Tuner!Restore, Tuner!Leaves, Tuner!Answered, Tuner!Fault, Tuner!Parked, Tuner!OnChannel, Tuner!RoutesWait
  <2>5. Tuner!Listened'
    BY <1>8 DEF Tuner!IInv, Tuner!Typed, Tuner!TypedRadio, Tuner!TypedHost, Tuner!TypedRoutes, Tuner!Restore, Tuner!Leaves, Tuner!Answered, Tuner!Fault, Tuner!Parked, Tuner!Listened, Tuner!RoutesWait
  <2>6. Tuner!Modulated'
    BY <1>8 DEF Tuner!IInv, Tuner!Typed, Tuner!TypedRadio, Tuner!TypedHost, Tuner!TypedRoutes, Tuner!Restore, Tuner!Leaves, Tuner!Answered, Tuner!Fault, Tuner!Parked, Tuner!Modulated, Tuner!RoutesWait
  <2> QED
    BY <2>1, <2>2, <2>3, <2>4, <2>5, <2>6 DEF Tuner!IInv
<1> QED
  BY <1>2, <1>3, <1>4, <1>5, <1>6, <1>7, <1>8

LEMMA TunerReceiverKeeps ==
    ASSUME Tuner!IInv,
           \/ Tuner!BootClears \/ \E m \in {"FM", "AM"} : Tuner!StatesModulation(m)
           \/ \E t \in TunerRoutes : Tuner!ClearsOnDemand(t) \/ Tuner!SwitchesOn(t)
    PROVE  Tuner!IInv'
<1>1. CASE Tuner!BootClears
  <2>1. Tuner!Typed'
    <3>1. Tuner!TypedRadio'
      BY <1>1 DEF Tuner!IInv, Tuner!Typed, Tuner!TypedRadio, Tuner!BootClears, Tuner!FmOff, Tuner!Cleared, Tuner!Answered, Tuner!Lost, Tuner!Fault
    <3>2. Tuner!TypedHost'
      BY <1>1 DEF Tuner!IInv, Tuner!Typed, Tuner!TypedHost, Tuner!BootClears, Tuner!FmOff, Tuner!Cleared, Tuner!Answered, Tuner!Lost, Tuner!Fault
    <3>3. Tuner!TypedRoutes'
      BY <1>1 DEF Tuner!IInv, Tuner!Typed, Tuner!TypedRoutes, Tuner!BootClears, Tuner!FmOff, Tuner!Cleared, Tuner!Answered, Tuner!Lost, Tuner!Fault
    <3>4. (c3 \in BOOLEAN /\ c4 \in Tuner!KeySteps \cup {"idle"})'
      BY <1>1 DEF Tuner!IInv, Tuner!Typed, Tuner!TypedHost, Tuner!BootClears, Tuner!KeySteps, Tuner!Answered, Tuner!Lost
    <3> QED
      BY <3>1, <3>2, <3>3, <3>4 DEF Tuner!Typed
  <2>2. Tuner!RoutesWait'
    BY <1>1 DEF Tuner!IInv, Tuner!Typed, Tuner!TypedRadio, Tuner!TypedHost, Tuner!RoutesWait, Tuner!BootClears, Tuner!FmOff, Tuner!Cleared, Tuner!Answered, Tuner!Lost,
           Tuner!Fault
  <2>3. Tuner!Awaited'
    BY <1>1 DEF Tuner!IInv, Tuner!Typed, Tuner!TypedRadio, Tuner!TypedHost, Tuner!Awaited, Tuner!RoutesWait, Tuner!BootClears, Tuner!FmOff, Tuner!Cleared, Tuner!Answered,
           Tuner!Lost, Tuner!Fault
  <2>4. Tuner!OnChannel'
    BY <1>1 DEF Tuner!IInv, Tuner!Typed, Tuner!TypedRadio, Tuner!TypedHost, Tuner!OnChannel, Tuner!RoutesWait, Tuner!BootClears, Tuner!FmOff, Tuner!Cleared, Tuner!Answered,
           Tuner!Lost, Tuner!Fault
  <2>5. Tuner!Listened'
    BY <1>1 DEF Tuner!IInv, Tuner!Typed, Tuner!TypedRadio, Tuner!TypedHost, Tuner!Listened, Tuner!RoutesWait, Tuner!BootClears, Tuner!FmOff, Tuner!Cleared, Tuner!Answered,
           Tuner!Lost, Tuner!Fault
  <2>6. Tuner!Modulated'
    BY <1>1 DEF Tuner!IInv, Tuner!Typed, Tuner!TypedRadio, Tuner!TypedHost, Tuner!Modulated, Tuner!RoutesWait, Tuner!BootClears, Tuner!FmOff, Tuner!Cleared, Tuner!Answered,
           Tuner!Lost, Tuner!Fault
  <2> QED
    BY <2>1, <2>2, <2>3, <2>4, <2>5, <2>6 DEF Tuner!IInv
<1>2. ASSUME NEW m \in {"FM", "AM"}, Tuner!StatesModulation(m)
      PROVE  Tuner!IInv'
  <2>1. Tuner!Typed'
    <3>1. Tuner!TypedRadio'
      BY <1>2 DEF Tuner!IInv, Tuner!Typed, Tuner!TypedRadio, Tuner!StatesModulation, Tuner!Touch, Tuner!Keying, Tuner!Answered, Tuner!Lost, Tuner!Fault
    <3>2. Tuner!TypedHost'
      BY <1>2 DEF Tuner!IInv, Tuner!Typed, Tuner!TypedHost, Tuner!StatesModulation, Tuner!Touch, Tuner!Keying, Tuner!Answered, Tuner!Lost, Tuner!Fault
    <3>3. Tuner!TypedRoutes'
      BY <1>2 DEF Tuner!IInv, Tuner!Typed, Tuner!TypedRoutes, Tuner!StatesModulation, Tuner!Touch, Tuner!Keying, Tuner!Answered, Tuner!Lost, Tuner!Fault
    <3>4. (c3 \in BOOLEAN /\ c4 \in Tuner!KeySteps \cup {"idle"})'
      BY <1>2 DEF Tuner!IInv, Tuner!Typed, Tuner!TypedHost, Tuner!StatesModulation, Tuner!KeySteps, Tuner!Answered, Tuner!Lost
    <3> QED
      BY <3>1, <3>2, <3>3, <3>4 DEF Tuner!Typed
  <2>2. Tuner!RoutesWait'
    BY <1>2 DEF Tuner!IInv, Tuner!Typed, Tuner!TypedRadio, Tuner!TypedHost, Tuner!RoutesWait, Tuner!StatesModulation, Tuner!Touch, Tuner!Keying, Tuner!Answered, Tuner!Lost,
           Tuner!Fault
  <2>3. Tuner!Awaited'
    BY <1>2 DEF Tuner!IInv, Tuner!Typed, Tuner!TypedRadio, Tuner!TypedHost, Tuner!Awaited, Tuner!RoutesWait, Tuner!StatesModulation, Tuner!Touch, Tuner!Keying,
           Tuner!Answered, Tuner!Lost, Tuner!Fault
  <2>4. Tuner!OnChannel'
    BY <1>2 DEF Tuner!IInv, Tuner!Typed, Tuner!TypedRadio, Tuner!TypedHost, Tuner!OnChannel, Tuner!RoutesWait, Tuner!StatesModulation, Tuner!Touch, Tuner!Keying,
           Tuner!Answered, Tuner!Lost, Tuner!Fault
  <2>5. Tuner!Listened'
    BY <1>2 DEF Tuner!IInv, Tuner!Typed, Tuner!TypedRadio, Tuner!TypedHost, Tuner!Listened, Tuner!RoutesWait, Tuner!StatesModulation, Tuner!Touch, Tuner!Keying,
           Tuner!Answered, Tuner!Lost, Tuner!Fault
  <2>6. Tuner!Modulated'
    BY <1>2 DEF Tuner!IInv, Tuner!Typed, Tuner!TypedRadio, Tuner!TypedHost, Tuner!Modulated, Tuner!RoutesWait, Tuner!StatesModulation, Tuner!Touch, Tuner!Keying,
           Tuner!Answered, Tuner!Lost, Tuner!Fault
  <2> QED
    BY <2>1, <2>2, <2>3, <2>4, <2>5, <2>6 DEF Tuner!IInv
<1>3. ASSUME NEW t \in TunerRoutes, Tuner!ClearsOnDemand(t)
      PROVE  Tuner!IInv'
  <2>1. Tuner!Typed'
    <3>1. Tuner!TypedRadio'
      BY <1>3 DEF Tuner!IInv, Tuner!Typed, Tuner!TypedRadio, Tuner!ClearsOnDemand, Tuner!Free, Tuner!FmOff, Tuner!Cleared, Tuner!Answered, Tuner!Lost, Tuner!Fault
    <3>2. Tuner!TypedHost'
      BY <1>3 DEF Tuner!IInv, Tuner!Typed, Tuner!TypedHost, Tuner!ClearsOnDemand, Tuner!Free, Tuner!FmOff, Tuner!Cleared, Tuner!Answered, Tuner!Lost, Tuner!Fault
    <3>3. Tuner!TypedRoutes'
      BY <1>3 DEF Tuner!IInv, Tuner!Typed, Tuner!TypedRoutes, Tuner!ClearsOnDemand, Tuner!Free, Tuner!FmOff, Tuner!Cleared, Tuner!Answered, Tuner!Lost, Tuner!Fault
    <3>4. (c3 \in BOOLEAN /\ c4 \in Tuner!KeySteps \cup {"idle"})'
      BY <1>3 DEF Tuner!IInv, Tuner!Typed, Tuner!TypedHost, Tuner!ClearsOnDemand, Tuner!KeySteps, Tuner!Answered, Tuner!Lost
    <3> QED
      BY <3>1, <3>2, <3>3, <3>4 DEF Tuner!Typed
  <2>2. Tuner!RoutesWait'
    BY <1>3 DEF Tuner!IInv, Tuner!Typed, Tuner!TypedRadio, Tuner!TypedHost, Tuner!RoutesWait, Tuner!ClearsOnDemand, Tuner!Free, Tuner!FmOff, Tuner!Cleared, Tuner!Answered,
           Tuner!Lost, Tuner!Fault
  <2>3. Tuner!Awaited'
    BY <1>3 DEF Tuner!IInv, Tuner!Typed, Tuner!TypedRadio, Tuner!TypedHost, Tuner!Awaited, Tuner!RoutesWait, Tuner!ClearsOnDemand, Tuner!Free, Tuner!FmOff, Tuner!Cleared,
           Tuner!Answered, Tuner!Lost, Tuner!Fault
  <2>4. Tuner!OnChannel'
    BY <1>3 DEF Tuner!IInv, Tuner!Typed, Tuner!TypedRadio, Tuner!TypedHost, Tuner!OnChannel, Tuner!RoutesWait, Tuner!ClearsOnDemand, Tuner!Free, Tuner!FmOff, Tuner!Cleared,
           Tuner!Answered, Tuner!Lost, Tuner!Fault
  <2>5. Tuner!Listened'
    BY <1>3 DEF Tuner!IInv, Tuner!Typed, Tuner!TypedRadio, Tuner!TypedHost, Tuner!Listened, Tuner!RoutesWait, Tuner!ClearsOnDemand, Tuner!Free, Tuner!FmOff, Tuner!Cleared,
           Tuner!Answered, Tuner!Lost, Tuner!Fault
  <2>6. Tuner!Modulated'
    BY ZenonT(40), <1>3 DEF Tuner!IInv, Tuner!Typed, Tuner!TypedRadio, Tuner!TypedHost, Tuner!Modulated, Tuner!RoutesWait, Tuner!ClearsOnDemand, Tuner!Free, Tuner!FmOff, Tuner!Cleared,
           Tuner!Answered, Tuner!Lost, Tuner!Fault
  <2> QED
    BY <2>1, <2>2, <2>3, <2>4, <2>5, <2>6 DEF Tuner!IInv
<1>4. ASSUME NEW t \in TunerRoutes, Tuner!SwitchesOn(t)
      PROVE  Tuner!IInv'
  <2>1. Tuner!Typed'
    <3>1. Tuner!TypedRadio'
      BY <1>4 DEF Tuner!IInv, Tuner!Typed, Tuner!TypedRadio, Tuner!SwitchesOn, Tuner!Free, Tuner!Touch, Tuner!Keying, Tuner!Answered, Tuner!Lost, Tuner!Fault
    <3>2. Tuner!TypedHost'
      BY <1>4 DEF Tuner!IInv, Tuner!Typed, Tuner!TypedHost, Tuner!SwitchesOn, Tuner!Free, Tuner!Touch, Tuner!Keying, Tuner!Answered, Tuner!Lost, Tuner!Fault
    <3>3. Tuner!TypedRoutes'
      BY <1>4 DEF Tuner!IInv, Tuner!Typed, Tuner!TypedRoutes, Tuner!SwitchesOn, Tuner!Free, Tuner!Touch, Tuner!Keying, Tuner!Answered, Tuner!Lost, Tuner!Fault
    <3>4. (c3 \in BOOLEAN /\ c4 \in Tuner!KeySteps \cup {"idle"})'
      BY <1>4 DEF Tuner!IInv, Tuner!Typed, Tuner!TypedHost, Tuner!SwitchesOn, Tuner!KeySteps, Tuner!Answered, Tuner!Lost
    <3> QED
      BY <3>1, <3>2, <3>3, <3>4 DEF Tuner!Typed
  <2>2. Tuner!RoutesWait'
    BY <1>4 DEF Tuner!IInv, Tuner!Typed, Tuner!TypedRadio, Tuner!TypedHost, Tuner!RoutesWait, Tuner!SwitchesOn, Tuner!Free, Tuner!Touch, Tuner!Keying, Tuner!Answered, Tuner!Lost,
           Tuner!Fault
  <2>3. Tuner!Awaited'
    BY <1>4 DEF Tuner!IInv, Tuner!Typed, Tuner!TypedRadio, Tuner!TypedHost, Tuner!Awaited, Tuner!RoutesWait, Tuner!SwitchesOn, Tuner!Free, Tuner!Touch, Tuner!Keying,
           Tuner!Answered, Tuner!Lost, Tuner!Fault
  <2>4. Tuner!OnChannel'
    BY <1>4 DEF Tuner!IInv, Tuner!Typed, Tuner!TypedRadio, Tuner!TypedHost, Tuner!OnChannel, Tuner!RoutesWait, Tuner!SwitchesOn, Tuner!Free, Tuner!Touch, Tuner!Keying,
           Tuner!Answered, Tuner!Lost, Tuner!Fault
  <2>5. Tuner!Listened'
    BY <1>4 DEF Tuner!IInv, Tuner!Typed, Tuner!TypedRadio, Tuner!TypedHost, Tuner!Listened, Tuner!RoutesWait, Tuner!SwitchesOn, Tuner!Free, Tuner!Touch, Tuner!Keying,
           Tuner!Answered, Tuner!Lost, Tuner!Fault
  <2>6. Tuner!Modulated'
    BY <1>4 DEF Tuner!IInv, Tuner!Typed, Tuner!TypedRadio, Tuner!TypedHost, Tuner!Modulated, Tuner!RoutesWait, Tuner!SwitchesOn, Tuner!Free, Tuner!Touch, Tuner!Keying,
           Tuner!Answered, Tuner!Lost, Tuner!Fault
  <2> QED
    BY <2>1, <2>2, <2>3, <2>4, <2>5, <2>6 DEF Tuner!IInv
<1> QED
  BY <1>1, <1>2, <1>3, <1>4

LEMMA TunerKeyingKeeps ==
    ASSUME Tuner!IInv,
           Tuner!KeyUp \/ Tuner!KeyClears \/ Tuner!KeyStates \/ Tuner!KeyReasserts \/ Tuner!KeyAsserts \/ Tuner!KeyOff
    PROVE  Tuner!IInv'
<1>1. CASE Tuner!KeyUp
  <2>1. Tuner!Typed'
    <3>1. Tuner!TypedRadio'
      BY <1>1 DEF Tuner!IInv, Tuner!Typed, Tuner!TypedRadio, Tuner!KeyUp, Tuner!Parked
    <3>2. Tuner!TypedHost'
      BY <1>1 DEF Tuner!IInv, Tuner!Typed, Tuner!TypedHost, Tuner!KeyUp, Tuner!Parked
    <3>3. Tuner!TypedRoutes'
      BY <1>1 DEF Tuner!IInv, Tuner!Typed, Tuner!TypedRoutes, Tuner!KeyUp, Tuner!Parked
    <3>4. (c3 \in BOOLEAN /\ c4 \in Tuner!KeySteps \cup {"idle"})'
      BY <1>1 DEF Tuner!IInv, Tuner!Typed, Tuner!TypedHost, Tuner!KeyUp, Tuner!KeySteps
    <3> QED
      BY <3>1, <3>2, <3>3, <3>4 DEF Tuner!Typed
  <2>2. Tuner!RoutesWait'
    BY <1>1 DEF Tuner!IInv, Tuner!Typed, Tuner!TypedRadio, Tuner!TypedHost, Tuner!RoutesWait, Tuner!KeyUp, Tuner!Parked
  <2>3. Tuner!Awaited'
    BY <1>1 DEF Tuner!IInv, Tuner!Typed, Tuner!TypedRadio, Tuner!TypedHost, Tuner!Awaited, Tuner!RoutesWait, Tuner!KeyUp, Tuner!Parked
  <2>4. Tuner!OnChannel'
    BY <1>1 DEF Tuner!IInv, Tuner!Typed, Tuner!TypedRadio, Tuner!TypedHost, Tuner!OnChannel, Tuner!RoutesWait, Tuner!KeyUp, Tuner!Parked
  <2>5. Tuner!Listened'
    BY <1>1 DEF Tuner!IInv, Tuner!Typed, Tuner!TypedRadio, Tuner!TypedHost, Tuner!Listened, Tuner!RoutesWait, Tuner!KeyUp, Tuner!Parked
  <2>6. Tuner!Modulated'
    BY <1>1 DEF Tuner!IInv, Tuner!Typed, Tuner!TypedRadio, Tuner!TypedHost, Tuner!Modulated, Tuner!RoutesWait, Tuner!KeyUp, Tuner!Parked
  <2> QED
    BY <2>1, <2>2, <2>3, <2>4, <2>5, <2>6 DEF Tuner!IInv
<1>2. CASE Tuner!KeyClears
  <2>1. Tuner!Typed'
    <3>1. Tuner!TypedRadio'
      BY <1>2 DEF Tuner!IInv, Tuner!Typed, Tuner!TypedRadio, Tuner!KeyClears, Tuner!Touch, Tuner!Keying, Tuner!FmOff, Tuner!Cleared, Tuner!Answered, Tuner!Lost, Tuner!Fault
    <3>2. Tuner!TypedHost'
      BY <1>2 DEF Tuner!IInv, Tuner!Typed, Tuner!TypedHost, Tuner!KeyClears, Tuner!Touch, Tuner!Keying, Tuner!FmOff, Tuner!Cleared, Tuner!Answered, Tuner!Lost, Tuner!Fault
    <3>3. Tuner!TypedRoutes'
      BY <1>2 DEF Tuner!IInv, Tuner!Typed, Tuner!TypedRoutes, Tuner!KeyClears, Tuner!Touch, Tuner!Keying, Tuner!FmOff, Tuner!Cleared, Tuner!Answered, Tuner!Lost, Tuner!Fault
    <3>4. (c3 \in BOOLEAN /\ c4 \in Tuner!KeySteps \cup {"idle"})'
      BY <1>2 DEF Tuner!IInv, Tuner!Typed, Tuner!TypedHost, Tuner!KeyClears, Tuner!KeySteps, Tuner!Answered, Tuner!Lost
    <3> QED
      BY <3>1, <3>2, <3>3, <3>4 DEF Tuner!Typed
  <2>2. Tuner!RoutesWait'
    BY <1>2 DEF Tuner!IInv, Tuner!Typed, Tuner!TypedRadio, Tuner!TypedHost, Tuner!RoutesWait, Tuner!KeyClears, Tuner!Touch, Tuner!Keying, Tuner!FmOff, Tuner!Cleared,
           Tuner!Answered, Tuner!Lost, Tuner!Fault
  <2>3. Tuner!Awaited'
    BY <1>2 DEF Tuner!IInv, Tuner!Typed, Tuner!TypedRadio, Tuner!TypedHost, Tuner!Awaited, Tuner!RoutesWait, Tuner!KeyClears, Tuner!Touch, Tuner!Keying, Tuner!FmOff,
           Tuner!Cleared, Tuner!Answered, Tuner!Lost, Tuner!Fault
  <2>4. Tuner!OnChannel'
    BY <1>2 DEF Tuner!IInv, Tuner!Typed, Tuner!TypedRadio, Tuner!TypedHost, Tuner!OnChannel, Tuner!RoutesWait, Tuner!KeyClears, Tuner!Touch, Tuner!Keying, Tuner!FmOff,
           Tuner!Cleared, Tuner!Answered, Tuner!Lost, Tuner!Fault
  <2>5. Tuner!Listened'
    BY <1>2 DEF Tuner!IInv, Tuner!Typed, Tuner!TypedRadio, Tuner!TypedHost, Tuner!Listened, Tuner!RoutesWait, Tuner!KeyClears, Tuner!Touch, Tuner!Keying, Tuner!FmOff,
           Tuner!Cleared, Tuner!Answered, Tuner!Lost, Tuner!Fault
  <2>6. Tuner!Modulated'
    BY <1>2 DEF Tuner!IInv, Tuner!Typed, Tuner!TypedRadio, Tuner!TypedHost, Tuner!Modulated, Tuner!RoutesWait, Tuner!KeyClears, Tuner!Touch, Tuner!Keying, Tuner!FmOff,
           Tuner!Cleared, Tuner!Answered, Tuner!Lost, Tuner!Fault
  <2> QED
    BY <2>1, <2>2, <2>3, <2>4, <2>5, <2>6 DEF Tuner!IInv
<1>3. CASE Tuner!KeyStates
  <2>1. Tuner!Typed'
    <3>1. Tuner!TypedRadio'
      BY <1>3 DEF Tuner!IInv, Tuner!Typed, Tuner!TypedRadio, Tuner!KeyStates, Tuner!Answered, Tuner!Lost, Tuner!Fault
    <3>2. Tuner!TypedHost'
      BY <1>3 DEF Tuner!IInv, Tuner!Typed, Tuner!TypedHost, Tuner!KeyStates, Tuner!Answered, Tuner!Lost, Tuner!Fault
    <3>3. Tuner!TypedRoutes'
      BY <1>3 DEF Tuner!IInv, Tuner!Typed, Tuner!TypedRoutes, Tuner!KeyStates, Tuner!Answered, Tuner!Lost, Tuner!Fault
    <3>4. (c3 \in BOOLEAN /\ c4 \in Tuner!KeySteps \cup {"idle"})'
      BY <1>3 DEF Tuner!IInv, Tuner!Typed, Tuner!TypedHost, Tuner!KeyStates, Tuner!KeySteps, Tuner!Answered, Tuner!Lost
    <3> QED
      BY <3>1, <3>2, <3>3, <3>4 DEF Tuner!Typed
  <2>2. Tuner!RoutesWait'
    BY <1>3 DEF Tuner!IInv, Tuner!Typed, Tuner!TypedRadio, Tuner!TypedHost, Tuner!RoutesWait, Tuner!KeyStates, Tuner!Answered, Tuner!Lost, Tuner!Fault
  <2>3. Tuner!Awaited'
    BY <1>3 DEF Tuner!IInv, Tuner!Typed, Tuner!TypedRadio, Tuner!TypedHost, Tuner!Awaited, Tuner!RoutesWait, Tuner!KeyStates, Tuner!Answered, Tuner!Lost, Tuner!Fault
  <2>4. Tuner!OnChannel'
    BY <1>3 DEF Tuner!IInv, Tuner!Typed, Tuner!TypedRadio, Tuner!TypedHost, Tuner!OnChannel, Tuner!RoutesWait, Tuner!KeyStates, Tuner!Answered, Tuner!Lost, Tuner!Fault
  <2>5. Tuner!Listened'
    BY <1>3 DEF Tuner!IInv, Tuner!Typed, Tuner!TypedRadio, Tuner!TypedHost, Tuner!Listened, Tuner!RoutesWait, Tuner!KeyStates, Tuner!Answered, Tuner!Lost, Tuner!Fault
  <2>6. Tuner!Modulated'
    BY <1>3 DEF Tuner!IInv, Tuner!Typed, Tuner!TypedRadio, Tuner!TypedHost, Tuner!Modulated, Tuner!RoutesWait, Tuner!KeyStates, Tuner!Answered, Tuner!Lost, Tuner!Fault
  <2> QED
    BY <2>1, <2>2, <2>3, <2>4, <2>5, <2>6 DEF Tuner!IInv
<1>4. CASE Tuner!KeyReasserts
  <2>1. Tuner!Typed'
    <3>1. Tuner!TypedRadio'
      BY <1>4 DEF Tuner!IInv, Tuner!Typed, Tuner!TypedRadio, Tuner!TypedHost, Tuner!KeyReasserts, Tuner!Answered, Tuner!Lost, Tuner!Fault
    <3>2. Tuner!TypedHost'
      BY <1>4 DEF Tuner!IInv, Tuner!Typed, Tuner!TypedHost, Tuner!KeyReasserts, Tuner!Answered, Tuner!Lost, Tuner!Fault
    <3>3. Tuner!TypedRoutes'
      BY <1>4 DEF Tuner!IInv, Tuner!Typed, Tuner!TypedRoutes, Tuner!KeyReasserts, Tuner!Answered, Tuner!Lost, Tuner!Fault
    <3>4. (c3 \in BOOLEAN /\ c4 \in Tuner!KeySteps \cup {"idle"})'
      BY <1>4 DEF Tuner!IInv, Tuner!Typed, Tuner!TypedHost, Tuner!KeyReasserts, Tuner!KeySteps, Tuner!Answered, Tuner!Lost
    <3> QED
      BY <3>1, <3>2, <3>3, <3>4 DEF Tuner!Typed
  <2>2. Tuner!RoutesWait'
    BY <1>4 DEF Tuner!IInv, Tuner!Typed, Tuner!TypedRadio, Tuner!TypedHost, Tuner!RoutesWait, Tuner!KeyReasserts, Tuner!Answered, Tuner!Lost, Tuner!Fault
  <2>3. Tuner!Awaited'
    BY <1>4 DEF Tuner!IInv, Tuner!Typed, Tuner!TypedRadio, Tuner!TypedHost, Tuner!Awaited, Tuner!RoutesWait, Tuner!KeyReasserts, Tuner!Answered, Tuner!Lost, Tuner!Fault
  <2>4. Tuner!OnChannel'
    BY <1>4 DEF Tuner!IInv, Tuner!Typed, Tuner!TypedRadio, Tuner!TypedHost, Tuner!OnChannel, Tuner!RoutesWait, Tuner!KeyReasserts, Tuner!Answered, Tuner!Lost, Tuner!Fault
  <2>5. Tuner!Listened'
    BY <1>4 DEF Tuner!IInv, Tuner!Typed, Tuner!TypedRadio, Tuner!TypedHost, Tuner!Listened, Tuner!RoutesWait, Tuner!KeyReasserts, Tuner!Answered, Tuner!Lost, Tuner!Fault
  <2>6. Tuner!Modulated'
    BY <1>4 DEF Tuner!IInv, Tuner!Typed, Tuner!TypedRadio, Tuner!TypedHost, Tuner!Modulated, Tuner!RoutesWait, Tuner!KeyReasserts, Tuner!Answered, Tuner!Lost, Tuner!Fault
  <2> QED
    BY <2>1, <2>2, <2>3, <2>4, <2>5, <2>6 DEF Tuner!IInv
<1>5. CASE Tuner!KeyAsserts
  <2>1. Tuner!Typed'
    <3>1. Tuner!TypedRadio'
      BY <1>5 DEF Tuner!IInv, Tuner!Typed, Tuner!TypedRadio, Tuner!KeyAsserts
    <3>2. Tuner!TypedHost'
      BY <1>5 DEF Tuner!IInv, Tuner!Typed, Tuner!TypedHost, Tuner!KeyAsserts
    <3>3. Tuner!TypedRoutes'
      BY <1>5 DEF Tuner!IInv, Tuner!Typed, Tuner!TypedRoutes, Tuner!KeyAsserts
    <3>4. (c3 \in BOOLEAN /\ c4 \in Tuner!KeySteps \cup {"idle"})'
      BY <1>5 DEF Tuner!IInv, Tuner!Typed, Tuner!TypedHost, Tuner!KeyAsserts, Tuner!KeySteps
    <3> QED
      BY <3>1, <3>2, <3>3, <3>4 DEF Tuner!Typed
  <2>2. Tuner!RoutesWait'
    BY <1>5 DEF Tuner!IInv, Tuner!Typed, Tuner!TypedRadio, Tuner!TypedHost, Tuner!RoutesWait, Tuner!KeyAsserts
  <2>3. Tuner!Awaited'
    BY <1>5 DEF Tuner!IInv, Tuner!Typed, Tuner!TypedRadio, Tuner!TypedHost, Tuner!Awaited, Tuner!RoutesWait, Tuner!KeyAsserts
  <2>4. Tuner!OnChannel'
    BY <1>5 DEF Tuner!IInv, Tuner!Typed, Tuner!TypedRadio, Tuner!TypedHost, Tuner!OnChannel, Tuner!RoutesWait, Tuner!KeyAsserts
  <2>5. Tuner!Listened'
    BY <1>5 DEF Tuner!IInv, Tuner!Typed, Tuner!TypedRadio, Tuner!TypedHost, Tuner!Listened, Tuner!RoutesWait, Tuner!KeyAsserts
  <2>6. Tuner!Modulated'
    BY <1>5 DEF Tuner!IInv, Tuner!Typed, Tuner!TypedRadio, Tuner!TypedHost, Tuner!Modulated, Tuner!RoutesWait, Tuner!KeyAsserts
  <2> QED
    BY <2>1, <2>2, <2>3, <2>4, <2>5, <2>6 DEF Tuner!IInv
<1>6. CASE Tuner!KeyOff
  <2>1. Tuner!Typed'
    <3>1. Tuner!TypedRadio'
      BY <1>6 DEF Tuner!IInv, Tuner!Typed, Tuner!TypedRadio, Tuner!TypedRoutes, Tuner!KeyOff, Tuner!KeySteps
    <3>2. Tuner!TypedHost'
      BY <1>6 DEF Tuner!IInv, Tuner!Typed, Tuner!TypedHost, Tuner!TypedRoutes, Tuner!KeyOff, Tuner!KeySteps
    <3>3. Tuner!TypedRoutes'
      BY <1>6 DEF Tuner!IInv, Tuner!Typed, Tuner!TypedRoutes, Tuner!TypedHost, Tuner!KeyOff, Tuner!KeySteps
    <3> QED
      BY <1>6, <3>1, <3>2, <3>3 DEF Tuner!IInv, Tuner!Typed, Tuner!KeyOff
  <2>2. Tuner!RoutesWait'
    BY <1>6 DEF Tuner!IInv, Tuner!Typed, Tuner!TypedRadio, Tuner!TypedHost, Tuner!TypedRoutes, Tuner!KeyOff, Tuner!RoutesWait
  <2>3. Tuner!Awaited'
    BY <1>6 DEF Tuner!IInv, Tuner!Typed, Tuner!TypedRadio, Tuner!TypedHost, Tuner!TypedRoutes, Tuner!KeyOff, Tuner!Awaited
  <2>4. Tuner!OnChannel'
    BY <1>6 DEF Tuner!IInv, Tuner!Typed, Tuner!TypedRadio, Tuner!TypedHost, Tuner!TypedRoutes, Tuner!KeyOff, Tuner!OnChannel, Tuner!RoutesWait
  <2>5. Tuner!Listened'
    BY <1>6 DEF Tuner!IInv, Tuner!Typed, Tuner!TypedRadio, Tuner!TypedHost, Tuner!TypedRoutes, Tuner!KeyOff, Tuner!Listened, Tuner!RoutesWait
  <2>6. Tuner!Modulated'
    BY <1>6 DEF Tuner!IInv, Tuner!Typed, Tuner!TypedRadio, Tuner!TypedHost, Tuner!TypedRoutes, Tuner!KeyOff, Tuner!Modulated, Tuner!RoutesWait
  <2> QED
    BY <2>1, <2>2, <2>3, <2>4, <2>5, <2>6 DEF Tuner!IInv
<1> QED
  BY <1>1, <1>2, <1>3, <1>4, <1>5, <1>6

LEMMA TunerHandsKeep ==
    ASSUME Tuner!IInv,
           \/ Tuner!MutePasses \/ \E image \in Tuner!Images : Tuner!Knob(image)
           \/ Tuner!PowerCycle \/ Tuner!FmAtTheRadio \/ Tuner!Monitors
    PROVE  Tuner!IInv'
<1>1. CASE Tuner!MutePasses
  <2>1. Tuner!Typed'
    <3>1. Tuner!TypedRadio'
      BY <1>1 DEF Tuner!IInv, Tuner!Typed, Tuner!TypedRadio, Tuner!MutePasses
    <3>2. Tuner!TypedHost'
      BY <1>1 DEF Tuner!IInv, Tuner!Typed, Tuner!TypedHost, Tuner!MutePasses
    <3>3. Tuner!TypedRoutes'
      BY <1>1 DEF Tuner!IInv, Tuner!Typed, Tuner!TypedRoutes, Tuner!MutePasses
    <3>4. (c3 \in BOOLEAN /\ c4 \in Tuner!KeySteps \cup {"idle"})'
      BY <1>1 DEF Tuner!IInv, Tuner!Typed, Tuner!TypedHost, Tuner!MutePasses, Tuner!KeySteps
    <3> QED
      BY <3>1, <3>2, <3>3, <3>4 DEF Tuner!Typed
  <2>2. Tuner!RoutesWait'
    BY <1>1 DEF Tuner!IInv, Tuner!Typed, Tuner!TypedRadio, Tuner!TypedHost, Tuner!RoutesWait, Tuner!MutePasses
  <2>3. Tuner!Awaited'
    BY <1>1 DEF Tuner!IInv, Tuner!Typed, Tuner!TypedRadio, Tuner!TypedHost, Tuner!Awaited, Tuner!RoutesWait, Tuner!MutePasses
  <2>4. Tuner!OnChannel'
    BY <1>1 DEF Tuner!IInv, Tuner!Typed, Tuner!TypedRadio, Tuner!TypedHost, Tuner!OnChannel, Tuner!RoutesWait, Tuner!MutePasses
  <2>5. Tuner!Listened'
    BY <1>1 DEF Tuner!IInv, Tuner!Typed, Tuner!TypedRadio, Tuner!TypedHost, Tuner!Listened, Tuner!RoutesWait, Tuner!MutePasses
  <2>6. Tuner!Modulated'
    BY <1>1 DEF Tuner!IInv, Tuner!Typed, Tuner!TypedRadio, Tuner!TypedHost, Tuner!Modulated, Tuner!RoutesWait, Tuner!MutePasses
  <2> QED
    BY <2>1, <2>2, <2>3, <2>4, <2>5, <2>6 DEF Tuner!IInv
<1>2. ASSUME NEW image \in Tuner!Images, Tuner!Knob(image)
      PROVE  Tuner!IInv'
  <2>1. Tuner!Typed'
    <3>1. Tuner!TypedRadio'
      BY <1>2 DEF Tuner!IInv, Tuner!Typed, Tuner!TypedRadio, Tuner!Knob, Tuner!Touch, Tuner!Keying, Tuner!Maybe, Tuner!Fault
    <3>2. Tuner!TypedHost'
      BY <1>2 DEF Tuner!IInv, Tuner!Typed, Tuner!TypedHost, Tuner!Knob, Tuner!Touch, Tuner!Keying, Tuner!Maybe, Tuner!Fault
    <3>3. Tuner!TypedRoutes'
      BY <1>2 DEF Tuner!IInv, Tuner!Typed, Tuner!TypedRoutes, Tuner!Knob, Tuner!Touch, Tuner!Keying, Tuner!Maybe, Tuner!Fault
    <3>4. (c3 \in BOOLEAN /\ c4 \in Tuner!KeySteps \cup {"idle"})'
      BY <1>2 DEF Tuner!IInv, Tuner!Typed, Tuner!TypedHost, Tuner!Knob, Tuner!KeySteps
    <3> QED
      BY <3>1, <3>2, <3>3, <3>4 DEF Tuner!Typed
  <2>2. Tuner!RoutesWait'
    BY <1>2 DEF Tuner!IInv, Tuner!Typed, Tuner!TypedRadio, Tuner!TypedHost, Tuner!RoutesWait, Tuner!Knob, Tuner!Touch, Tuner!Keying, Tuner!Maybe, Tuner!Fault
  <2>3. Tuner!Awaited'
    BY <1>2 DEF Tuner!IInv, Tuner!Typed, Tuner!TypedRadio, Tuner!TypedHost, Tuner!Awaited, Tuner!RoutesWait, Tuner!Knob, Tuner!Touch, Tuner!Keying, Tuner!Maybe, Tuner!Fault
  <2>4. Tuner!OnChannel'
    BY <1>2 DEF Tuner!IInv, Tuner!Typed, Tuner!TypedRadio, Tuner!TypedHost, Tuner!OnChannel, Tuner!RoutesWait, Tuner!Knob, Tuner!Touch, Tuner!Keying, Tuner!Maybe, Tuner!Fault
  <2>5. Tuner!Listened'
    BY <1>2 DEF Tuner!IInv, Tuner!Typed, Tuner!TypedRadio, Tuner!TypedHost, Tuner!Listened, Tuner!RoutesWait, Tuner!Knob, Tuner!Touch, Tuner!Keying, Tuner!Maybe, Tuner!Fault
  <2>6. Tuner!Modulated'
    BY <1>2 DEF Tuner!IInv, Tuner!Typed, Tuner!TypedRadio, Tuner!TypedHost, Tuner!Modulated, Tuner!RoutesWait, Tuner!Knob, Tuner!Touch, Tuner!Keying, Tuner!Maybe, Tuner!Fault
  <2> QED
    BY <2>1, <2>2, <2>3, <2>4, <2>5, <2>6 DEF Tuner!IInv
<1>3. CASE Tuner!PowerCycle
  <2>1. Tuner!Typed'
    <3>1. Tuner!TypedRadio'
      BY <1>3 DEF Tuner!IInv, Tuner!Typed, Tuner!TypedRadio, Tuner!PowerCycle, Tuner!Touch, Tuner!Keying, Tuner!Fault
    <3>2. Tuner!TypedHost'
      BY <1>3 DEF Tuner!IInv, Tuner!Typed, Tuner!TypedHost, Tuner!PowerCycle, Tuner!Touch, Tuner!Keying, Tuner!Fault
    <3>3. Tuner!TypedRoutes'
      BY <1>3 DEF Tuner!IInv, Tuner!Typed, Tuner!TypedRoutes, Tuner!PowerCycle, Tuner!Touch, Tuner!Keying, Tuner!Fault
    <3>4. (c3 \in BOOLEAN /\ c4 \in Tuner!KeySteps \cup {"idle"})'
      BY <1>3 DEF Tuner!IInv, Tuner!Typed, Tuner!TypedHost, Tuner!PowerCycle, Tuner!KeySteps
    <3> QED
      BY <3>1, <3>2, <3>3, <3>4 DEF Tuner!Typed
  <2>2. Tuner!RoutesWait'
    BY <1>3 DEF Tuner!IInv, Tuner!Typed, Tuner!TypedRadio, Tuner!TypedHost, Tuner!RoutesWait, Tuner!PowerCycle, Tuner!Touch, Tuner!Keying, Tuner!Fault
  <2>3. Tuner!Awaited'
    BY <1>3 DEF Tuner!IInv, Tuner!Typed, Tuner!TypedRadio, Tuner!TypedHost, Tuner!Awaited, Tuner!RoutesWait, Tuner!PowerCycle, Tuner!Touch, Tuner!Keying, Tuner!Fault
  <2>4. Tuner!OnChannel'
    BY <1>3 DEF Tuner!IInv, Tuner!Typed, Tuner!TypedRadio, Tuner!TypedHost, Tuner!OnChannel, Tuner!RoutesWait, Tuner!PowerCycle, Tuner!Touch, Tuner!Keying, Tuner!Fault
  <2>5. Tuner!Listened'
    BY <1>3 DEF Tuner!IInv, Tuner!Typed, Tuner!TypedRadio, Tuner!TypedHost, Tuner!Listened, Tuner!RoutesWait, Tuner!PowerCycle, Tuner!Touch, Tuner!Keying, Tuner!Fault
  <2>6. Tuner!Modulated'
    BY <1>3 DEF Tuner!IInv, Tuner!Typed, Tuner!TypedRadio, Tuner!TypedHost, Tuner!Modulated, Tuner!RoutesWait, Tuner!PowerCycle, Tuner!Touch, Tuner!Keying, Tuner!Fault
  <2> QED
    BY <2>1, <2>2, <2>3, <2>4, <2>5, <2>6 DEF Tuner!IInv
<1>4. CASE Tuner!FmAtTheRadio
  <2>1. Tuner!Typed'
    <3>1. Tuner!TypedRadio'
      BY <1>4 DEF Tuner!IInv, Tuner!Typed, Tuner!TypedRadio, Tuner!FmAtTheRadio, Tuner!Touch, Tuner!Keying, Tuner!Fault
    <3>2. Tuner!TypedHost'
      BY <1>4 DEF Tuner!IInv, Tuner!Typed, Tuner!TypedHost, Tuner!FmAtTheRadio, Tuner!Touch, Tuner!Keying, Tuner!Fault
    <3>3. Tuner!TypedRoutes'
      BY <1>4 DEF Tuner!IInv, Tuner!Typed, Tuner!TypedRoutes, Tuner!FmAtTheRadio, Tuner!Touch, Tuner!Keying, Tuner!Fault
    <3>4. (c3 \in BOOLEAN /\ c4 \in Tuner!KeySteps \cup {"idle"})'
      BY <1>4 DEF Tuner!IInv, Tuner!Typed, Tuner!TypedHost, Tuner!FmAtTheRadio, Tuner!KeySteps
    <3> QED
      BY <3>1, <3>2, <3>3, <3>4 DEF Tuner!Typed
  <2>2. Tuner!RoutesWait'
    BY <1>4 DEF Tuner!IInv, Tuner!Typed, Tuner!TypedRadio, Tuner!TypedHost, Tuner!RoutesWait, Tuner!FmAtTheRadio, Tuner!Touch, Tuner!Keying, Tuner!Fault
  <2>3. Tuner!Awaited'
    BY <1>4 DEF Tuner!IInv, Tuner!Typed, Tuner!TypedRadio, Tuner!TypedHost, Tuner!Awaited, Tuner!RoutesWait, Tuner!FmAtTheRadio, Tuner!Touch, Tuner!Keying, Tuner!Fault
  <2>4. Tuner!OnChannel'
    BY <1>4 DEF Tuner!IInv, Tuner!Typed, Tuner!TypedRadio, Tuner!TypedHost, Tuner!OnChannel, Tuner!RoutesWait, Tuner!FmAtTheRadio, Tuner!Touch, Tuner!Keying, Tuner!Fault
  <2>5. Tuner!Listened'
    BY <1>4 DEF Tuner!IInv, Tuner!Typed, Tuner!TypedRadio, Tuner!TypedHost, Tuner!Listened, Tuner!RoutesWait, Tuner!FmAtTheRadio, Tuner!Touch, Tuner!Keying, Tuner!Fault
  <2>6. Tuner!Modulated'
    BY <1>4 DEF Tuner!IInv, Tuner!Typed, Tuner!TypedRadio, Tuner!TypedHost, Tuner!Modulated, Tuner!RoutesWait, Tuner!FmAtTheRadio, Tuner!Touch, Tuner!Keying, Tuner!Fault
  <2> QED
    BY <2>1, <2>2, <2>3, <2>4, <2>5, <2>6 DEF Tuner!IInv
<1>5. CASE Tuner!Monitors
  <2>1. Tuner!Typed'
    <3>1. Tuner!TypedRadio'
      BY <1>5 DEF Tuner!IInv, Tuner!Typed, Tuner!TypedRadio, Tuner!TypedRoutes, Tuner!Monitors, Tuner!Fault, Tuner!Maybe
    <3>2. Tuner!TypedHost'
      BY <1>5 DEF Tuner!IInv, Tuner!Typed, Tuner!TypedHost, Tuner!TypedRoutes, Tuner!Monitors, Tuner!Fault, Tuner!Maybe
    <3>3. Tuner!TypedRoutes'
      BY <1>5 DEF Tuner!IInv, Tuner!Typed, Tuner!TypedRoutes, Tuner!TypedHost, Tuner!Monitors, Tuner!Fault, Tuner!Maybe
    <3> QED
      BY <1>5, <3>1, <3>2, <3>3 DEF Tuner!IInv, Tuner!Typed, Tuner!Monitors
  <2>2. Tuner!RoutesWait'
    BY <1>5 DEF Tuner!IInv, Tuner!Typed, Tuner!TypedRadio, Tuner!TypedHost, Tuner!TypedRoutes, Tuner!Monitors, Tuner!Fault, Tuner!RoutesWait
  <2>3. Tuner!Awaited'
    BY <1>5 DEF Tuner!IInv, Tuner!Typed, Tuner!TypedRadio, Tuner!TypedHost, Tuner!TypedRoutes, Tuner!Monitors, Tuner!Fault, Tuner!Awaited
  <2>4. Tuner!OnChannel'
    BY <1>5 DEF Tuner!IInv, Tuner!Typed, Tuner!TypedRadio, Tuner!TypedHost, Tuner!TypedRoutes, Tuner!Monitors, Tuner!Fault, Tuner!OnChannel, Tuner!RoutesWait
  <2>5. Tuner!Listened'
    BY <1>5 DEF Tuner!IInv, Tuner!Typed, Tuner!TypedRadio, Tuner!TypedHost, Tuner!TypedRoutes, Tuner!Monitors, Tuner!Fault, Tuner!Listened, Tuner!RoutesWait
  <2>6. Tuner!Modulated'
    BY <1>5 DEF Tuner!IInv, Tuner!Typed, Tuner!TypedRadio, Tuner!TypedHost, Tuner!TypedRoutes, Tuner!Monitors, Tuner!Fault, Tuner!Modulated, Tuner!RoutesWait
  <2> QED
    BY <2>1, <2>2, <2>3, <2>4, <2>5, <2>6 DEF Tuner!IInv
<1> QED
  BY <1>1, <1>2, <1>3, <1>4, <1>5

LEMMA TunerInitiallyParked == Tuner!Init => Tuner!IInv
<1> SUFFICES ASSUME Tuner!Init
             PROVE  Tuner!IInv
  OBVIOUS
<1>1. Tuner!TypedRadio
  BY DEF Tuner!Init, Tuner!TypedRadio, Tuner!Maybe
<1>2. Tuner!TypedHost
  BY DEF Tuner!Init, Tuner!TypedHost, Tuner!Maybe
<1>3. Tuner!TypedRoutes /\ c3 \in BOOLEAN /\ c4 \in Tuner!KeySteps \cup {"idle"}
  BY DEF Tuner!Init, Tuner!TypedRoutes, Tuner!Maybe, Tuner!Parked
<1>4. Tuner!RoutesWait /\ Tuner!Awaited /\ Tuner!OnChannel /\ Tuner!Listened /\ Tuner!Modulated
  BY DEF Tuner!Init, Tuner!RoutesWait, Tuner!Awaited, Tuner!OnChannel, Tuner!Listened, Tuner!Modulated, Tuner!Parked
<1> QED
  BY <1>1, <1>2, <1>3, <1>4 DEF Tuner!IInv, Tuner!Typed

LEMMA TunerStepsKeep ==
    ASSUME TunerTones # {}, Tuner!IInv, [Tuner!Next]_(Tuner!vars)
    PROVE  Tuner!IInv'
<1>1. CASE UNCHANGED Tuner!vars
  BY <1>1 DEF Tuner!vars, Tuner!IInv, Tuner!Typed, Tuner!TypedRadio, Tuner!TypedHost, Tuner!TypedRoutes, Tuner!RoutesWait, Tuner!Awaited, Tuner!OnChannel, Tuner!Listened, Tuner!Modulated
<1> QED
  BY <1>1, TunerRequestsWait, TunerReceiverKeeps, TunerKeyingKeeps, TunerHandsKeep DEF Tuner!Next

(* An over goes out on its channel, from a radio that was asked to leave *)
(* its second receiver, neither muted by a conversation that ended well    *)
(* nor in AM: whatever answers are lost, however conversations with the    *)
(* storage fail, and whatever is done at the radio.                     *)
THEOREM OversGoOutWhereTold ==
    ASSUME TunerTones # {}
    PROVE  Tuner!Spec => [](Tuner!KeyedOnItsChannel /\ Tuner!DeafOversAreAskedFor /\ Tuner!LineMeansCarrier)
<1>1. Tuner!Init => Tuner!IInv
  BY TunerInitiallyParked
<1>2. Tuner!IInv /\ [Tuner!Next]_(Tuner!vars) => Tuner!IInv'
  BY TunerStepsKeep
<1>3. Tuner!IInv => Tuner!KeyedOnItsChannel /\ Tuner!DeafOversAreAskedFor /\ Tuner!LineMeansCarrier
  BY DEF Tuner!IInv, Tuner!OnChannel, Tuner!Listened, Tuner!Modulated, Tuner!Awaited,
         Tuner!KeyedOnItsChannel, Tuner!DeafOversAreAskedFor, Tuner!LineMeansCarrier
<1> QED
  BY <1>1, <1>2, <1>3, PTL DEF Tuner!Spec

LEMMA TunerStagedStaysStaged ==
    ASSUME \A s, t \in TunerRoutes : s = t, Tuner!Typed, Tuner!Pends, TunerTones # {}, [Tuner!Next]_(Tuner!vars)
    PROVE  Tuner!Pends'
<1> USE DEF Tuner!Pends, Tuner!Typed, Tuner!TypedRoutes
<1>1. CASE UNCHANGED Tuner!vars
  BY <1>1 DEF Tuner!vars
<1>2. CASE \/ Tuner!BootClears \/ \E m \in {"FM", "AM"} : Tuner!StatesModulation(m)
           \/ Tuner!KeyUp \/ Tuner!KeyClears \/ Tuner!KeyStates \/ Tuner!KeyReasserts \/ Tuner!KeyAsserts \/ Tuner!KeyOff
           \/ Tuner!MutePasses
           \/ (\E image \in Tuner!Images : Tuner!Knob(image)) \/ Tuner!PowerCycle \/ Tuner!FmAtTheRadio \/ Tuner!Monitors
  <2>1. UNCHANGED c5
    BY <1>2 DEF Tuner!BootClears, Tuner!StatesModulation, Tuner!KeyUp, Tuner!KeyClears, Tuner!KeyStates, Tuner!KeyReasserts,
           Tuner!KeyAsserts, Tuner!KeyOff, Tuner!MutePasses, Tuner!Knob, Tuner!PowerCycle, Tuner!FmAtTheRadio, Tuner!Monitors
  <2>2. c2'.pending = c2.pending
    BY <1>2 DEF Tuner!TypedHost, Tuner!BootClears, Tuner!StatesModulation, Tuner!KeyUp, Tuner!KeyClears, Tuner!KeyStates,
           Tuner!KeyReasserts, Tuner!KeyAsserts, Tuner!KeyOff, Tuner!MutePasses, Tuner!Knob, Tuner!PowerCycle, Tuner!FmAtTheRadio,
           Tuner!Monitors, Tuner!Cleared
  <2>3. c7' \in Nat
    BY <1>2 DEF Tuner!BootClears, Tuner!StatesModulation, Tuner!KeyUp, Tuner!KeyClears, Tuner!KeyStates, Tuner!KeyReasserts,
           Tuner!KeyAsserts, Tuner!KeyOff, Tuner!MutePasses, Tuner!Knob, Tuner!PowerCycle, Tuner!FmAtTheRadio, Tuner!Monitors,
           Tuner!Answered, Tuner!Lost, Tuner!Fault
  <2> QED
    BY <2>1, <2>2, <2>3
<1>3. ASSUME NEW t \in TunerRoutes, NEW image \in Tuner!Images, Tuner!Stages(t, image)
      PROVE  Tuner!Pends'
  BY <1>3 DEF Tuner!TypedHost, Tuner!Stages, Tuner!Maybe
<1>4. ASSUME NEW t \in TunerRoutes, NEW hz \in TunerFreqs, Tuner!SetFrequency(t, hz)
      PROVE  Tuner!Pends'
  <2>1. [hz |-> hz, tone |-> CHOOSE o \in TunerTones : TRUE] \in Tuner!Images
    BY DEF Tuner!Images
  <2>2. Tuner!Staged \in Tuner!Maybe
    BY DEF Tuner!Staged, Tuner!TypedHost
  <2>3. Tuner!Staged # NoImage => [Tuner!Staged EXCEPT !.hz = hz] \in Tuner!Images
    BY <2>2 DEF Tuner!Maybe, Tuner!Images
  <2> QED
    BY <1>3, <1>4, <2>1, <2>3 DEF Tuner!SetFrequency
<1>5. ASSUME NEW t \in TunerRoutes, NEW tone \in TunerTones, Tuner!SetTone(t, tone)
      PROVE  Tuner!Pends'
  <2>1. Tuner!Staged \in Tuner!Maybe
    BY DEF Tuner!Staged, Tuner!TypedHost
  <2>2. Tuner!Staged # NoImage => [Tuner!Staged EXCEPT !.tone = tone] \in Tuner!Images
    BY <2>1 DEF Tuner!Maybe, Tuner!Images
  <2> QED
    BY <1>3, <1>5, <2>2 DEF Tuner!SetTone
<1>6. ASSUME NEW t \in TunerRoutes,
             \/ \E on \in BOOLEAN : Tuner!SetTunePersist(t, on)
             \/ Tuner!Commit(t) \/ Tuner!Apply(t) \/ Tuner!Store(t) \/ Tuner!Restore(t)
             \/ Tuner!ClearsOnDemand(t) \/ Tuner!SwitchesOn(t)
      PROVE  Tuner!Pends'
  <2>1. c7' \in Nat
    BY <1>6 DEF Tuner!SetTunePersist, Tuner!Commit, Tuner!Apply, Tuner!Store, Tuner!Restore, Tuner!ClearsOnDemand, Tuner!SwitchesOn,
           Tuner!Answered, Tuner!Lost, Tuner!Fault
  <2>2. \/ c5'[t].pc # "commit"
        \/ c5'[t] = c5[t] /\ c2'.pending = c2.pending
    <3>1. CASE \E on \in BOOLEAN : Tuner!SetTunePersist(t, on)
      BY <3>1 DEF Tuner!TypedHost, Tuner!SetTunePersist
    <3>2. CASE Tuner!Commit(t)
      BY <3>2 DEF Tuner!Commit, Tuner!Leaves, Tuner!Parked
    <3>3. CASE Tuner!Apply(t)
      BY <3>3 DEF Tuner!Apply, Tuner!Leaves, Tuner!Done, Tuner!Parked
    <3>4. CASE Tuner!Store(t) \/ Tuner!Restore(t)
      BY <3>4 DEF Tuner!TypedHost, Tuner!Store, Tuner!Restore, Tuner!Leaves, Tuner!Done, Tuner!Parked
    <3>5. CASE Tuner!ClearsOnDemand(t) \/ Tuner!SwitchesOn(t)
      BY <3>5 DEF Tuner!TypedHost, Tuner!ClearsOnDemand, Tuner!SwitchesOn, Tuner!Cleared
    <3> QED
      BY <1>6, <3>1, <3>2, <3>3, <3>4, <3>5
  <2> QED
    BY <2>1, <2>2
<1> QED
  BY <1>1, <1>2, <1>4, <1>5, <1>6 DEF Tuner!Next

\* A request that waits for its answer gets it from its own thread.
LEMMA TunerOnlyCommitAnswers ==
    ASSUME \A s, t \in TunerRoutes : s = t, Tuner!Typed, [Tuner!Next]_(Tuner!vars), NEW t \in TunerRoutes,
           c5[t].pc = "commit", c5'[t] = Tuner!Parked
    PROVE  Tuner!Commit(t)
<1> USE DEF Tuner!Typed, Tuner!TypedRoutes, Tuner!Parked
<1>1. c5' # c5
  OBVIOUS
<1>2. CASE \/ Tuner!BootClears \/ \E m \in {"FM", "AM"} : Tuner!StatesModulation(m)
           \/ Tuner!KeyUp \/ Tuner!KeyClears \/ Tuner!KeyStates \/ Tuner!KeyReasserts \/ Tuner!KeyAsserts \/ Tuner!KeyOff
           \/ Tuner!MutePasses
           \/ (\E image \in Tuner!Images : Tuner!Knob(image)) \/ Tuner!PowerCycle \/ Tuner!FmAtTheRadio \/ Tuner!Monitors
  BY <1>1, <1>2 DEF Tuner!BootClears, Tuner!StatesModulation, Tuner!KeyUp, Tuner!KeyClears, Tuner!KeyStates, Tuner!KeyReasserts,
         Tuner!KeyAsserts, Tuner!KeyOff, Tuner!MutePasses, Tuner!Knob, Tuner!PowerCycle, Tuner!FmAtTheRadio, Tuner!Monitors
<1>3. CASE \/ \E hz \in TunerFreqs : Tuner!SetFrequency(t, hz)
           \/ \E tone \in TunerTones : Tuner!SetTone(t, tone)
           \/ \E on \in BOOLEAN : Tuner!SetTunePersist(t, on)
           \/ Tuner!Apply(t) \/ Tuner!Store(t) \/ Tuner!Restore(t) \/ Tuner!ClearsOnDemand(t) \/ Tuner!SwitchesOn(t)
  BY <1>3 DEF Tuner!SetFrequency, Tuner!SetTone, Tuner!Stages, Tuner!SetTunePersist, Tuner!Apply, Tuner!Store, Tuner!Restore,
         Tuner!ClearsOnDemand, Tuner!SwitchesOn, Tuner!Free
<1> QED
  BY <1>1, <1>2, <1>3 DEF Tuner!Next, Tuner!vars

\* The radio leaves the channel that it transmits on only by a hand on it.
LEMMA TunerOnlyHandsRetune ==
    ASSUME Tuner!IInv, Tuner!Pends, [Tuner!Next]_(Tuner!vars), c3
    PROVE  c1'.vfo = c1.vfo \/ c7' > c7
<1> USE DEF Tuner!IInv, Tuner!Typed, Tuner!TypedRadio, Tuner!Pends
<1>1. CASE \/ Tuner!BootClears \/ \E m \in {"FM", "AM"} : Tuner!StatesModulation(m)
           \/ Tuner!MutePasses \/ Tuner!FmAtTheRadio \/ Tuner!Monitors \/ UNCHANGED Tuner!vars
  BY <1>1 DEF Tuner!BootClears, Tuner!StatesModulation, Tuner!MutePasses, Tuner!FmAtTheRadio, Tuner!Monitors, Tuner!Answered,
         Tuner!Lost, Tuner!Fault, Tuner!FmOff, Tuner!vars
<1>2. CASE (\E image \in Tuner!Images : Tuner!Knob(image)) \/ Tuner!PowerCycle
  <2>1. c7' = c7 + 1
    BY <1>2 DEF Tuner!Knob, Tuner!PowerCycle, Tuner!Fault
  <2> QED
    BY <2>1
<1>3. CASE Tuner!KeyUp \/ Tuner!KeyClears \/ Tuner!KeyStates \/ Tuner!KeyReasserts \/ Tuner!KeyAsserts \/ Tuner!KeyOff
  BY <1>3 DEF Tuner!KeyUp, Tuner!KeyClears, Tuner!KeyStates, Tuner!KeyReasserts, Tuner!KeyAsserts, Tuner!KeyOff, Tuner!RoutesWait
<1>4. ASSUME NEW t \in TunerRoutes,
             \/ \E hz \in TunerFreqs : Tuner!SetFrequency(t, hz)
             \/ \E tone \in TunerTones : Tuner!SetTone(t, tone)
             \/ \E on \in BOOLEAN : Tuner!SetTunePersist(t, on)
             \/ Tuner!Commit(t) \/ Tuner!Apply(t) \/ Tuner!Store(t) \/ Tuner!Restore(t)
      PROVE  c1' = c1
  BY <1>4 DEF Tuner!SetFrequency, Tuner!SetTone, Tuner!Stages, Tuner!SetTunePersist, Tuner!Commit, Tuner!Apply, Tuner!Store, Tuner!Restore,
         Tuner!RoutesWait
<1>5. ASSUME NEW t \in TunerRoutes, Tuner!ClearsOnDemand(t) \/ Tuner!SwitchesOn(t)
      PROVE  c1'.vfo = c1.vfo
  BY <1>5 DEF Tuner!ClearsOnDemand, Tuner!SwitchesOn, Tuner!Answered, Tuner!Lost, Tuner!FmOff
<1> QED
  BY <1>1, <1>2, <1>3, <1>4, <1>5 DEF Tuner!Next

(* A change that is answered with nothing left to do is the channel that   *)
(* was asked for, as long as one thread tunes at a time; and no request    *)
(* moves the radio off a channel that it transmits on.                  *)
THEOREM RequestsAreAnsweredTrue ==
    ASSUME TunerTones # {}, NoImage \notin Tuner!Images, \A s, t \in TunerRoutes : s = t
    PROVE  Tuner!Spec => Tuner!AcceptedIsTuned /\ Tuner!CarrierStaysPut
<1>1. Tuner!Init => Tuner!IInv /\ Tuner!Pends
  BY TunerInitiallyParked DEF Tuner!Init, Tuner!Pends, Tuner!Parked
<1>2. Tuner!IInv /\ Tuner!Pends /\ [Tuner!Next]_(Tuner!vars) => (Tuner!IInv /\ Tuner!Pends)'
  <2>1. Tuner!IInv => Tuner!Typed
    BY DEF Tuner!IInv
  <2> QED
    BY <2>1, TunerStepsKeep, TunerStagedStaysStaged
<1>3. Tuner!IInv /\ Tuner!Pends /\ [Tuner!Next]_(Tuner!vars) => [Tuner!AcceptsTheTuned]_(Tuner!vars)
  <2> SUFFICES ASSUME Tuner!IInv, Tuner!Pends, [Tuner!Next]_(Tuner!vars), NEW t \in TunerRoutes,
                      c5[t].pc = "commit", c5'[t] = Tuner!Parked, ~c3
               PROVE  c2.tuned = c5[t].image
    BY DEF Tuner!AcceptsTheTuned
  <2>1. Tuner!Commit(t)
    BY TunerOnlyCommitAnswers DEF Tuner!IInv
  <2> QED
    BY <2>1 DEF Tuner!Pends, Tuner!Commit, Tuner!Leaves, Tuner!Parked, Tuner!IInv, Tuner!Typed, Tuner!TypedRoutes
<1>4. Tuner!IInv /\ Tuner!Pends /\ [Tuner!Next]_(Tuner!vars) => [Tuner!KeepsTheCarrier]_(Tuner!vars)
  BY TunerOnlyHandsRetune DEF Tuner!KeepsTheCarrier
<1> QED
  BY <1>1, <1>2, <1>3, <1>4, PTL DEF Tuner!Spec, Tuner!AcceptedIsTuned, Tuner!CarrierStaysPut

-----------------------------------------------------------------------------
(* Uvk5Radio: the UV-K5's keying. *)

CONSTANTS
    Uvk5Freqs, Uvk5KeyAttempts, Uvk5Retunes, Uvk5MaxFaults, Uvk5ChipFaults

Uvk5 == INSTANCE Uvk5Radio WITH
    Freqs <- Uvk5Freqs, NoFreq <- "none", KeyAttempts <- Uvk5KeyAttempts,
    Retunes <- Uvk5Retunes, MaxFaults <- Uvk5MaxFaults,
    ChipFaults <- Uvk5ChipFaults, PacerOverlaps <- FALSE,
    chip <- c1, host <- c2, stream <- c3, at <- c4, deaf <- c5, faults <- c6

\* Whatever one thread does at a place of _key_off keeps the invariant.
LEMMA Uvk5LeavingKeeps ==
    ASSUME "drop_lost" \notin Uvk5ChipFaults, Uvk5!IInv,
           NEW t \in Uvk5!Threads, Uvk5!Drop(t) \/ Uvk5!Retune(t) \/ Uvk5!Check(t) \/ Uvk5!Clear(t)
    PROVE  Uvk5!IInv'
<1> USE DEF Uvk5!IInv, Uvk5!Typed, Uvk5!Apart, Uvk5!Follows, Uvk5!Quiet, Uvk5!Threads, Uvk5!Leaving, Uvk5!Idle, Uvk5!Goes, Uvk5!Fault
<1>1. CASE Uvk5!Drop(t)
  <2>1. c1'.mode # "tx" /\ c2' = c2
    BY <1>1 DEF Uvk5!Drop
  <2>2. PICK pc \in {"clear", "retune"} : c4' = [c4 EXCEPT ![t].pc = pc, ![t].tries = 0]
    BY <1>1 DEF Uvk5!Drop
  <2>3. c1' \in [mode : {"rx", "off", "tx"}, hz : Uvk5Freqs, rail : {"rx", "pa"}]
    BY <1>1 DEF Uvk5!Drop
  <2>4. Uvk5!Typed'
    BY <2>1, <2>2, <2>3
  <2>5. /\ c4'[t].pc \in {"clear", "retune"}
        /\ \A u \in Uvk5!Threads \ {t} : c4'[u] = c4[u] /\ c4[u] = Uvk5!Idle
    BY <1>1 DEF Uvk5!Drop
  <2>6. c2.open
    BY <1>1 DEF Uvk5!Drop
  <2> QED
    BY <2>1, <2>4, <2>5, <2>6
<1>2. CASE Uvk5!Retune(t)
  BY <1>2 DEF Uvk5!Retune
<1>3. CASE Uvk5!Check(t)
  BY <1>3 DEF Uvk5!Check
<1>4. CASE Uvk5!Clear(t)
  <2>1. /\ c1' = c1
        /\ ~c2'.keyed /\ c2'.hz = c2.hz
        /\ c2'.open => c2.open
    BY <1>4 DEF Uvk5!Clear
  <2>2. Uvk5!Typed'
    BY <1>4 DEF Uvk5!Clear
  <2>3. /\ \A u \in Uvk5!Threads : c4'[u] = Uvk5!Idle
        /\ c1.mode # "tx"
    BY <1>4 DEF Uvk5!Clear
  <2> QED
    BY <2>1, <2>2, <2>3
<1> QED
  BY <1>1, <1>2, <1>3, <1>4

LEMMA Uvk5KeyingKeeps ==
    ASSUME Uvk5!IInv, Uvk5!KeyOn \/ Uvk5!Burst \/ Uvk5!Confirm \/ Uvk5!CorrectTxBand \/ Uvk5!CardFails
    PROVE  Uvk5!IInv'
<1> USE DEF Uvk5!IInv, Uvk5!Typed, Uvk5!Apart, Uvk5!Follows, Uvk5!Quiet, Uvk5!Threads, Uvk5!Leaving, Uvk5!Idle, Uvk5!Goes, Uvk5!Fault
<1>1. CASE Uvk5!KeyOn
  BY <1>1 DEF Uvk5!KeyOn, Uvk5!Free, Uvk5!Alone
<1>2. CASE Uvk5!Burst
  BY <1>2 DEF Uvk5!Burst
<1>3. CASE Uvk5!Confirm
  BY <1>3 DEF Uvk5!Confirm
<1>4. CASE Uvk5!CorrectTxBand
  BY <1>4 DEF Uvk5!CorrectTxBand
<1>5. CASE Uvk5!CardFails
  BY <1>5 DEF Uvk5!CardFails, Uvk5!Alone
<1> QED
  BY <1>1, <1>2, <1>3, <1>4, <1>5

LEMMA Uvk5CallsKeep ==
    ASSUME Uvk5!IInv,
           \/ \E hz \in Uvk5Freqs \cup {"none"} : Uvk5!Connects(hz) \/ Uvk5!SetSplit(hz)
           \/ \E hz \in Uvk5Freqs : Uvk5!SetFrequency(hz)
           \/ \E then \in {"idle", "close"} : Uvk5!KeyOff(then)
           \/ Uvk5!Close
    PROVE  Uvk5!IInv'
<1> USE DEF Uvk5!IInv, Uvk5!Typed, Uvk5!Apart, Uvk5!Follows, Uvk5!Quiet, Uvk5!Threads, Uvk5!Leaving, Uvk5!Idle, Uvk5!Free, Uvk5!Alone
<1>1. ASSUME NEW hz \in Uvk5Freqs \cup {"none"}, Uvk5!Connects(hz)
      PROVE  Uvk5!IInv'
  BY <1>1 DEF Uvk5!Connects
<1>2. ASSUME NEW hz \in Uvk5Freqs \cup {"none"}, Uvk5!SetSplit(hz)
      PROVE  Uvk5!IInv'
  BY <1>2 DEF Uvk5!SetSplit
<1>3. ASSUME NEW hz \in Uvk5Freqs, Uvk5!SetFrequency(hz)
      PROVE  Uvk5!IInv'
  BY <1>3 DEF Uvk5!SetFrequency
<1>4. ASSUME NEW then \in {"idle", "close"}, Uvk5!KeyOff(then)
      PROVE  Uvk5!IInv'
  BY <1>4 DEF Uvk5!KeyOff
<1>5. CASE Uvk5!Close
  BY <1>5 DEF Uvk5!Close
<1> QED
  BY <1>1, <1>2, <1>3, <1>4, <1>5

\* Wherever a thread is on its way, the synthesiser is where that place says.
LEMMA Uvk5StaysPlaced ==
    ASSUME Uvk5Retunes \in Nat, Uvk5!IInv, Uvk5!Placed, Uvk5!Next
    PROVE  Uvk5!Placed'
<1> USE DEF Uvk5!Quiet, Uvk5!Threads, Uvk5!Leaving, Uvk5!Idle, Uvk5!Goes, Uvk5!Fault, Uvk5!TxHz
<1>0. Uvk5!Typed /\ Uvk5!Apart /\ Uvk5!Follows
  BY DEF Uvk5!IInv
<1>1. ASSUME NEW hz \in Uvk5Freqs \cup {"none"}, Uvk5!Connects(hz) \/ Uvk5!SetSplit(hz)
      PROVE  Uvk5!Placed'
  BY ZenonT(40), <1>0, <1>1 DEF Uvk5!Typed, Uvk5!Apart, Uvk5!Follows, Uvk5!Placed, Uvk5!Connects, Uvk5!SetSplit, Uvk5!Free, Uvk5!Alone
<1>2. ASSUME NEW hz \in Uvk5Freqs, Uvk5!SetFrequency(hz)
      PROVE  Uvk5!Placed'
  BY <1>0, <1>2 DEF Uvk5!Typed, Uvk5!Apart, Uvk5!Follows, Uvk5!Placed, Uvk5!SetFrequency, Uvk5!Free, Uvk5!Alone
<1>3. CASE Uvk5!KeyOn
  BY <1>0, <1>3 DEF Uvk5!Typed, Uvk5!Apart, Uvk5!Follows, Uvk5!Placed, Uvk5!KeyOn, Uvk5!Free, Uvk5!Alone
<1>4. CASE Uvk5!Burst
  BY <1>0, <1>4 DEF Uvk5!Typed, Uvk5!Apart, Uvk5!Follows, Uvk5!Placed, Uvk5!Burst
<1>5. CASE Uvk5!Confirm
  BY <1>0, <1>5 DEF Uvk5!Typed, Uvk5!Apart, Uvk5!Follows, Uvk5!Placed, Uvk5!Confirm
<1>6. CASE Uvk5!CorrectTxBand
  BY <1>0, <1>6 DEF Uvk5!Typed, Uvk5!Apart, Uvk5!Follows, Uvk5!Placed, Uvk5!CorrectTxBand
<1>7. ASSUME NEW then \in {"idle", "close"}, Uvk5!KeyOff(then)
      PROVE  Uvk5!Placed'
  BY <1>0, <1>7 DEF Uvk5!Typed, Uvk5!Apart, Uvk5!Follows, Uvk5!Placed, Uvk5!KeyOff, Uvk5!Free, Uvk5!Alone
<1>8. CASE Uvk5!Close
  BY <1>0, <1>8 DEF Uvk5!Typed, Uvk5!Apart, Uvk5!Follows, Uvk5!Placed, Uvk5!Close, Uvk5!Free, Uvk5!Alone
<1>9. CASE Uvk5!CardFails
  BY <1>0, <1>9 DEF Uvk5!Typed, Uvk5!Apart, Uvk5!Follows, Uvk5!Placed, Uvk5!CardFails, Uvk5!Alone
<1>10. ASSUME NEW t \in Uvk5!Threads, Uvk5!Drop(t)
       PROVE  Uvk5!Placed'
  <2>1. /\ c4' = [c4 EXCEPT ![t].pc = IF c2.tx = "none" \/ c2.hz = "none"
                                       THEN "clear" ELSE "retune", ![t].tries = 0]
        /\ c2' = c2 /\ c5' = c5 /\ c1'.hz = c1.hz /\ c4[t].pc = "drop"
    BY <1>0, <1>10 DEF Uvk5!Typed, Uvk5!Drop
  <2>2. /\ c4'[t].pc = IF c2.tx = "none" \/ c2.hz = "none" THEN "clear" ELSE "retune"
        /\ \A u \in Uvk5!Threads \ {t} : c4'[u] = c4[u] /\ c4[u] = Uvk5!Idle
    BY <1>0, <2>1 DEF Uvk5!Typed, Uvk5!Apart
  <2>3. /\ c2' = c2 /\ c5' = c5 /\ c1'.hz = c1.hz
        /\ ~c5 /\ c2.hz # "none" /\ c2.tx = "none" => c1.hz = c2.hz
    BY <2>1 DEF Uvk5!Placed
  <2>4. \A u \in Uvk5!Threads : c4'[u].pc \in {"idle", "clear", "retune"}
    BY <2>2
  <2>5. c4'[t].pc # "idle" /\ ~Uvk5!Quiet'
    BY <2>2
  <2>6. \A u \in Uvk5!Threads : c4'[u].pc = "clear" => c2.tx = "none" \/ c2.hz = "none"
    BY <2>2
  <2> QED
    BY <2>3, <2>4, <2>5, <2>6 DEF Uvk5!Placed
<1>11. ASSUME NEW t \in Uvk5!Threads, Uvk5!Retune(t)
       PROVE  Uvk5!Placed'
  BY <1>0, <1>11 DEF Uvk5!Typed, Uvk5!Apart, Uvk5!Follows, Uvk5!Placed, Uvk5!Retune
<1>12. ASSUME NEW t \in Uvk5!Threads, Uvk5!Check(t)
       PROVE  Uvk5!Placed'
  BY <1>0, <1>12 DEF Uvk5!Typed, Uvk5!Apart, Uvk5!Follows, Uvk5!Placed, Uvk5!Check
<1>13. ASSUME NEW t \in Uvk5!Threads, Uvk5!Clear(t)
       PROVE  Uvk5!Placed'
  BY <1>0, <1>13 DEF Uvk5!Typed, Uvk5!Apart, Uvk5!Follows, Uvk5!Placed, Uvk5!Clear
<1> QED
  BY <1>1, <1>2, <1>3, <1>4, <1>5, <1>6, <1>7, <1>8, <1>9, <1>10, <1>11, <1>12, <1>13 DEF Uvk5!Next

\* A carrier is up exactly for an over somebody holds, and the station is on the
\* frequency it was told, when key-off's write gets through and the writer's
\* key-off runs beside nothing else; whatever key-ups, retunes and readings are
\* lost.
THEOREM CarrierFollowsTheKey ==
    ASSUME Uvk5Retunes \in Nat, "drop_lost" \notin Uvk5ChipFaults
    PROVE  Uvk5!Spec => [](Uvk5!CarrierIsHeld /\ Uvk5!StationIsWhereTold)
<1>1. Uvk5!Init => Uvk5!IInv /\ Uvk5!Placed
  BY DEF Uvk5!Init, Uvk5!IInv, Uvk5!Typed, Uvk5!Apart, Uvk5!Follows, Uvk5!Placed, Uvk5!Quiet, Uvk5!Threads, Uvk5!Leaving, Uvk5!Idle
<1>2. Uvk5!IInv /\ Uvk5!Placed /\ [Uvk5!Next]_(Uvk5!vars) => Uvk5!IInv' /\ Uvk5!Placed'
  <2> SUFFICES ASSUME Uvk5!IInv, Uvk5!Placed, [Uvk5!Next]_(Uvk5!vars)
               PROVE  Uvk5!IInv' /\ Uvk5!Placed'
    OBVIOUS
  <2>1. CASE UNCHANGED Uvk5!vars
    BY <2>1 DEF Uvk5!vars, Uvk5!IInv, Uvk5!Typed, Uvk5!Apart, Uvk5!Follows, Uvk5!Placed, Uvk5!Quiet, Uvk5!TxHz
  <2>2. CASE Uvk5!Next
    BY <2>2, Uvk5LeavingKeeps, Uvk5KeyingKeeps, Uvk5CallsKeep, Uvk5StaysPlaced DEF Uvk5!Next
  <2> QED
    BY <2>1, <2>2
<1>3. Uvk5!IInv /\ Uvk5!Placed => Uvk5!CarrierIsHeld /\ Uvk5!StationIsWhereTold
  BY DEF Uvk5!IInv, Uvk5!Follows, Uvk5!Placed, Uvk5!CarrierIsHeld, Uvk5!StationIsWhereTold
<1> QED
  BY <1>1, <1>2, <1>3, PTL DEF Uvk5!Spec

-----------------------------------------------------------------------------
(* EepromStore: a channel stored and the reboot onto it. *)

CONSTANTS
    StoreImages, StoreBands, StoreBandOf(_), StoreHelloAttempts, StoreMaxJobs,
    StoreMaxFaults, StoreFaults

Store == INSTANCE EepromStore WITH
    Images <- StoreImages, Bands <- StoreBands, BandOf <- StoreBandOf,
    HelloAttempts <- StoreHelloAttempts, MaxJobs <- StoreMaxJobs,
    MaxFaults <- StoreMaxFaults, StoreFaults <- StoreFaults,
    rom <- c1, radio <- c2, job <- c3, ok <- c4, jobs <- c5, faults <- c6

\* What one patch of a record changes.
LEMMA PatchedChangesOne ==
    ASSUME Store!StoreAssumption, Store!TypedRom, c3.image \in StoreImages, NEW step \in 1 .. 4,
           c1' = Store!Patched(step)
    PROVE  /\ Store!TypedRom'
           /\ c1'.attr = (IF step = 1 THEN c1.attr \cup {StoreBandOf(c3.image)} ELSE c1.attr)
           /\ c1'.boot = (IF step = 4 THEN StoreBandOf(c3.image) ELSE c1.boot)
           /\ \A b \in StoreBands, v \in Store!VFOs :
                 c1'.rec[b][v] = (IF b = StoreBandOf(c3.image) /\ v = step - 2 THEN c3.image
                                   ELSE c1.rec[b][v])
<1> DEFINE band == StoreBandOf(c3.image)
<1>1. band \in StoreBands
  BY DEF Store!StoreAssumption
<1>2. CASE step = 1
  <2>1. c1' = [c1 EXCEPT !.attr = @ \cup {band}]
    BY <1>2 DEF Store!Patched
  <2> QED
    BY <1>1, <1>2, <2>1 DEF Store!TypedRom, Store!VFOs
<1>3. CASE step = 2
  <2>1. c1' = [c1 EXCEPT !.rec[band][0] = c3.image]
    BY <1>3 DEF Store!Patched
  <2> QED
    BY <1>1, <1>3, <2>1 DEF Store!TypedRom, Store!VFOs
<1>4. CASE step = 3
  <2>1. c1' = [c1 EXCEPT !.rec[band][1] = c3.image]
    BY <1>4 DEF Store!Patched
  <2> QED
    BY <1>1, <1>4, <2>1 DEF Store!TypedRom, Store!VFOs
<1>5. CASE step = 4
  <2>1. c1' = [c1 EXCEPT !.boot = band]
    BY <1>5 DEF Store!Patched
  <2> QED
    BY <1>1, <1>5, <2>1 DEF Store!TypedRom, Store!VFOs
<1> QED
  BY <1>2, <1>3, <1>4, <1>5

\* What each step of a store looks for.
LEMMA HoldsIs ==
    ASSUME c3.step \in 1 .. 7
    PROVE  LET band == StoreBandOf(c3.image) IN
           /\ c3.step = 1 => (Store!Holds(c3.step) <=> band \in c1.attr)
           /\ c3.step = 2 => (Store!Holds(c3.step) <=> c1.rec[band][0] = c3.image)
           /\ c3.step = 3 => (Store!Holds(c3.step) <=> c1.rec[band][1] = c3.image)
           /\ c3.step = 4 => (Store!Holds(c3.step) <=> c1.boot = band)
           /\ c3.step = 5 => (Store!Holds(c3.step) <=> c1.rec[band][0] = c3.image)
           /\ c3.step = 6 => (Store!Holds(c3.step) <=> c1.rec[band][1] = c3.image)
           /\ c3.step = 7 => (Store!Holds(c3.step) <=> c1.rec[band][0] = c3.image)
<1>1. CASE c3.step = 1
  BY <1>1 DEF Store!Holds
<1>2. CASE c3.step = 2
  BY <1>2 DEF Store!Holds
<1>3. CASE c3.step = 3
  BY <1>3 DEF Store!Holds
<1>4. CASE c3.step = 4
  BY <1>4 DEF Store!Holds
<1>5. CASE c3.step = 5
  BY <1>5 DEF Store!Holds
<1>6. CASE c3.step = 6
  BY <1>6 DEF Store!Holds
<1>7. CASE c3.step = 7
  BY <1>7 DEF Store!Holds
<1> QED
  BY <1>1, <1>2, <1>3, <1>4, <1>5, <1>6, <1>7

\* A conversation that ends, or goes on at the step where it stands, leaves
\* what is behind it as it was.
LEMMA SameStepStands ==
    ASSUME Store!OnTheWay, UNCHANGED c1, Store!TypedJob', Store!Stands', Store!Differs', c3'.pc # "stored",
           Store!Busy' => (Store!Busy /\ c3'.image = c3.image /\ c3'.step = c3.step) \/ c3'.step = 1
    PROVE  Store!OnTheWay'
<1>1. Store!TypedRom' /\ Store!BootsWhole' /\ Store!StoredIsStored'
  BY DEF Store!OnTheWay, Store!TypedRom, Store!BootsWhole, Store!Boots, Store!StoredIsStored
<1>2. Store!Behind'
  <2> SUFFICES ASSUME Store!Busy', c3'.step # 1
               PROVE  Store!Behind'
    BY DEF Store!Behind, Store!TypedJob
  <2>1. Store!Busy /\ c3'.image = c3.image /\ c3'.step = c3.step
    OBVIOUS
  <2> QED
    BY <2>1 DEF Store!OnTheWay, Store!Behind
<1> QED
  BY <1>1, <1>2 DEF Store!OnTheWay

LEMMA FailedIsIdle ==
    ASSUME Store!OnTheWay, UNCHANGED c1, c3' = Store!NoJob
    PROVE  Store!OnTheWay'
<1>1. /\ c3' \in [pc : {"idle"}, image : {Store!Nothing}, step : {1}, retried : BOOLEAN,
                   hellos : Nat, how : {"store", "apply"}, back : {"read", "write"}]
  BY DEF Store!NoJob, Store!Fresh
<1>2. Store!TypedJob' /\ Store!Stands' /\ Store!Differs' /\ ~Store!Busy'
  BY <1>1 DEF Store!TypedJob, Store!Stands, Store!Differs, Store!Busy
<1> QED
  BY <1>1, <1>2, SameStepStands

\* An exchange without an answer: one more handshake, and back to it.
LEMMA UnansweredStands ==
    ASSUME Store!OnTheWay, UNCHANGED c1, NEW back \in {"read", "write"}, c3.pc = back, Store!Unanswered(back)
    PROVE  Store!OnTheWay'
<1>1. CASE c3.retried
  BY <1>1, FailedIsIdle DEF Store!Unanswered, Store!Fails
<1>2. CASE ~c3.retried
  <2>1. c3' = [c3 EXCEPT !.pc = "hello", !.hellos = 1, !.retried = TRUE, !.back = back]
    BY <1>2 DEF Store!Unanswered
  <2>2. /\ c3'.pc = "hello" /\ c3'.retried /\ c3'.back = back
        /\ c3'.image = c3.image /\ c3'.step = c3.step /\ Store!TypedJob'
    BY <2>1 DEF Store!OnTheWay, Store!TypedJob
  <2>3. Store!Busy /\ Store!Busy'
    BY <2>2 DEF Store!Busy
  <2>4. Store!Stands' /\ Store!Differs'
    BY <2>2, <2>3 DEF Store!OnTheWay, Store!Stands, Store!Differs, Store!Busy
  <2> QED
    BY <2>2, <2>3, <2>4, SameStepStands
<1> QED
  BY <1>1, <1>2

\* One step on: to the next record, to the reset or to the end.
LEMMA MovesOn ==
    ASSUME Store!TypedJob, Store!Stands, Store!Moves, c3.image \in StoreImages
    PROVE  /\ Store!TypedJob' /\ Store!Stands' /\ Store!Differs'
           /\ c3'.image = c3.image
           /\ c3.step < 6 => c3'.pc = "read" /\ c3'.step = c3.step + 1
           /\ c3.step = 6 => c3'.pc = "stored" \/ (c3'.pc = "reset" /\ c3'.step = 7)
           /\ c3.step = 7 => c3'.pc = "stored"
<1>1. CASE c3.step = 6 /\ c3.how = "apply"
  <2>1. PICK seven \in 1 .. 7 : seven = 7
    OBVIOUS
  <2>2. c3' = [c3 EXCEPT !.pc = "reset", !.step = seven]
    BY <1>1, <2>1 DEF Store!Moves
  <2>3. c3'.pc = "reset" /\ c3'.step = seven /\ c3'.image = c3.image /\ Store!TypedJob'
    BY <2>2 DEF Store!TypedJob
  <2> QED
    BY <1>1, <2>1, <2>3 DEF Store!Stands, Store!Differs, Store!Busy
<1>2. CASE c3.step >= 6 /\ ~(c3.step = 6 /\ c3.how = "apply")
  <2>1. c3' = Store!Fresh("stored", c3.image, c3.how, 0)
    BY <1>2 DEF Store!Moves
  <2>2. c3'.pc = "stored" /\ c3'.image = c3.image /\ Store!TypedJob'
    BY <2>1 DEF Store!TypedJob, Store!Fresh
  <2>3. Store!Stands' /\ Store!Differs'
    BY <2>2 DEF Store!Stands, Store!Differs, Store!Busy
  <2>4. ~(c3.step < 6)
    BY <1>2 DEF Store!TypedJob
  <2> QED
    BY <2>2, <2>3, <2>4
<1>3. CASE c3.step < 6
  <2>1. c3' = [c3 EXCEPT !.pc = "read", !.step = c3.step + 1, !.retried = FALSE]
    BY <1>3 DEF Store!Moves, Store!TypedJob
  <2>2. PICK next \in 1 .. 7 : next = c3.step + 1
    BY <1>3 DEF Store!TypedJob
  <2>3. c3'.pc = "read" /\ c3'.step = next /\ c3'.image = c3.image /\ Store!TypedJob'
    BY <2>1, <2>2 DEF Store!TypedJob
  <2> QED
    BY <1>3, <2>2, <2>3 DEF Store!Stands, Store!Differs, Store!Busy
<1> QED
  BY <1>1, <1>2, <1>3 DEF Store!TypedJob

\* A step that found its record in place is one more behind.
LEMMA HeldIsBehind ==
    ASSUME Store!StoreAssumption, Store!OnTheWay, UNCHANGED c1, c3.pc = "read", Store!Holds(c3.step), Store!Moves
    PROVE  Store!OnTheWay'
<1>1. c3.image \in StoreImages /\ Store!Busy
  BY DEF Store!OnTheWay, Store!Stands, Store!Busy
<1>2. c3.step \in 1 .. 7
  BY DEF Store!OnTheWay, Store!TypedJob
<1>3. Store!TypedRom' /\ Store!BootsWhole'
  BY DEF Store!OnTheWay, Store!TypedRom, Store!BootsWhole, Store!Boots
<1>4. /\ Store!TypedJob' /\ Store!Stands' /\ Store!Differs' /\ c3'.image = c3.image
      /\ c3.step < 6 => c3'.pc = "read" /\ c3'.step = c3.step + 1
      /\ c3.step = 6 => c3'.pc = "stored" \/ (c3'.pc = "reset" /\ c3'.step = 7)
      /\ c3.step = 7 => c3'.pc = "stored"
  BY <1>1, MovesOn DEF Store!OnTheWay
<1>5. Store!Behind'
  BY <1>1, <1>2, <1>4, HoldsIs DEF Store!OnTheWay, Store!Behind, Store!Busy
<1>6. Store!StoredIsStored'
  <2> SUFFICES ASSUME c3'.pc = "stored"
               PROVE  Store!StoredIsStored'
    BY DEF Store!StoredIsStored
  <2>1. c3.step \in {6, 7}
    BY <1>2, <1>4
  <2> QED
    BY <1>1, <1>4, <2>1, HoldsIs DEF Store!OnTheWay, Store!Behind, Store!StoredIsStored, Store!VFOs
<1> QED
  BY <1>3, <1>4, <1>5, <1>6 DEF Store!OnTheWay

\* A record patched at its step: what is behind stays, and the boot band moves
\* onto a whole channel only.
LEMMA PatchedStaysWhole ==
    ASSUME Store!StoreAssumption, Store!OnTheWay, Store!Busy, c3.step <= 4, c1' = Store!Patched(c3.step)
    PROVE  LET band == StoreBandOf(c3.image) IN
           /\ Store!TypedRom' /\ Store!BootsWhole'
           /\ c3.step >= 1 => band \in c1'.attr
           /\ c3.step >= 2 => c1'.rec[band][0] = c3.image
           /\ c3.step >= 3 => c1'.rec[band][1] = c3.image
           /\ c3.step >= 4 => c1'.boot = band
<1> DEFINE band == StoreBandOf(c3.image)
<1>1. c3.image \in StoreImages /\ band \in StoreBands
  BY DEF Store!OnTheWay, Store!Stands, Store!StoreAssumption
<1>2. c3.step \in 1 .. 4
  BY DEF Store!OnTheWay, Store!TypedJob
<1>3. /\ Store!TypedRom'
      /\ c1'.attr = (IF c3.step = 1 THEN c1.attr \cup {band} ELSE c1.attr)
      /\ c1'.boot = (IF c3.step = 4 THEN band ELSE c1.boot)
      /\ \A b \in StoreBands, v \in Store!VFOs :
            c1'.rec[b][v] = (IF b = band /\ v = c3.step - 2 THEN c3.image ELSE c1.rec[b][v])
  BY <1>1, <1>2, PatchedChangesOne DEF Store!OnTheWay
<1>4. /\ c3.step >= 1 => band \in c1'.attr
      /\ c3.step >= 2 => c1'.rec[band][0] = c3.image
      /\ c3.step >= 3 => c1'.rec[band][1] = c3.image
      /\ c3.step >= 4 => c1'.boot = band
  BY <1>1, <1>2, <1>3 DEF Store!OnTheWay, Store!Behind, Store!VFOs
<1>5. Store!BootsWhole'
  <2>1. c1.boot \in StoreBands /\ c1.boot \in c1.attr /\ c1.rec[c1.boot][0] \in StoreImages
    BY DEF Store!OnTheWay, Store!TypedRom, Store!BootsWhole, Store!Boots
  <2>2. CASE c3.step = 4
    BY <1>1, <1>3, <1>4, <2>2 DEF Store!BootsWhole, Store!Boots
  <2>3. CASE c3.step # 4
    BY <1>1, <1>3, <2>1, <2>3 DEF Store!BootsWhole, Store!Boots, Store!VFOs
  <2> QED
    BY <2>2, <2>3
<1> QED
  BY <1>3, <1>4, <1>5

LEMMA WriteKeeps ==
    ASSUME Store!StoreAssumption, Store!OnTheWay, Store!Write
    PROVE  Store!OnTheWay'
<1>1. c3.pc = "write" /\ Store!Busy /\ c3.step <= 4 /\ c3.image \in StoreImages
  BY DEF Store!Write, Store!OnTheWay, Store!Stands, Store!Busy
<1>2. c3.step \in 1 .. 4
  BY <1>1 DEF Store!OnTheWay, Store!TypedJob
<1>3. CASE c1' = Store!Patched(c3.step) /\ Store!Moves
  <2>1. /\ Store!TypedJob' /\ Store!Stands' /\ Store!Differs' /\ c3'.image = c3.image
        /\ c3'.pc = "read" /\ c3'.step = c3.step + 1
    BY <1>1, <1>2, <1>3, MovesOn DEF Store!OnTheWay
  <2>2. Store!TypedRom' /\ Store!BootsWhole'
    BY <1>1, <1>3, PatchedStaysWhole
  <2>3. Store!Behind'
    BY <1>1, <1>2, <1>3, <2>1, PatchedStaysWhole DEF Store!Behind
  <2> QED
    BY <2>1, <2>2, <2>3 DEF Store!OnTheWay, Store!StoredIsStored
<1>4. CASE Store!Unanswered("write") /\ c1' = c1
  BY <1>1, <1>4, UnansweredStands
<1>5. CASE Store!Unanswered("write") /\ c1' = Store!Patched(c3.step)
  <2>1. Store!TypedRom' /\ Store!BootsWhole'
    BY <1>1, <1>5, PatchedStaysWhole
  <2>2. CASE c3.retried
    <3>1. c3' = Store!NoJob
      BY <1>5, <2>2 DEF Store!Unanswered, Store!Fails
    <3>2. c3' \in [pc : {"idle"}, image : {Store!Nothing}, step : {1}, retried : BOOLEAN,
                    hellos : Nat, how : {"store", "apply"}, back : {"read", "write"}]
      BY <3>1 DEF Store!NoJob, Store!Fresh
    <3> QED
      BY <2>1, <3>2 DEF Store!OnTheWay, Store!TypedJob, Store!Stands, Store!Behind, Store!Differs, Store!StoredIsStored, Store!Busy
  <2>3. CASE ~c3.retried
    <3>1. c3' = [c3 EXCEPT !.pc = "hello", !.hellos = 1, !.retried = TRUE, !.back = "write"]
      BY <1>5, <2>3 DEF Store!Unanswered
    <3>2. /\ c3'.pc = "hello" /\ c3'.retried /\ c3'.back = "write"
          /\ c3'.image = c3.image /\ c3'.step = c3.step /\ Store!TypedJob'
      BY <3>1 DEF Store!OnTheWay, Store!TypedJob
    <3>3. Store!Stands' /\ Store!Differs' /\ Store!StoredIsStored'
      BY <1>1, <3>2 DEF Store!Stands, Store!Differs, Store!StoredIsStored, Store!Busy
    <3>4. Store!Behind'
      BY <1>1, <1>2, <1>5, <3>2, PatchedStaysWhole DEF Store!Behind
    <3> QED
      BY <2>1, <3>2, <3>3, <3>4 DEF Store!OnTheWay
  <2> QED
    BY <2>2, <2>3
<1> QED
  BY <1>3, <1>4, <1>5 DEF Store!Write, Store!Fault, Store!StoreAssumption

\* For any images, bands and channels to store, with a radio whose acknowledged
\* writes are done: a store that returned is stored, a radio that is switched
\* off comes up whole, it is reset onto its channel, and not written in vain.
THEOREM StoredChannelsAreWhole ==
    ASSUME Store!StoreAssumption
    PROVE  Store!Spec => [](Store!StoredIsStored /\ Store!BootsWhole) /\ Store!ResetsOntoTheChannel /\ Store!WritesOnlyWhatDiffers
<1>1. Store!Init => Store!IInv
  <2> SUFFICES ASSUME Store!Init
               PROVE  Store!IInv
    OBVIOUS
  <2>1. PICK image \in StoreImages :
          c1 = [attr |-> {StoreBandOf(image)}, boot |-> StoreBandOf(image),
                 rec |-> [b \in StoreBands |-> [v \in Store!VFOs |-> IF b = StoreBandOf(image) THEN image ELSE Store!Nothing]]]
    BY DEF Store!Init
  <2>2. StoreBandOf(image) \in StoreBands
    BY DEF Store!StoreAssumption
  <2>3. Store!TypedRom /\ Store!BootsWhole /\ Store!Boots(c1) \in StoreImages
    BY <2>1, <2>2 DEF Store!TypedRom, Store!BootsWhole, Store!Boots, Store!VFOs
  <2>4. Store!TypedRadio
    BY <2>3 DEF Store!Init, Store!TypedRadio
  <2>5. c3 \in [pc : {"idle"}, image : {Store!Nothing}, step : {1}, retried : BOOLEAN,
                 hellos : Nat, how : {"store", "apply"}, back : {"read", "write"}]
    BY DEF Store!Init, Store!NoJob, Store!Fresh
  <2>6. Store!TypedJob /\ Store!Stands /\ Store!Behind /\ Store!Differs /\ Store!StoredIsStored
    BY <2>5 DEF Store!TypedJob, Store!Stands, Store!Behind, Store!Differs, Store!StoredIsStored, Store!Busy
  <2> QED
    BY <2>3, <2>4, <2>6 DEF Store!IInv, Store!OnTheWay
<1>2. Store!IInv /\ [Store!Next]_(Store!vars) => Store!IInv'
  <2> SUFFICES ASSUME Store!IInv, [Store!Next]_(Store!vars)
               PROVE  Store!IInv'
    OBVIOUS
  <2>0. Store!OnTheWay /\ Store!TypedRadio /\ Store!Boots(c1) \in StoreImages
    BY DEF Store!IInv, Store!OnTheWay, Store!BootsWhole
  <2>1. Store!TypedRadio'
    <3>1. CASE \E image \in StoreImages, how \in {"store", "apply"} : Store!Begins(image, how)
      BY <2>0, <3>1 DEF Store!Begins, Store!TypedRadio
    <3>2. CASE Store!Hello
      BY <2>0, <3>2 DEF Store!Hello, Store!TypedRadio
    <3>3. CASE Store!Read \/ Store!Write \/ UNCHANGED Store!vars
      BY <2>0, <3>3 DEF Store!Read, Store!Write, Store!TypedRadio, Store!vars
    <3>4. CASE Store!Reset \/ Store!PowerCycle \/ Store!Locks
      BY <2>0, <3>4 DEF Store!Reset, Store!PowerCycle, Store!Locks, Store!TypedRadio
    <3> QED
      BY <3>1, <3>2, <3>3, <3>4 DEF Store!Next
  <2>2. Store!OnTheWay'
    <3>1. ASSUME NEW image \in StoreImages, NEW how \in {"store", "apply"}, Store!Begins(image, how)
          PROVE  Store!OnTheWay'
      <4>1. /\ c3'.pc = "hello" /\ c3'.image = image /\ c3'.step = 1 /\ c3'.back = "read"
            /\ Store!TypedJob' /\ UNCHANGED c1
        BY <3>1 DEF Store!Begins, Store!Fresh, Store!TypedJob
      <4>2. Store!Stands' /\ Store!Differs'
        BY <4>1 DEF Store!Stands, Store!Differs, Store!Busy
      <4> QED
        BY <2>0, <4>1, <4>2, SameStepStands
    <3>2. CASE Store!Hello
      <4>1. UNCHANGED c1 /\ c3.pc = "hello" /\ Store!Busy
        BY <3>2 DEF Store!Hello, Store!Busy
      <4>2. CASE Store!Goes(c3.back)
        <5>1. /\ c3'.pc = c3.back /\ c3'.image = c3.image /\ c3'.step = c3.step
              /\ c3'.retried = c3.retried /\ c3'.back = c3.back /\ Store!TypedJob'
          BY <2>0, <4>2 DEF Store!Goes, Store!OnTheWay, Store!TypedJob
        <5>2. c3.back \in {"read", "write"}
          BY <2>0 DEF Store!OnTheWay, Store!TypedJob
        <5>3. Store!Stands' /\ Store!Differs'
          BY <2>0, <4>1, <5>1, <5>2 DEF Store!OnTheWay, Store!Stands, Store!Differs, Store!Busy
        <5> QED
          BY <2>0, <4>1, <5>1, <5>2, <5>3, SameStepStands
      <4>3. CASE c3' = [c3 EXCEPT !.hellos = @ - 1] /\ c3.hellos > 1
        <5>1. /\ c3'.pc = c3.pc /\ c3'.image = c3.image /\ c3'.step = c3.step
              /\ c3'.retried = c3.retried /\ c3'.back = c3.back /\ Store!TypedJob'
          BY <2>0, <4>3 DEF Store!OnTheWay, Store!TypedJob
        <5>2. Store!Stands' /\ Store!Differs'
          BY <2>0, <4>1, <5>1 DEF Store!OnTheWay, Store!Stands, Store!Differs, Store!Busy
        <5> QED
          BY <2>0, <4>1, <5>1, <5>2, SameStepStands
      <4>4. CASE Store!Fails
        BY <2>0, <4>1, <4>4, FailedIsIdle DEF Store!Fails
      <4> QED
        BY <3>2, <4>2, <4>3, <4>4 DEF Store!Hello
    <3>3. CASE Store!Read
      <4>1. c3.pc = "read" /\ UNCHANGED c1
        BY <3>3 DEF Store!Read
      <4>2. CASE Store!Holds(c3.step) /\ Store!Moves
        BY <2>0, <4>1, <4>2, HeldIsBehind
      <4>3. CASE Store!Goes("write") /\ ~Store!Holds(c3.step) /\ c3.step <= 4
        <5>1. /\ c3'.pc = "write" /\ c3'.image = c3.image /\ c3'.step = c3.step
              /\ c3'.retried = c3.retried /\ Store!TypedJob'
          BY <2>0, <4>3 DEF Store!Goes, Store!OnTheWay, Store!TypedJob
        <5>2. Store!Busy /\ Store!Busy' /\ Store!Stands'
          BY <2>0, <4>1, <4>3, <5>1 DEF Store!OnTheWay, Store!Stands, Store!Busy
        <5>3. (Store!Holds(c3.step))' <=> Store!Holds(c3.step)
          BY <4>1, <5>1 DEF Store!Holds
        <5>4. Store!Differs'
          BY <4>3, <5>3 DEF Store!Differs
        <5> QED
          BY <2>0, <4>1, <5>1, <5>2, <5>4, SameStepStands
      <4>4. CASE Store!Fails
        BY <2>0, <4>1, <4>4, FailedIsIdle DEF Store!Fails
      <4>5. CASE Store!Unanswered("read")
        BY <2>0, <4>1, <4>5, UnansweredStands
      <4> QED
        BY <3>3, <4>2, <4>3, <4>4, <4>5 DEF Store!Read
    <3>4. CASE Store!Write
      BY <2>0, <3>4, WriteKeeps
    <3>5. CASE Store!Reset
      <4>1. /\ c3'.pc = "hello" /\ c3'.image = c3.image /\ c3'.step = c3.step
            /\ c3'.back = "read" /\ Store!TypedJob' /\ UNCHANGED c1 /\ c3.pc = "reset"
        BY <2>0, <3>5 DEF Store!Reset, Store!OnTheWay, Store!TypedJob, Store!StoreAssumption
      <4>2. Store!Busy /\ Store!Stands' /\ Store!Differs'
        BY <2>0, <4>1 DEF Store!OnTheWay, Store!Stands, Store!Differs, Store!Busy
      <4> QED
        BY <2>0, <4>1, <4>2, SameStepStands
    <3>6. CASE Store!PowerCycle \/ Store!Locks \/ UNCHANGED Store!vars
      <4>1. UNCHANGED <<c1, c3>>
        BY <3>6 DEF Store!PowerCycle, Store!Locks, Store!vars
      <4>2. Store!TypedRom' /\ Store!TypedJob' /\ Store!Stands' /\ Store!Behind' /\ Store!BootsWhole' /\ Store!StoredIsStored'
        BY <2>0, <4>1 DEF Store!OnTheWay, Store!TypedRom, Store!TypedJob, Store!Stands, Store!Busy, Store!Behind, Store!BootsWhole, Store!Boots,
               Store!StoredIsStored
      <4>3. (Store!Holds(c3.step))' <=> Store!Holds(c3.step)
        BY <4>1 DEF Store!Holds
      <4>4. Store!Differs'
        BY <2>0, <4>1, <4>3 DEF Store!OnTheWay, Store!Differs
      <4> QED
        BY <4>2, <4>4 DEF Store!OnTheWay
    <3> QED
      BY <3>1, <3>2, <3>3, <3>4, <3>5, <3>6 DEF Store!Next
  <2> QED
    BY <2>1, <2>2 DEF Store!IInv
<1>3. Store!IInv => Store!StoredIsStored /\ Store!BootsWhole
  BY DEF Store!IInv, Store!OnTheWay
<1>4. Store!IInv /\ [Store!Next]_(Store!vars) => [Store!ResetsToTheImage]_(Store!vars)
  <2> SUFFICES ASSUME Store!IInv, Store!Reset, c2' # c2
               PROVE  c2'.runs = c3.image
    BY DEF Store!ResetsToTheImage
  <2>1. c2'.runs = Store!Boots(c1) /\ c3.pc = "reset"
    BY DEF Store!Reset, Store!IInv, Store!TypedRadio
  <2>2. c3.step = 7 /\ Store!Busy
    BY <2>1 DEF Store!IInv, Store!OnTheWay, Store!Stands, Store!Busy
  <2> QED
    BY <2>1, <2>2 DEF Store!IInv, Store!OnTheWay, Store!Behind, Store!Boots
<1>5. Store!IInv /\ [Store!Next]_(Store!vars) => [Store!WritesAChange]_(Store!vars)
  <2> SUFFICES ASSUME Store!IInv, Store!Write, ~c3.retried
               PROVE  ~Store!Holds(c3.step)
    BY DEF Store!WritesAChange
  <2> QED
    BY DEF Store!IInv, Store!OnTheWay, Store!Differs, Store!Write
<1> QED
  BY <1>1, <1>2, <1>3, <1>4, <1>5, PTL DEF Store!Spec, Store!ResetsOntoTheChannel, Store!WritesOnlyWhatDiffers

-----------------------------------------------------------------------------
(* RssiCadence: the meter's cadence beside the key-ups. *)

CONSTANTS
    RssiKeyers, RssiStale, RssiLevels, RssiStalls, RssiMaxPolls, RssiMaxTime

Rssi == INSTANCE RssiCadence WITH
    Keyers <- RssiKeyers, Stale <- RssiStale, Levels <- RssiLevels,
    Stalls <- RssiStalls, OutlastsPoll <- TRUE, MaxPolls <- RssiMaxPolls,
    MaxTime <- RssiMaxTime,
    poller <- c1, asked <- c2, stopping <- c3, wire <- c4, exchanges <- c5,
    reading <- c6, pc <- c7, keying <- c8, transmitting <- c9, line <- c10,
    record <- c11, straddles <- c12, missed <- c13, now <- c14

LEMMA KeyersCountAlike == \A S : Rssi!Cardinality(S) = Cardinality(S)
  BY DEF Rssi!Cardinality, Cardinality
LEMMA KeyersFiniteAlike == \A S : Rssi!IsFiniteSet(S) <=> IsFiniteSet(S)
  BY DEF Rssi!IsFiniteSet, IsFiniteSet

\* One key-up more, one less, or as many as before.
LEMMA KeyUpsChange ==
    ASSUME Rssi!KeyersAssumption, NEW k \in RssiKeyers, NEW p, c7' = [c7 EXCEPT ![k] = p],
           c7 \in [RssiKeyers -> {"idle", "reserved", "quiet", "sampled", "on"}]
    PROVE  LET before == Cardinality({j \in RssiKeyers : Rssi!Keys(j)})
               after == Cardinality({j \in RssiKeyers : Rssi!Keys(j)'})
           IN  /\ before \in Nat
               /\ ~Rssi!Keys(k) /\ p \in {"reserved", "quiet", "sampled"} => after = before + 1
               /\ Rssi!Keys(k) /\ p \notin {"reserved", "quiet", "sampled"} => after = before - 1
               /\ (Rssi!Keys(k) <=> p \in {"reserved", "quiet", "sampled"}) => after = before
<1> DEFINE B == {j \in RssiKeyers : Rssi!Keys(j)}
           A == {j \in RssiKeyers : Rssi!Keys(j)'}
<1>1. IsFiniteSet(B) /\ IsFiniteSet(A)
  BY FS_Subset, KeyersFiniteAlike DEF Rssi!KeyersAssumption
<1>2. \A j \in RssiKeyers : c7'[j] = (IF j = k THEN p ELSE c7[j])
  OBVIOUS
<1>3. CASE ~Rssi!Keys(k) /\ p \in {"reserved", "quiet", "sampled"}
  <2>1. A = B \cup {k} /\ k \notin B
    BY <1>2, <1>3 DEF Rssi!Keys
  <2> QED
    BY <1>1, <1>3, <2>1, FS_AddElement, FS_CardinalityType, KeyersCountAlike
<1>4. CASE Rssi!Keys(k) /\ p \notin {"reserved", "quiet", "sampled"}
  <2>1. A = B \ {k} /\ k \in B
    BY <1>2, <1>4 DEF Rssi!Keys
  <2> QED
    BY <1>1, <1>4, <2>1, FS_RemoveElement, FS_CardinalityType, KeyersCountAlike
<1>5. CASE Rssi!Keys(k) <=> p \in {"reserved", "quiet", "sampled"}
  <2>1. A = B
    BY <1>2, <1>5 DEF Rssi!Keys
  <2> QED
    BY <1>1, <1>5, <2>1, FS_CardinalityType, KeyersCountAlike
<1> QED
  BY <1>3, <1>4, <1>5

\* The counter follows a key-up that begins, goes on or ends.
LEMMA KeyUpsFollow ==
    ASSUME Rssi!KeyersAssumption, Rssi!Typed, Rssi!KeyUpsCounted, NEW k \in RssiKeyers,
           NEW p, c7' = [c7 EXCEPT ![k] = p],
           \/ ~Rssi!Keys(k) /\ p = "reserved" /\ c8' = c8 + 1
           \/ Rssi!Keys(k) /\ p \in {"quiet", "sampled"} /\ c8' = c8
           \/ Rssi!Keys(k) /\ p \in {"idle", "on"} /\ c8' = c8 - 1
           \/ ~Rssi!Keys(k) /\ p = "idle" /\ c8' = c8
    PROVE  Rssi!KeyUpsCounted'
<1>1. c7 \in [RssiKeyers -> {"idle", "reserved", "quiet", "sampled", "on"}]
  BY DEF Rssi!Typed
<1> DEFINE before == Cardinality({j \in RssiKeyers : Rssi!Keys(j)})
           after == Cardinality({j \in RssiKeyers : Rssi!Keys(j)'})
<1>2. /\ before \in Nat
      /\ ~Rssi!Keys(k) /\ p \in {"reserved", "quiet", "sampled"} => after = before + 1
      /\ Rssi!Keys(k) /\ p \notin {"reserved", "quiet", "sampled"} => after = before - 1
      /\ (Rssi!Keys(k) <=> p \in {"reserved", "quiet", "sampled"}) => after = before
  BY <1>1, KeyUpsChange
<1>3. (Rssi!KeyUpsCounted <=> c8 = before) /\ (Rssi!KeyUpsCounted' <=> c8' = after)
  BY KeyersCountAlike DEF Rssi!KeyUpsCounted
<1> HIDE DEF before, after
<1> QED
  BY <1>2, <1>3

\* For any keyers, levels and stalls: the cadence is held off exactly while a
\* key-up or an over is under way, what is shown is fresh, and with one keying
\* thread an over whose assert an exchange straddled is on the record.
THEOREM CadenceIsHeldOff ==
    ASSUME Rssi!KeyersAssumption
    PROVE  Rssi!Spec => [](Rssi!PausesEnd /\ Rssi!ShownIsFresh /\ (Rssi!OneThread => Rssi!TornAssertIsCounted))
<1>1. Rssi!Init => Rssi!IInv
  <2> SUFFICES ASSUME Rssi!Init
               PROVE  Rssi!IInv
    OBVIOUS
  <2>1. {k \in RssiKeyers : Rssi!Keys(k)} = {}
    BY DEF Rssi!Init, Rssi!Keys
  <2>2. Rssi!KeyUpsCounted
    BY <2>1, FS_EmptySet, KeyersCountAlike DEF Rssi!Init, Rssi!KeyUpsCounted
  <2>3. Rssi!Typed /\ Rssi!OneKeys /\ Rssi!Flagged /\ Rssi!Held /\ Rssi!InFlight
    BY DEF Rssi!Init, Rssi!NoRecord, Rssi!NotOpen, Rssi!Typed, Rssi!OneKeys, Rssi!Flagged, Rssi!Held, Rssi!InFlight, Rssi!OneThread, Rssi!KeyersAssumption, Rssi!Nobody
  <2> QED
    BY <2>2, <2>3 DEF Rssi!IInv
<1>2. Rssi!IInv /\ [Rssi!Next]_(Rssi!vars) => Rssi!IInv'
  <2> SUFFICES ASSUME Rssi!IInv, [Rssi!Next]_(Rssi!vars)
               PROVE  Rssi!IInv'
    OBVIOUS
  <2>0. Rssi!Typed /\ Rssi!KeyUpsCounted /\ Rssi!OneKeys /\ Rssi!Flagged /\ Rssi!Held /\ Rssi!InFlight
    BY DEF Rssi!IInv
  <2>1. CASE Rssi!Round \/ Rssi!Probe \/ Rssi!ProbeEnds \/ Rssi!Stop \/ Rssi!Tick \/ UNCHANGED Rssi!vars
    <3>1. UNCHANGED Rssi!keyup
      BY <2>1 DEF Rssi!Round, Rssi!Probe, Rssi!ProbeEnds, Rssi!Stop, Rssi!Tick, Rssi!vars, Rssi!keyup
    <3>2. Rssi!KeyUpsCounted' /\ Rssi!OneKeys' /\ Rssi!Flagged'
      BY <2>0, <3>1 DEF Rssi!keyup, Rssi!KeyUpsCounted, Rssi!OneKeys, Rssi!Flagged, Rssi!Keys
    <3>3. CASE Rssi!Round
      BY <2>0, <3>1, <3>2, <3>3 DEF Rssi!IInv, Rssi!Round, Rssi!keyup, Rssi!Typed, Rssi!Held, Rssi!InFlight, Rssi!Counted, Rssi!OneThread
    <3>4. CASE Rssi!Probe
      BY <2>0, <3>1, <3>2, <3>4 DEF Rssi!IInv, Rssi!Probe, Rssi!keyup, Rssi!Typed, Rssi!Held, Rssi!InFlight, Rssi!Counted, Rssi!OneThread, Rssi!KeyersAssumption, Rssi!Nobody
    <3>5. CASE Rssi!ProbeEnds
      <4>1. c6' \in [value : RssiLevels \cup {Rssi!NoReading}, sent : Int, at : Int]
        BY <2>0, <3>5 DEF Rssi!ProbeEnds, Rssi!Typed, Rssi!Answer
      <4>2. Rssi!Typed'
        BY <2>0, <3>1, <3>5, <4>1 DEF Rssi!ProbeEnds, Rssi!Typed, Rssi!keyup
      <4>3. Rssi!Held' /\ Rssi!InFlight'
        BY <2>0, <3>1, <3>5 DEF Rssi!ProbeEnds, Rssi!keyup, Rssi!Typed, Rssi!Held, Rssi!InFlight, Rssi!Counted, Rssi!OneThread, Rssi!KeyersAssumption, Rssi!Nobody
      <4> QED
        BY <3>2, <4>2, <4>3 DEF Rssi!IInv
    <3>6. CASE Rssi!Stop \/ Rssi!Tick \/ UNCHANGED Rssi!vars
      BY <2>0, <3>1, <3>2, <3>6 DEF Rssi!IInv, Rssi!Stop, Rssi!Tick, Rssi!vars, Rssi!cadence, Rssi!keyup, Rssi!Typed, Rssi!Held, Rssi!InFlight, Rssi!Counted, Rssi!OneThread
    <3> QED
      BY <2>1, <3>3, <3>4, <3>5, <3>6
  <2>2. ASSUME NEW k \in RssiKeyers, Rssi!Reserve(k)
        PROVE  Rssi!IInv'
    <3>1. c7' = [c7 EXCEPT ![k] = "reserved"] /\ c7[k] = "idle"
      BY <2>2 DEF Rssi!Reserve, Rssi!Goto
    <3>2. Rssi!KeyUpsCounted'
      BY <2>0, <2>2, <3>1, KeyUpsFollow DEF Rssi!Reserve, Rssi!Keys
    <3> QED
      BY <2>0, <2>2, <3>1, <3>2 DEF Rssi!IInv, Rssi!Reserve, Rssi!cadence, Rssi!Typed, Rssi!OneKeys, Rssi!Flagged, Rssi!Held, Rssi!InFlight, Rssi!Counted, Rssi!OneThread
  <2>3. ASSUME NEW k \in RssiKeyers, Rssi!Drain(k)
        PROVE  Rssi!IInv'
    <3>1. c7' = [c7 EXCEPT ![k] = "quiet"] /\ c7[k] = "reserved"
      BY <2>3 DEF Rssi!Drain, Rssi!Goto
    <3>2. Rssi!KeyUpsCounted'
      BY <2>0, <2>3, <3>1, KeyUpsFollow DEF Rssi!Drain, Rssi!Keys
    <3> QED
      BY <2>0, <2>3, <3>1, <3>2 DEF Rssi!IInv, Rssi!Drain, Rssi!cadence, Rssi!Typed, Rssi!OneKeys, Rssi!Flagged, Rssi!Held, Rssi!InFlight, Rssi!Counted, Rssi!OneThread
  <2>4. ASSUME NEW k \in RssiKeyers, Rssi!PreflightSends(k)
        PROVE  Rssi!IInv'
    <3>1. UNCHANGED Rssi!keyup /\ UNCHANGED Rssi!cadence
      BY <2>4 DEF Rssi!PreflightSends
    <3>2. Rssi!KeyUpsCounted' /\ Rssi!OneKeys' /\ Rssi!Flagged'
      BY <2>0, <3>1 DEF Rssi!keyup, Rssi!KeyUpsCounted, Rssi!OneKeys, Rssi!Flagged, Rssi!Keys
    <3> QED
      BY <2>0, <2>4, <3>1, <3>2 DEF Rssi!IInv, Rssi!PreflightSends, Rssi!cadence, Rssi!keyup, Rssi!Typed, Rssi!Held, Rssi!InFlight, Rssi!Counted, Rssi!OneThread, Rssi!KeyersAssumption, Rssi!Nobody
  <2>5. ASSUME NEW k \in RssiKeyers, Rssi!PreflightEnds(k)
        PROVE  Rssi!IInv'
    <3>1. CASE UNCHANGED <<c7, c8>>
      <4>1. Rssi!KeyUpsCounted' /\ Rssi!OneKeys' /\ Rssi!Flagged'
        BY <2>0, <2>5, <3>1 DEF Rssi!PreflightEnds, Rssi!KeyUpsCounted, Rssi!OneKeys, Rssi!Flagged, Rssi!Keys
      <4> QED
        BY <2>0, <2>5, <3>1, <4>1 DEF Rssi!IInv, Rssi!PreflightEnds, Rssi!cadence, Rssi!Typed, Rssi!Held, Rssi!InFlight, Rssi!Counted, Rssi!OneThread, Rssi!KeyersAssumption, Rssi!Nobody
    <3>2. CASE Rssi!Goto(k, "idle") /\ Rssi!Released(k)
      <4>1. c7' = [c7 EXCEPT ![k] = "idle"] /\ c7[k] = "quiet" /\ c8' = c8 - 1
        BY <2>5, <3>2 DEF Rssi!PreflightEnds, Rssi!Goto, Rssi!Released
      <4>2. Rssi!KeyUpsCounted'
        BY <2>0, <4>1, KeyUpsFollow DEF Rssi!Keys
      <4> QED
        BY <2>0, <2>5, <4>1, <4>2 DEF Rssi!IInv, Rssi!PreflightEnds, Rssi!cadence, Rssi!Typed, Rssi!OneKeys, Rssi!Flagged, Rssi!Held, Rssi!InFlight, Rssi!Counted, Rssi!OneThread, Rssi!KeyersAssumption, Rssi!Nobody
    <3> QED
      BY <2>5, <3>1, <3>2 DEF Rssi!PreflightEnds
  <2>6. ASSUME NEW k \in RssiKeyers, Rssi!Sample(k)
        PROVE  Rssi!IInv'
    <3>1. c7' = [c7 EXCEPT ![k] = "sampled"] /\ c7[k] = "quiet" /\ c8' = c8
      BY <2>6 DEF Rssi!Sample, Rssi!Goto
    <3>2. Rssi!KeyUpsCounted'
      BY <2>0, <3>1, KeyUpsFollow DEF Rssi!Keys
    <3>3. Rssi!Typed'
      BY <2>0, <2>6, <3>1 DEF Rssi!Sample, Rssi!SampleWire, Rssi!cadence, Rssi!Typed
    <3>4. Rssi!OneKeys' /\ Rssi!Flagged' /\ Rssi!Held'
      BY <2>0, <2>6, <3>1 DEF Rssi!Sample, Rssi!LineIsFree, Rssi!cadence, Rssi!Typed, Rssi!OneKeys, Rssi!Flagged, Rssi!Held
    <3>5. ~c12
      BY <2>0, <2>6 DEF Rssi!Sample, Rssi!LineIsFree, Rssi!Flagged, Rssi!InFlight
    <3>6. Rssi!InFlight'
      BY <2>0, <2>6, <3>5 DEF Rssi!Sample, Rssi!SampleWire, Rssi!cadence, Rssi!Typed, Rssi!InFlight, Rssi!OneThread
    <3> QED
      BY <3>2, <3>3, <3>4, <3>6 DEF Rssi!IInv
  <2>7. ASSUME NEW k \in RssiKeyers, Rssi!Assert(k)
        PROVE  Rssi!IInv'
    <3>0. c7[k] = "sampled" /\ c8' = c8 - 1
      BY <2>7 DEF Rssi!Assert, Rssi!Released
    <3>1. CASE Rssi!Goto(k, "on") /\ c9' /\ c12' = (c4 # Rssi!Nobody) /\ UNCHANGED c11
      <4>1. c7' = [c7 EXCEPT ![k] = "on"]
        BY <3>1 DEF Rssi!Goto
      <4>2. Rssi!KeyUpsCounted'
        BY <2>0, <3>0, <4>1, KeyUpsFollow DEF Rssi!Keys
      <4>3. Rssi!Typed'
        BY <2>0, <2>7, <3>0, <3>1, <4>1 DEF Rssi!Assert, Rssi!cadence, Rssi!Typed
      <4>4. Rssi!OneKeys' /\ Rssi!Flagged' /\ Rssi!Held'
        BY <2>0, <2>7, <3>0, <3>1, <4>1 DEF Rssi!Assert, Rssi!cadence, Rssi!Typed, Rssi!OneKeys, Rssi!Flagged, Rssi!Held
      <4>5. Rssi!OneThread => c4 = Rssi!Nobody \/ c1 = "exchange"
        BY <2>0, <3>0 DEF Rssi!Held, Rssi!OneThread
      <4>6. Rssi!InFlight'
        BY <2>0, <2>7, <3>1, <4>5 DEF Rssi!Assert, Rssi!cadence, Rssi!InFlight, Rssi!Counted, Rssi!OneThread
      <4> QED
        BY <4>2, <4>3, <4>4, <4>6 DEF Rssi!IInv
    <3>2. CASE Rssi!Goto(k, "idle") /\ c11' = Rssi!NoRecord /\ UNCHANGED <<c9, c10, c12>>
      <4>1. c7' = [c7 EXCEPT ![k] = "idle"]
        BY <3>2 DEF Rssi!Goto
      <4>2. Rssi!KeyUpsCounted'
        BY <2>0, <3>0, <4>1, KeyUpsFollow DEF Rssi!Keys
      <4>3. Rssi!Typed'
        BY <2>0, <2>7, <3>0, <3>2, <4>1 DEF Rssi!Assert, Rssi!cadence, Rssi!Typed, Rssi!NoRecord, Rssi!NotOpen
      <4>4. Rssi!OneKeys' /\ Rssi!Flagged' /\ Rssi!Held'
        BY <2>0, <2>7, <3>0, <3>2, <4>1 DEF Rssi!Assert, Rssi!cadence, Rssi!Typed, Rssi!OneKeys, Rssi!Flagged, Rssi!Held
      <4>5. ~c12
        BY <2>0, <3>0 DEF Rssi!Flagged, Rssi!InFlight, Rssi!OneKeys
      <4>6. Rssi!InFlight'
        BY <2>0, <2>7, <3>2, <4>5 DEF Rssi!Assert, Rssi!cadence, Rssi!Typed, Rssi!InFlight, Rssi!OneThread, Rssi!NoRecord, Rssi!NotOpen
      <4> QED
        BY <4>2, <4>3, <4>4, <4>6 DEF Rssi!IInv
    <3> QED
      BY <2>7, <3>1, <3>2 DEF Rssi!Assert
  <2>8. ASSUME NEW k \in RssiKeyers, Rssi!KeyOff(k)
        PROVE  Rssi!IInv'
    <3>1. c7' = [c7 EXCEPT ![k] = "idle"] /\ c7[k] = "on" /\ c8' = c8
      BY <2>8 DEF Rssi!KeyOff, Rssi!Goto
    <3>2. Rssi!KeyUpsCounted'
      BY <2>0, <3>1, KeyUpsFollow DEF Rssi!Keys
    <3>3. Rssi!Typed'
      BY <2>0, <2>8, <3>1 DEF Rssi!KeyOff, Rssi!cadence, Rssi!Typed, Rssi!NoRecord, Rssi!NotOpen
    <3>4. Rssi!OneKeys' /\ Rssi!Flagged' /\ Rssi!Held'
      BY <2>0, <2>8, <3>1 DEF Rssi!KeyOff, Rssi!cadence, Rssi!Typed, Rssi!OneKeys, Rssi!Flagged, Rssi!Held
    <3>5. Rssi!OneThread => ~c13'
      BY <2>0, <2>8 DEF Rssi!KeyOff, Rssi!InFlight
    <3>6. c11'.opened <= c5' /\ ~c12'
      BY <2>0, <2>8 DEF Rssi!KeyOff, Rssi!NoRecord, Rssi!NotOpen, Rssi!Typed
    <3> QED
      BY <3>2, <3>3, <3>4, <3>5, <3>6 DEF Rssi!IInv, Rssi!InFlight, Rssi!OneThread
  <2> QED
    BY <2>1, <2>2, <2>3, <2>4, <2>5, <2>6, <2>7, <2>8 DEF Rssi!Next
<1>3. Rssi!IInv => Rssi!PausesEnd /\ Rssi!ShownIsFresh /\ (Rssi!OneThread => Rssi!TornAssertIsCounted)
  <2> SUFFICES ASSUME Rssi!IInv
               PROVE  Rssi!PausesEnd /\ Rssi!ShownIsFresh /\ (Rssi!OneThread => Rssi!TornAssertIsCounted)
    OBVIOUS
  <2>1. Rssi!PausesEnd
    <3> SUFFICES ASSUME \A k \in RssiKeyers : c7[k] = "idle"
                 PROVE  ~Rssi!Paused
      BY DEF Rssi!PausesEnd
    <3>1. {k \in RssiKeyers : Rssi!Keys(k)} = {}
      BY DEF Rssi!Keys
    <3>2. c8 = 0
      BY <3>1, FS_EmptySet, KeyersCountAlike DEF Rssi!IInv, Rssi!KeyUpsCounted
    <3> QED
      BY <3>2 DEF Rssi!IInv, Rssi!Flagged, Rssi!Paused
  <2>2. Rssi!ShownIsFresh
    BY DEF Rssi!IInv, Rssi!Typed, Rssi!ShownIsFresh, Rssi!Shown, Rssi!KeyersAssumption
  <2>3. Rssi!OneThread => Rssi!TornAssertIsCounted
    BY DEF Rssi!IInv, Rssi!InFlight, Rssi!TornAssertIsCounted
  <2> QED
    BY <2>1, <2>2, <2>3
<1> QED
  BY <1>1, <1>2, <1>3, PTL DEF Rssi!Spec

-----------------------------------------------------------------------------
(* KvRadio: the keying of a kv4p HT and the audio of its overs. *)

CONSTANTS
    KvThreads, KvMaxUnits, KvMaxBuffer, KvMaxKeyings, KvLeadUnits, KvRadioFaults

Kv == INSTANCE KvRadio WITH
    Threads <- KvThreads, MaxUnits <- KvMaxUnits, MaxBuffer <- KvMaxBuffer,
    MaxKeyings <- KvMaxKeyings, LeadUnits <- KvLeadUnits,
    RadioFaults <- KvRadioFaults,
    radio <- c1, pc <- c2, pacer <- c3, buf <- c4, chunk <- c5, acc <- c6,
    air <- c7, gone <- c8, queued <- c9, device <- c10

\* A step of key-up, key-down or transmit.
LEMMA KvAsksForAKey ==
    ASSUME Kv!RadioAssumption, Kv!AskedForAKey, Kv!Next
    PROVE  Kv!AskedForAKey'
<1> USE DEF Kv!AskedForAKey, Kv!Moves
<1>0. /\ "talker" \in KvThreads /\ 0 \in 0 .. KvMaxKeyings /\ Kv!Keyings \subseteq 0 .. KvMaxKeyings
      /\ Kv!Idle \in [at : {"idle", "leading", "clip", "joining", "flushing", "dropping"},
                   k : 0 .. KvMaxKeyings]
  BY DEF Kv!RadioAssumption, Kv!Keyings, Kv!Idle
<1>1. ASSUME NEW next \in {"leading", "clip"}, Kv!KeyOn(next)
      PROVE  Kv!AskedForAKey'
  <2>1. CASE /\ c1' = [c1 EXCEPT !.ptt = TRUE, !.tx = c10.keyings + 1]
             /\ c10' = [c10 EXCEPT !.tx = TRUE, !.keyings = c10.keyings + 1]
             /\ c2' = [c2 EXCEPT !["talker"] = [at |-> next, k |-> c10.keyings + 1]]
             /\ c10.keyings + 1 \in Kv!Keyings
    BY <1>0, <2>1
  <2>2. CASE /\ c1' = [c1 EXCEPT !.ptt = FALSE, !.tx = 0]
             /\ c10' = [c10 EXCEPT !.keyings = c10.keyings + 1]
             /\ UNCHANGED c2
             /\ c10.keyings + 1 \in Kv!Keyings
    BY <1>0, <2>2
  <2>3. CASE /\ c10.fault = "unapplied"
             /\ c1' = [c1 EXCEPT !.ptt = TRUE, !.tx = c10.keyings + 1]
             /\ \E tx \in BOOLEAN : c10' = [c10 EXCEPT !.tx = tx, !.keyings = c10.keyings + 1]
             /\ UNCHANGED c2
             /\ c10.keyings + 1 \in Kv!Keyings
    BY <1>0, <2>3
  <2> QED
    BY <1>1, <2>1, <2>2, <2>3 DEF Kv!KeyOn, Kv!Fault
<1>2. CASE Kv!Leads
  BY <1>0, <1>2 DEF Kv!Leads
<1>3. CASE Kv!LeadRaises
  BY <1>0, <1>3 DEF Kv!LeadRaises, Kv!Fault
<1>4. CASE Kv!StreamBreaks \/ \E n \in Kv!Room : Kv!Streams(n)
  BY <1>4 DEF Kv!StreamBreaks, Kv!Streams
<1>5. ASSUME NEW n \in Kv!Room, Kv!ClipEnds(n)
      PROVE  Kv!AskedForAKey'
  BY <1>0, <1>5 DEF Kv!ClipEnds
<1>6. CASE \E k \in Kv!Keyings : Kv!TickTakes(k) \/ Kv!TickSends(k)
  BY <1>6 DEF Kv!TickTakes, Kv!TickSends
<1>7. ASSUME NEW t \in KvThreads, Kv!PttOff(t)
      PROVE  Kv!AskedForAKey'
  BY <1>0, <1>7 DEF Kv!PttOff
<1>8. ASSUME NEW t \in KvThreads, Kv!Joins(t) \/ Kv!FlushesTail(t)
      PROVE  Kv!AskedForAKey'
  <2>1. CASE Kv!Joins(t)
    BY <2>1 DEF Kv!Joins
  <2>2. CASE Kv!FlushesTail(t)
    BY <1>0, <2>2 DEF Kv!FlushesTail
  <2> QED
    BY <1>8, <2>1, <2>2
<1>9. ASSUME NEW t \in KvThreads, Kv!Drops(t) \/ Kv!DropRaises(t)
      PROVE  Kv!AskedForAKey'
  <2>1. CASE Kv!Drops(t)
    BY <1>0, <2>1 DEF Kv!Drops
  <2>2. CASE Kv!DropRaises(t)
    BY <1>0, <2>2 DEF Kv!DropRaises, Kv!Fault
  <2> QED
    BY <1>9, <2>1, <2>2
<1>10. CASE Kv!Retunes \/ Kv!Closes
  <2>1. CASE Kv!Retunes
    BY <2>1 DEF Kv!Retunes, Kv!Fault
  <2>2. CASE Kv!Closes
    BY <2>2 DEF Kv!Closes
  <2> QED
    BY <1>10, <2>1, <2>2
<1> QED
  BY <1>1, <1>2, <1>3, <1>4, <1>5, <1>6, <1>7, <1>8, <1>9, <1>10 DEF Kv!Next, Kv!PttOn, Kv!OneShot

\* A radio that nobody holds the key of, with no call under way, does not ask to
\* be on the air, whichever threads call and however their key-downs cross.
THEOREM UnheldIsUnrequested ==
    ASSUME Kv!RadioAssumption
    PROVE  Kv!Spec => []Kv!UnkeyedUnlessFaulty
<1>1. Kv!Init => Kv!AskedForAKey
  <2> SUFFICES ASSUME Kv!Init
               PROVE  Kv!AskedForAKey
    OBVIOUS
  <2>1. PICK zero \in 0 .. KvMaxKeyings : zero = 0
    BY DEF Kv!RadioAssumption
  <2>2. c1 = [keyed |-> FALSE, ptt |-> FALSE, tx |-> zero, pacer |-> zero, closed |-> FALSE]
    BY <2>1 DEF Kv!Init
  <2>3. c2 = [t \in KvThreads |-> [at |-> "idle", k |-> zero]]
    BY <2>1 DEF Kv!Init, Kv!Idle
  <2>4. c10 \in [tx : BOOLEAN, keyings : 0 .. KvMaxKeyings, fault : KvRadioFaults]
    <3>1. PICK fault \in KvRadioFaults : c10 = [tx |-> FALSE, keyings |-> zero, fault |-> fault]
      BY <2>1 DEF Kv!Init
    <3> QED
      BY <3>1
  <2> QED
    BY <2>2, <2>3, <2>4 DEF Kv!AskedForAKey
<1>2. Kv!AskedForAKey /\ [Kv!Next]_(Kv!vars) => Kv!AskedForAKey'
  BY KvAsksForAKey DEF Kv!vars, Kv!AskedForAKey
<1>3. Kv!AskedForAKey => Kv!UnkeyedUnlessFaulty
  BY DEF Kv!AskedForAKey, Kv!UnkeyedUnlessFaulty, Kv!UnkeyedIsUnrequested, Kv!AllIdle, Kv!Idle
<1> QED
  BY <1>1, <1>2, <1>3, PTL DEF Kv!Spec

LEMMA KvCountAlike == \A S : Kv!Cardinality(S) = Cardinality(S)
  BY DEF Kv!Cardinality, Cardinality

\* The places of the loud units of a sequence are counted from its head.
LEMMA KvRanks ==
    ASSUME NEW N \in Nat, NEW P \in SUBSET (1 .. N)
    PROVE  /\ Cardinality(P) \in Nat
           /\ \A n \in 1 .. Cardinality(P) : Kv!Nth(P, n) \in P
           /\ \A p \in P : \E n \in 1 .. Cardinality(P) : Kv!Nth(P, n) = p
           /\ \A m, n \in 1 .. Cardinality(P) : m < n => Kv!Nth(P, m) < Kv!Nth(P, n)
<1> DEFINE upto(p) == {q \in P : q <= p}
           count(p) == Cardinality(upto(p))
           f == [p \in P |-> count(p)]
<1>0. \A p \in P : p \in Nat
  OBVIOUS
<1>1. IsFiniteSet(1 .. N)
  BY FS_Interval
<1>2. IsFiniteSet(P) /\ Cardinality(P) \in Nat
  BY <1>1, FS_Subset, FS_CardinalityType
<1>3. ASSUME NEW p \in P
      PROVE  IsFiniteSet(upto(p)) /\ count(p) \in 1 .. Cardinality(P)
  <2>1. upto(p) \in SUBSET P /\ p \in upto(p)
    OBVIOUS
  <2> HIDE DEF upto
  <2>2. IsFiniteSet(upto(p)) /\ Cardinality(upto(p)) <= Cardinality(P)
    BY <1>2, <2>1, FS_Subset
  <2>3. Cardinality(upto(p)) \in Nat /\ Cardinality(upto(p)) # 0
    BY <2>1, <2>2, FS_CardinalityType, FS_EmptySet
  <2> QED
    BY <1>2, <2>2, <2>3
<1>4. ASSUME NEW p \in P, NEW q \in P, p < q
      PROVE  count(p) < count(q)
  <2>1. upto(p) \in SUBSET upto(q) /\ q \in upto(q) /\ q \notin upto(p)
    <3>1. \A r \in P : r <= p => r <= q
      BY <1>0, <1>4
    <3>2. ~(q <= p) /\ q <= q
      BY <1>0, <1>4
    <3> QED
      BY <3>1, <3>2
  <2>2. IsFiniteSet(upto(q)) /\ IsFiniteSet(upto(p))
    BY <1>3
  <2> HIDE DEF upto
  <2>3. Cardinality(upto(p)) <= Cardinality(upto(q)) /\ Cardinality(upto(p)) # Cardinality(upto(q))
    BY <2>1, <2>2, FS_Subset
  <2>4. Cardinality(upto(p)) \in Nat /\ Cardinality(upto(q)) \in Nat
    BY <2>2, FS_CardinalityType
  <2> QED
    BY <2>3, <2>4
<1> HIDE DEF count, upto
<1>5. f \in [P -> 1 .. Cardinality(P)]
  BY <1>3
<1>6. \A p, q \in P : f[p] = f[q] => p = q
  <2>1. \A p \in P : p \in Nat
    OBVIOUS
  <2>2. \A p, q \in P : p < q => f[p] < f[q] /\ f[p] \in Nat /\ f[q] \in Nat
    BY <1>2, <1>3, <1>4
  <2>3. \A p, q \in P : p # q => p < q \/ q < p
    BY <2>1
  <2> QED
    BY <2>2, <2>3
<1>7. IsFiniteSet(1 .. Cardinality(P)) /\ Cardinality(1 .. Cardinality(P)) = Cardinality(P)
  <2>1. Cardinality(P) \in Int /\ 1 \in Int
    BY <1>2
  <2> QED
    BY <1>2, <2>1, FS_Interval
<1>8. \A n \in 1 .. Cardinality(P) : \E p \in P : f[p] = n
  <2>1. f \in Injection(P, 1 .. Cardinality(P))
    BY <1>5, <1>6 DEF Injection, IsInjective
  <2>2. f \in Surjection(P, 1 .. Cardinality(P))
    BY <1>7, <2>1, FS_Injection
  <2> QED
    BY <2>2 DEF Surjection
<1>9. \A p \in P : f[p] = count(p) /\ count(p) \in 1 .. Cardinality(P)
  BY <1>3
<1>10. ASSUME NEW n \in 1 .. Cardinality(P)
       PROVE  Kv!Nth(P, n) \in P /\ f[Kv!Nth(P, n)] = n
  <2>1. Kv!Nth(P, n) = CHOOSE p \in P : count(p) = n
    BY KvCountAlike DEF Kv!Nth, count, upto
  <2>2. \E p \in P : count(p) = n
    BY <1>8, <1>9
  <2> QED
    BY <1>9, <2>1, <2>2
<1>11. \A p \in P : Kv!Nth(P, f[p]) = p
  BY <1>6, <1>9, <1>10
<1>12. ASSUME NEW m \in 1 .. Cardinality(P), NEW n \in 1 .. Cardinality(P), m < n
       PROVE  Kv!Nth(P, m) < Kv!Nth(P, n)
  <2>1. Kv!Nth(P, m) \in P /\ Kv!Nth(P, n) \in P /\ f[Kv!Nth(P, m)] = m /\ f[Kv!Nth(P, n)] = n
    BY <1>10
  <2>2. Kv!Nth(P, m) # Kv!Nth(P, n) /\ Kv!Nth(P, m) \in Nat /\ Kv!Nth(P, n) \in Nat
    <3>1. m # n
      BY <1>2, <1>12
    <3> QED
      BY <1>0, <2>1, <3>1
  <2>3. ~(Kv!Nth(P, n) < Kv!Nth(P, m))
    <3>1. Kv!Nth(P, n) < Kv!Nth(P, m) => f[Kv!Nth(P, n)] < f[Kv!Nth(P, m)]
      BY <1>4, <1>9, <2>1
    <3>2. ~(n < m)
      BY <1>2, <1>12
    <3> QED
      BY <2>1, <3>1, <3>2
  <2> QED
    BY <2>2, <2>3
<1> QED
  BY <1>2, <1>9, <1>10, <1>11, <1>12

\* Without its silence a sequence has the same units in the same order.
LEMMA KvHeard ==
    ASSUME NEW s \in Seq(Nat)
    PROVE  /\ Kv!Heard(s) \in Seq(Nat \ {Kv!Silence}) /\ Kv!UnitsOf(Kv!Heard(s)) = Kv!UnitsOf(s)
           /\ Kv!InOrder(s) => Kv!InOrder(Kv!Heard(s))
<1> DEFINE loud == {i \in 1 .. Len(s) : s[i] # Kv!Silence}
           c == Cardinality(loud)
<1>1. Len(s) \in Nat /\ \A i \in 1 .. Len(s) : s[i] \in Nat
  OBVIOUS
<1>2. loud \in SUBSET (1 .. Len(s))
  OBVIOUS
<1>3. /\ c \in Nat /\ \A n \in 1 .. c : Kv!Nth(loud, n) \in loud
      /\ \A p \in loud : \E n \in 1 .. c : Kv!Nth(loud, n) = p
      /\ \A m, n \in 1 .. c : m < n => Kv!Nth(loud, m) < Kv!Nth(loud, n)
  <2> HIDE DEF loud
  <2> QED
    BY <1>1, <1>2, KvRanks
<1>4. Kv!Heard(s) = [n \in 1 .. c |-> s[Kv!Nth(loud, n)]]
  BY KvCountAlike DEF Kv!Heard
<1>5. \A p \in loud : p \in 1 .. Len(s) /\ s[p] # Kv!Silence /\ s[p] \in Nat
  BY <1>1
<1>6. \A i \in 1 .. Len(s) : s[i] # Kv!Silence => i \in loud
  OBVIOUS
<1> HIDE DEF loud, c
<1>7. \A n \in 1 .. c : s[Kv!Nth(loud, n)] \in Nat \ {Kv!Silence}
  BY <1>3, <1>5
<1>8. Kv!Heard(s) \in Seq(Nat \ {Kv!Silence}) /\ Len(Kv!Heard(s)) = c
  BY <1>3, <1>4, <1>7
<1>9. \A n \in 1 .. c : Kv!Heard(s)[n] = s[Kv!Nth(loud, n)]
  BY <1>4
<1>10. Kv!UnitsOf(Kv!Heard(s)) = Kv!UnitsOf(s)
  <2>1. ASSUME NEW u \in Kv!UnitsOf(s)
        PROVE  u \in Kv!UnitsOf(Kv!Heard(s))
    <3>1. PICK i \in loud : u = s[i]
      BY <1>6 DEF Kv!UnitsOf
    <3>2. PICK n \in 1 .. c : Kv!Nth(loud, n) = i
      BY <1>3
    <3> QED
      BY <1>5, <1>8, <1>9, <3>1, <3>2 DEF Kv!UnitsOf
  <2>2. ASSUME NEW u \in Kv!UnitsOf(Kv!Heard(s))
        PROVE  u \in Kv!UnitsOf(s)
    <3>1. PICK n \in 1 .. c : u = Kv!Heard(s)[n]
      BY <1>8 DEF Kv!UnitsOf
    <3> QED
      BY <1>3, <1>5, <1>9, <3>1 DEF Kv!UnitsOf
  <2> QED
    BY <2>1, <2>2
<1>11. ASSUME Kv!InOrder(s)
       PROVE  Kv!InOrder(Kv!Heard(s))
  <2> SUFFICES ASSUME NEW i \in 1 .. c, NEW j \in 1 .. c, i < j
               PROVE  Kv!Heard(s)[i] < Kv!Heard(s)[j]
    BY <1>8 DEF Kv!InOrder
  <2>1. Kv!Nth(loud, i) < Kv!Nth(loud, j) /\ Kv!Nth(loud, i) \in loud /\ Kv!Nth(loud, j) \in loud
    BY <1>3
  <2>2. s[Kv!Nth(loud, i)] < s[Kv!Nth(loud, j)]
    BY <1>5, <1>11, <2>1 DEF Kv!InOrder
  <2> QED
    BY <1>9, <2>2
<1> QED
  BY <1>8, <1>10, <1>11

\* Two sequences joined, one cut in two, and the empty one.
LEMMA KvJoined ==
    ASSUME NEW T \in SUBSET Nat, NEW s \in Seq(T), NEW t \in Seq(T)
    PROVE  /\ s \o t \in Seq(T) /\ Len(s \o t) = Len(s) + Len(t)
           /\ Kv!UnitsOf(s \o t) = Kv!UnitsOf(s) \cup Kv!UnitsOf(t)
           /\ Kv!InOrder(s) /\ Kv!InOrder(t) /\ Kv!Before(Kv!UnitsOf(s), Kv!UnitsOf(t)) => Kv!InOrder(s \o t)
<1> DEFINE j == s \o t
<1>1. /\ j \in Seq(T) /\ Len(j) = Len(s) + Len(t) /\ Len(s) \in Nat /\ Len(t) \in Nat
      /\ \A i \in 1 .. Len(s) : j[i] = s[i]
      /\ \A i \in Len(s) + 1 .. Len(s) + Len(t) : j[i] = t[i - Len(s)]
  OBVIOUS
<1>2. \A i \in 1 .. Len(t) : j[Len(s) + i] = t[i]
  OBVIOUS
<1> HIDE DEF j
<1>3. \A i \in 1 .. Len(j) : \/ i \in 1 .. Len(s)
                             \/ i \in Len(s) + 1 .. Len(j) /\ i - Len(s) \in 1 .. Len(t)
  BY <1>1
<1>4. Kv!UnitsOf(j) = Kv!UnitsOf(s) \cup Kv!UnitsOf(t)
  <2>1. \A i \in 1 .. Len(s) : i \in 1 .. Len(j)
    BY <1>1
  <2>2. \A i \in 1 .. Len(t) : Len(s) + i \in 1 .. Len(j)
    BY <1>1
  <2>3. Kv!UnitsOf(j) \subseteq Kv!UnitsOf(s) \cup Kv!UnitsOf(t)
    BY <1>1, <1>3 DEF Kv!UnitsOf
  <2>4. Kv!UnitsOf(s) \subseteq Kv!UnitsOf(j)
    BY <1>1, <2>1 DEF Kv!UnitsOf
  <2>5. Kv!UnitsOf(t) \subseteq Kv!UnitsOf(j)
    BY <1>2, <2>2 DEF Kv!UnitsOf
  <2> QED
    BY <2>3, <2>4, <2>5
<1>5. ASSUME Kv!InOrder(s), Kv!InOrder(t), Kv!Before(Kv!UnitsOf(s), Kv!UnitsOf(t))
      PROVE  Kv!InOrder(j)
  <2> SUFFICES ASSUME NEW m \in 1 .. Len(j), NEW n \in 1 .. Len(j), m < n,
                      j[m] # Kv!Silence, j[n] # Kv!Silence
               PROVE  j[m] < j[n]
    BY DEF Kv!InOrder
  <2>1. CASE n \in 1 .. Len(s)
    <3>1. m \in 1 .. Len(s) /\ j[m] = s[m] /\ j[n] = s[n]
      BY <1>1, <2>1
    <3> QED
      BY <1>5, <2>1, <3>1 DEF Kv!InOrder
  <2>2. CASE m \in 1 .. Len(s) /\ n - Len(s) \in 1 .. Len(t) /\ n \in Len(s) + 1 .. Len(j)
    <3>1. j[m] \in Kv!UnitsOf(s)
      BY <1>1, <2>2 DEF Kv!UnitsOf
    <3>2. j[n] \in Kv!UnitsOf(t)
      BY <1>1, <2>2 DEF Kv!UnitsOf
    <3> QED
      BY <1>5, <3>1, <3>2 DEF Kv!Before
  <2>3. CASE /\ m - Len(s) \in 1 .. Len(t) /\ n - Len(s) \in 1 .. Len(t)
             /\ m \in Len(s) + 1 .. Len(j) /\ n \in Len(s) + 1 .. Len(j)
    <3>1. j[m] = t[m - Len(s)] /\ j[n] = t[n - Len(s)] /\ m - Len(s) < n - Len(s)
      BY <1>1, <2>3
    <3> QED
      BY <1>5, <2>3, <3>1 DEF Kv!InOrder
  <2> QED
    BY <1>1, <1>3, <2>1, <2>2, <2>3
<1> QED
  BY <1>1, <1>4, <1>5 DEF j

LEMMA KvCut ==
    ASSUME NEW s \in Seq(Nat), NEW m \in 0 .. Len(s)
    PROVE  LET a == SubSeq(s, 1, m)
               b == SubSeq(s, m + 1, Len(s))
           IN  /\ a \in Seq(Nat) /\ b \in Seq(Nat) /\ Len(a) = m /\ Len(b) = Len(s) - m
               /\ Kv!UnitsOf(s) = Kv!UnitsOf(a) \cup Kv!UnitsOf(b)
               /\ Kv!InOrder(s) => Kv!InOrder(a) /\ Kv!InOrder(b) /\ Kv!Before(Kv!UnitsOf(a), Kv!UnitsOf(b))
<1> DEFINE a == SubSeq(s, 1, m)
           b == SubSeq(s, m + 1, Len(s))
<1>1. /\ a \in Seq(Nat) /\ Len(a) = m /\ Len(s) \in Nat /\ m \in Nat /\ m <= Len(s)
      /\ \A i \in 1 .. m : a[i] = s[i]
  OBVIOUS
<1>2. /\ b \in Seq(Nat) /\ Len(b) = Len(s) - m
      /\ \A i \in 1 .. Len(s) - m : b[i] = s[m + i]
  OBVIOUS
<1> HIDE DEF a, b
<1>3. \A i \in 1 .. Len(s) : i \in 1 .. m \/ (i - m \in 1 .. Len(s) - m /\ m + (i - m) = i)
  BY <1>1
<1>4. \A i \in 1 .. m : i \in 1 .. Len(s)
  BY <1>1
<1>5. \A i \in 1 .. Len(s) - m : m + i \in 1 .. Len(s) /\ m < m + i
  BY <1>1
<1>6. Kv!UnitsOf(s) = Kv!UnitsOf(a) \cup Kv!UnitsOf(b)
  <2>1. Kv!UnitsOf(s) \subseteq Kv!UnitsOf(a) \cup Kv!UnitsOf(b)
    <3> SUFFICES ASSUME NEW i \in 1 .. Len(s), s[i] # Kv!Silence
                 PROVE  s[i] \in Kv!UnitsOf(a) \/ s[i] \in Kv!UnitsOf(b)
      BY DEF Kv!UnitsOf
    <3>1. CASE i \in 1 .. m
      BY <1>1, <3>1 DEF Kv!UnitsOf
    <3>2. CASE i - m \in 1 .. Len(s) - m /\ m + (i - m) = i
      <4>1. b[i - m] = s[i] /\ i - m \in 1 .. Len(b)
        BY <1>2, <3>2
      <4> QED
        BY <4>1 DEF Kv!UnitsOf
    <3> QED
      BY <1>3, <3>1, <3>2
  <2>2. Kv!UnitsOf(a) \subseteq Kv!UnitsOf(s)
    BY <1>1, <1>4 DEF Kv!UnitsOf
  <2>3. Kv!UnitsOf(b) \subseteq Kv!UnitsOf(s)
    BY <1>2, <1>5 DEF Kv!UnitsOf
  <2> QED
    BY <2>1, <2>2, <2>3
<1>7. ASSUME Kv!InOrder(s)
      PROVE  Kv!InOrder(a) /\ Kv!InOrder(b) /\ Kv!Before(Kv!UnitsOf(a), Kv!UnitsOf(b))
  <2>1. Kv!InOrder(a)
    BY <1>1, <1>4, <1>7 DEF Kv!InOrder
  <2>2. Kv!InOrder(b)
    <3>1. \A i, j \in 1 .. Len(s) - m : i < j => m + i < m + j
      BY <1>1
    <3> QED
      BY <1>2, <1>5, <1>7, <3>1 DEF Kv!InOrder
  <2>3. ASSUME NEW x \in Kv!UnitsOf(a), NEW y \in Kv!UnitsOf(b)
        PROVE  x < y
    <3>1. PICK i \in 1 .. m : x = s[i] /\ x # Kv!Silence
      BY <1>1 DEF Kv!UnitsOf
    <3>2. PICK k \in 1 .. Len(s) - m : y = s[m + k] /\ y # Kv!Silence
      BY <1>2 DEF Kv!UnitsOf
    <3>3. i < m + k
      BY <1>1
    <3> QED
      BY <1>4, <1>5, <1>7, <3>1, <3>2, <3>3 DEF Kv!InOrder
  <2> QED
    BY <2>1, <2>2, <2>3 DEF Kv!Before
<1> QED
  BY <1>1, <1>2, <1>6, <1>7 DEF a, b

LEMMA KvNothing ==
    /\ Kv!UnitsOf(<< >>) = {} /\ Kv!InOrder(<< >>) /\ Len(<< >>) = 0 /\ << >> \in Seq(Nat)
    /\ Kv!UnitsOf(<<Kv!Silence, Kv!Silence>>) = {} /\ Kv!InOrder(<<Kv!Silence, Kv!Silence>>)
    /\ <<Kv!Silence, Kv!Silence>> \in Seq(Nat) /\ Len(<<Kv!Silence, Kv!Silence>>) = 2
<1> QED
  BY DEF Kv!UnitsOf, Kv!InOrder, Kv!Silence


\* A pacer that lives is the held key's, or is being joined.
LEMMA KvPaces ==
    ASSUME KvThreads = {"talker"}, Kv!AskedForAKey, Kv!PacersArePaired, Kv!Turns
    PROVE  \A j \in Kv!Keyings : c3[j].st # "none" =>
               \/ c1.pacer = j /\ c2["talker"].at = "idle"
               \/ c2["talker"].at = "joining" /\ c2["talker"].k = j
<1>1. \A j \in Kv!Keyings : j # 0
  BY DEF Kv!Keyings
<1>2. \A j \in Kv!Keyings : c3[j].st # "none" =>
          c1.pacer = j \/ c2["talker"] = [at |-> "joining", k |-> j]
  BY DEF Kv!PacersArePaired
<1>3. c1.pacer # 0 => c2["talker"].at = "idle"
  BY DEF Kv!Turns, Kv!Idle
<1> SUFFICES ASSUME NEW j \in Kv!Keyings, c3[j].st # "none"
             PROVE  \/ c1.pacer = j /\ c2["talker"].at = "idle"
                    \/ c2["talker"].at = "joining" /\ c2["talker"].k = j
  OBVIOUS
<1>4. CASE c1.pacer = j
  BY <1>1, <1>3, <1>4
<1>5. CASE c2["talker"] = [at |-> "joining", k |-> j]
  BY <1>5
<1> QED
  BY <1>2, <1>4, <1>5

\* All that is queued lies with one keying at most: its pacer's, or the one whose
\* tail is being flushed, or none.
LEMMA KvOnePends ==
    ASSUME KvThreads = {"talker"}, Kv!AskedForAKey, Kv!PacersArePaired, Kv!Turns, NEW k \in Kv!Keyings,
           \/ c3[k].st # "none"
           \/ c2["talker"].at \in {"flushing", "leading", "clip"} /\ c2["talker"].k = k
    PROVE  \A j \in Kv!Keyings \ {k} : /\ c6[j] = <<>> /\ c5[j] = <<>> /\ c4[j] = <<>>
                                    /\ c3[j].st = "none"
<1>1. \A j \in Kv!Keyings : c3[j].st # "none" =>
          \/ c1.pacer = j /\ c2["talker"].at = "idle"
          \/ c2["talker"].at = "joining" /\ c2["talker"].k = j
  BY KvPaces
<1>2. ASSUME NEW j \in Kv!Keyings \ {k}
      PROVE  c3[j].st = "none" /\ c2["talker"] # [at |-> "flushing", k |-> j]
  <2>1. CASE c3[k].st # "none"
    BY <1>1, <2>1
  <2>2. CASE c2["talker"].at \in {"flushing", "leading", "clip"} /\ c2["talker"].k = k
    BY <1>1, <2>2
  <2> QED
    BY <2>1, <2>2
<1> QED
  BY <1>2 DEF Kv!Turns

\* What is with the one keying is all that is pending.
LEMMA KvAllPends ==
    ASSUME NEW k \in Kv!Keyings, Kv!Accounted,
           \A j \in Kv!Keyings \ {k} : c6[j] = <<>> /\ c5[j] = <<>> /\ c4[j] = <<>>
    PROVE  Kv!UnitsOf(c7) \cup c8 \cup Kv!Pending(k) = 1 .. c9
<1>1. \A j \in Kv!Keyings \ {k} : Kv!Pending(j) = {}
  BY KvNothing DEF Kv!Pending
<1>2. UNION {Kv!Pending(j) : j \in Kv!Keyings} = Kv!Pending(k)
  BY <1>1
<1> QED
  BY <1>2 DEF Kv!Accounted

LEMMA KvLinesUp ==
    ASSUME NEW k \in Kv!Keyings,
           \A j \in Kv!Keyings \ {k} : c6'[j] = <<>> /\ c5'[j] = <<>> /\ c4'[j] = <<>>,
           Kv!InOrder(c7)', Kv!InOrder(c6'[k]), Kv!InOrder(c5'[k]), Kv!InOrder(c4'[k]),
           Kv!Before(Kv!UnitsOf(c7'), Kv!Pending(k)'),
           Kv!Before(Kv!UnitsOf(c6'[k]), Kv!UnitsOf(c5'[k]) \cup Kv!UnitsOf(c4'[k])),
           Kv!Before(Kv!UnitsOf(c5'[k]), Kv!UnitsOf(c4'[k])),
           Kv!UnitsOf(c7') \cup c8' \cup Kv!Pending(k)' = 1 .. c9',
           Kv!UnitsOf(c7') \cap c8' = {}, Kv!Pending(k)' \cap c8' = {}
    PROVE  Kv!Lined' /\ Kv!Accounted'
<1>1. \A j \in Kv!Keyings \ {k} :
          /\ Kv!UnitsOf(c6'[j]) = {} /\ Kv!UnitsOf(c5'[j]) = {} /\ Kv!UnitsOf(c4'[j]) = {}
          /\ Kv!InOrder(c6'[j]) /\ Kv!InOrder(c5'[j]) /\ Kv!InOrder(c4'[j])
  BY KvNothing
<1>2. \A j \in Kv!Keyings \ {k} : Kv!Pending(j)' = {}
  BY <1>1 DEF Kv!Pending
<1>3. UNION {Kv!Pending(j)' : j \in Kv!Keyings} = Kv!Pending(k)'
  BY <1>2
<1>4. ASSUME NEW j \in Kv!Keyings
      PROVE  /\ Kv!InOrder(c6'[j]) /\ Kv!InOrder(c5'[j]) /\ Kv!InOrder(c4'[j])
             /\ Kv!Before(Kv!UnitsOf(c7'), Kv!Pending(j)')
             /\ Kv!Before(Kv!UnitsOf(c6'[j]), Kv!UnitsOf(c5'[j]) \cup Kv!UnitsOf(c4'[j]))
             /\ Kv!Before(Kv!UnitsOf(c5'[j]), Kv!UnitsOf(c4'[j]))
             /\ Kv!Pending(j)' \cap c8' = {}
  <2>1. CASE j = k
    BY <2>1
  <2>2. CASE j # k
    BY <1>1, <1>2, <2>2 DEF Kv!Before
  <2> QED
    BY <2>1, <2>2
<1> QED
  BY <1>3, <1>4 DEF Kv!Lined, Kv!Accounted

\* The units that go to the air, or are given up there, are the first of those
\* that are pending.
LEMMA KvSends ==
    ASSUME NEW k \in Kv!Keyings, NEW s \in Seq(Nat), NEW Q \in SUBSET Nat,
           Kv!Typed, Kv!InOrder(c7), Kv!InOrder(s), Kv!Emit(s),
           Kv!UnitsOf(c7) \cup c8 \cup Q = 1 .. c9', Q \cap c8 = {}, Kv!UnitsOf(c7) \cap c8 = {},
           Kv!Before(Kv!UnitsOf(c7), Q), Kv!UnitsOf(s) \subseteq Q,
           Kv!Pending(k)' \subseteq Q, Kv!UnitsOf(s) \cup Kv!Pending(k)' = Q,
           Kv!Before(Kv!UnitsOf(s), Kv!Pending(k)'),
           \A j \in Kv!Keyings \ {k} : c6'[j] = <<>> /\ c5'[j] = <<>> /\ c4'[j] = <<>>,
           Kv!InOrder(c6'[k]), Kv!InOrder(c5'[k]), Kv!InOrder(c4'[k]),
           Kv!Before(Kv!UnitsOf(c6'[k]), Kv!UnitsOf(c5'[k]) \cup Kv!UnitsOf(c4'[k])),
           Kv!Before(Kv!UnitsOf(c5'[k]), Kv!UnitsOf(c4'[k]))
    PROVE  Kv!Lined' /\ Kv!Accounted' /\ c7' \in Seq(Nat \ {Kv!Silence}) /\ c8' \subseteq Nat
<1>0. c7 \in Seq(Nat \ {Kv!Silence}) /\ c7 \in Seq(Nat) /\ c8 \subseteq Nat
  BY DEF Kv!Typed
<1>1. /\ Kv!Heard(s) \in Seq(Nat \ {Kv!Silence}) /\ Kv!UnitsOf(Kv!Heard(s)) = Kv!UnitsOf(s)
      /\ Kv!InOrder(Kv!Heard(s))
  BY KvHeard
<1>2. \/ c7' = c7 /\ c8' = c8 \cup Kv!UnitsOf(s)
      \/ c7' = c7 \o Kv!Heard(s) /\ c8' = c8
  BY DEF Kv!Emit
<1>3. Kv!Before(Kv!UnitsOf(c7), Kv!UnitsOf(s))
  BY DEF Kv!Before
<1>4. /\ c7 \o Kv!Heard(s) \in Seq(Nat \ {Kv!Silence})
      /\ Kv!UnitsOf(c7 \o Kv!Heard(s)) = Kv!UnitsOf(c7) \cup Kv!UnitsOf(s)
      /\ Kv!InOrder(c7 \o Kv!Heard(s))
  <2>1. Nat \ {Kv!Silence} \in SUBSET Nat
    OBVIOUS
  <2> QED
    BY <1>0, <1>1, <1>3, <2>1, KvJoined
<1>5. \A x \in Q : x \in Nat
  OBVIOUS
<1>6. Kv!UnitsOf(s) \cap Kv!Pending(k)' = {} /\ Kv!UnitsOf(c7) \cap Q = {}
  BY <1>5 DEF Kv!Before
<1>7. \/ c7' = c7 /\ c8' = c8 \cup Kv!UnitsOf(s)
      \/ Kv!UnitsOf(c7') = Kv!UnitsOf(c7) \cup Kv!UnitsOf(s) /\ c8' = c8
  BY <1>2, <1>4
<1>8. Kv!Before(Kv!UnitsOf(c7'), Kv!Pending(k)')
  BY <1>7 DEF Kv!Before
<1>9. Kv!InOrder(c7)' /\ c7' \in Seq(Nat \ {Kv!Silence}) /\ c8' \subseteq Nat
  BY <1>0, <1>2, <1>4
<1>10. /\ Kv!UnitsOf(c7') \cup c8' \cup Kv!Pending(k)' = 1 .. c9'
       /\ Kv!UnitsOf(c7') \cap c8' = {} /\ Kv!Pending(k)' \cap c8' = {}
  BY <1>6, <1>7
<1> QED
  BY <1>8, <1>9, <1>10, KvLinesUp

\* A step that moves no audio: a key-up asked for, a key-down, a pacer joined.
LEMMA KvCalls ==
    ASSUME Kv!RadioAssumption, KvThreads = {"talker"}, Kv!IInv, Kv!AskedForAKey',
           \/ Kv!KeyOn("leading") \/ Kv!KeyOn("clip") \/ Kv!LeadRaises \/ Kv!PttOff("talker") \/ Kv!Joins("talker")
           \/ Kv!Drops("talker") \/ Kv!DropRaises("talker") \/ Kv!Retunes \/ Kv!Closes
    PROVE  Kv!IInv'
<1> USE DEF Kv!Moves
<1>0. /\ Kv!AskedForAKey /\ Kv!Typed /\ Kv!PacersArePaired /\ Kv!Turns /\ Kv!Lined /\ Kv!Accounted
      /\ c4' = c4 /\ c5' = c5 /\ c6' = c6 /\ c7' = c7 /\ c8' = c8 /\ c9' = c9
  BY DEF Kv!IInv, Kv!KeyOn, Kv!LeadRaises, Kv!PttOff, Kv!Joins, Kv!Drops, Kv!DropRaises, Kv!Retunes, Kv!Closes, Kv!audioVars
<1>1. Kv!Lined' /\ Kv!Accounted'
  BY <1>0 DEF Kv!Lined, Kv!Accounted, Kv!Pending
<1>2. \A k \in Kv!Keyings : k # 0
  BY DEF Kv!Keyings
<1>3. c2 = [t \in KvThreads |-> c2["talker"]] /\ c2["talker"] = [at |-> c2["talker"].at, k |-> c2["talker"].k]
  BY <1>0 DEF Kv!AskedForAKey
<1>4. /\ c2["talker"].at \in {"joining", "flushing", "dropping", "leading", "clip"} => c1.pacer = 0
      /\ ~c1.keyed => c1.pacer = 0
  BY <1>0 DEF Kv!Turns, Kv!Idle
<1>5. ASSUME NEW at \in {"leading", "clip"}, Kv!KeyOn(at)
      PROVE  Kv!IInv'
  <2>1. /\ c3' = c3 /\ c2["talker"] = Kv!Idle /\ ~c1.keyed /\ ~c1'.keyed /\ c1'.pacer = c1.pacer
        /\ \/ c2' = c2
           \/ /\ c2'["talker"].at = at /\ c2'["talker"].k \in Kv!Keyings
              /\ c2' = [c2 EXCEPT !["talker"] = [at |-> at, k |-> c10.keyings + 1]]
    <3>1. c3' = c3 /\ c2["talker"] = Kv!Idle /\ ~c1.keyed /\ c10.keyings + 1 \in Kv!Keyings
      BY <1>5 DEF Kv!KeyOn, Kv!audioVars
    <3>2. ~c1'.keyed /\ c1'.pacer = c1.pacer
      BY <1>0, <1>5 DEF Kv!KeyOn, Kv!AskedForAKey
    <3>3. c2' = c2 \/ c2' = [c2 EXCEPT !["talker"] = [at |-> at, k |-> c10.keyings + 1]]
      BY <1>5 DEF Kv!KeyOn
    <3> QED
      BY <1>3, <3>1, <3>2, <3>3
  <2>2. \A k \in Kv!Keyings : c3[k].st = "none"
    BY <1>0, <1>2, <1>3, <1>4, <2>1 DEF Kv!PacersArePaired, Kv!Idle
  <2>3. Kv!PacersArePaired'
    BY <2>1, <2>2 DEF Kv!PacersArePaired
  <2>4. Kv!Turns'
    BY <1>0, <1>4, <2>1, <2>2 DEF Kv!Turns, Kv!Idle
  <2>5. Kv!Typed'
    BY <1>0, <2>1 DEF Kv!Typed
  <2> QED
    BY <1>1, <2>3, <2>4, <2>5 DEF Kv!IInv
<1>6. CASE Kv!LeadRaises
  <2>1. c3' = c3 /\ c1' = c1 /\ c2["talker"].at \in {"leading", "clip"} /\ c2'["talker"] = Kv!Idle
    BY <1>3, <1>6 DEF Kv!LeadRaises, Kv!audioVars
  <2>2. \A k \in Kv!Keyings : c3[k].st = "none"
    BY <1>0, <1>2, <1>3, <1>4, <2>1 DEF Kv!PacersArePaired
  <2>3. Kv!PacersArePaired' /\ Kv!Typed'
    BY <1>0, <2>1, <2>2 DEF Kv!PacersArePaired, Kv!Typed
  <2>4. Kv!Turns'
    BY <1>0, <1>4, <2>1, <2>2 DEF Kv!Turns, Kv!Idle
  <2> QED
    BY <1>1, <2>3, <2>4 DEF Kv!IInv
<1>7. CASE Kv!PttOff("talker")
  <2> DEFINE k == c1.pacer
  <2>1. /\ c2["talker"] = Kv!Idle /\ c1.keyed /\ c1'.pacer = 0 /\ c1'.keyed
        /\ c2'["talker"] = [at |-> IF k = 0 THEN "dropping" ELSE "joining", k |-> k]
        /\ k # 0 => k \in Kv!Keyings
    BY <1>0, <1>3, <1>7 DEF Kv!PttOff, Kv!AskedForAKey, Kv!Keyings
  <2>2. c3' = [j \in Kv!Keyings |-> IF j = k THEN [c3[j] EXCEPT !.stop = TRUE] ELSE c3[j]]
    BY <1>7 DEF Kv!PttOff
  <2>3. Kv!Typed' /\ \A j \in Kv!Keyings : c3'[j].st = c3[j].st
    BY <1>0, <2>2 DEF Kv!Typed
  <2>4. \A j \in Kv!Keyings : c3[j].st # "none" => k = j
    BY <1>0, <2>1, KvPaces DEF Kv!Idle
  <2>5. Kv!PacersArePaired'
    BY <1>2, <2>1, <2>3, <2>4 DEF Kv!PacersArePaired
  <2>6. Kv!Turns'
    BY <1>0, <2>1, <2>3 DEF Kv!Turns, Kv!Idle
  <2> QED
    BY <1>1, <2>3, <2>5, <2>6 DEF Kv!IInv
<1>8. CASE Kv!Joins("talker")
  <2> DEFINE k == c2["talker"].k
  <2>1. /\ c2["talker"].at = "joining" /\ c3[k].st = "waiting" /\ c1' = c1 /\ k \in Kv!Keyings
        /\ c3' = [c3 EXCEPT ![k].st = "none"]
        /\ c2'["talker"] = [at |-> "flushing", k |-> k]
    BY <1>0, <1>3, <1>8 DEF Kv!Joins, Kv!Turns
  <2>2. Kv!Typed' /\ c3'[k].st = "none" /\ \A j \in Kv!Keyings \ {k} : c3'[j] = c3[j]
    BY <1>0, <2>1 DEF Kv!Typed
  <2>3. \A j \in Kv!Keyings \ {k} : c3[j].st = "none"
    BY <1>0, <2>1, KvOnePends
  <2>4. Kv!PacersArePaired'
    BY <2>2, <2>3 DEF Kv!PacersArePaired
  <2>5. Kv!Turns'
    BY <1>0, <1>4, <2>1, <2>2, <2>3 DEF Kv!Turns, Kv!Idle
  <2> QED
    BY <1>1, <2>2, <2>4, <2>5 DEF Kv!IInv
<1>9. CASE Kv!Drops("talker") \/ Kv!DropRaises("talker")
  <2>1. /\ c3' = c3 /\ c1'.pacer = c1.pacer /\ c2["talker"].at = "dropping"
        /\ c2'["talker"] = Kv!Idle
    BY <1>0, <1>3, <1>9 DEF Kv!Drops, Kv!DropRaises, Kv!audioVars, Kv!AskedForAKey
  <2>2. \A k \in Kv!Keyings : c3[k].st = "none"
    BY <1>0, <1>2, <1>3, <1>4, <2>1 DEF Kv!PacersArePaired
  <2>3. Kv!PacersArePaired' /\ Kv!Typed'
    BY <1>0, <2>1, <2>2 DEF Kv!PacersArePaired, Kv!Typed
  <2>4. Kv!Turns'
    BY <1>0, <1>4, <2>1, <2>2 DEF Kv!Turns, Kv!Idle
  <2> QED
    BY <1>1, <2>3, <2>4 DEF Kv!IInv
<1>10. CASE Kv!Retunes \/ Kv!Closes
  <2>1. /\ c3' = c3 /\ c2' = c2 /\ c1'.pacer = c1.pacer /\ c1'.keyed = c1.keyed
    BY <1>0, <1>10 DEF Kv!Retunes, Kv!Closes, Kv!audioVars, Kv!AskedForAKey
  <2>2. Kv!PacersArePaired' /\ Kv!Typed' /\ Kv!Turns'
    BY <1>0, <2>1 DEF Kv!PacersArePaired, Kv!Typed, Kv!Turns
  <2> QED
    BY <1>1, <2>2 DEF Kv!IInv
<1> QED
  BY <1>5, <1>6, <1>7, <1>8, <1>9, <1>10

\* What an encoder takes it sends in whole frames, and holds the rest.
LEMMA KvFrames ==
    ASSUME NEW s \in Seq(Nat)
    PROVE  /\ Kv!Whole(s) \in Seq(Nat) /\ Kv!Rest(s) \in Seq(Nat) /\ Len(Kv!Rest(s)) \in 0 .. 1
           /\ Kv!UnitsOf(s) = Kv!UnitsOf(Kv!Whole(s)) \cup Kv!UnitsOf(Kv!Rest(s))
           /\ Kv!InOrder(s) => /\ Kv!InOrder(Kv!Whole(s)) /\ Kv!InOrder(Kv!Rest(s))
                            /\ Kv!Before(Kv!UnitsOf(Kv!Whole(s)), Kv!UnitsOf(Kv!Rest(s)))
<1> DEFINE m == 2 * (Len(s) \div 2)
<1>1. Len(s) \in Nat
  OBVIOUS
<1>2. \A l \in Nat : 2 * (l \div 2) \in 0 .. l /\ l - 2 * (l \div 2) \in 0 .. 1
  OBVIOUS
<1>3. m \in 0 .. Len(s) /\ Len(s) - m \in 0 .. 1
  BY <1>1, <1>2
<1>4. Kv!Whole(s) = SubSeq(s, 1, m) /\ Kv!Rest(s) = SubSeq(s, m + 1, Len(s))
  BY DEF Kv!Whole, Kv!Rest
<1> HIDE DEF m
<1> QED
  BY <1>3, <1>4, KvCut

\* The units of one frame of transmit are the next ones, in their order.
LEMMA KvFresh ==
    ASSUME NEW n \in Nat, c9 \in Nat
    PROVE  /\ Kv!Fresh(n) \in Seq(Nat) /\ Len(Kv!Fresh(n)) = n /\ Kv!InOrder(Kv!Fresh(n))
           /\ Kv!UnitsOf(Kv!Fresh(n)) = c9 + 1 .. c9 + n
<1>1. Kv!Fresh(n) = [i \in 1 .. n |-> c9 + i]
  BY DEF Kv!Fresh
<1>2. \A i \in 1 .. n : c9 + i \in Nat /\ c9 + i # 0
  OBVIOUS
<1>3. Kv!Fresh(n) \in Seq(Nat) /\ Len(Kv!Fresh(n)) = n
  BY <1>1, <1>2
<1>4. \A i \in 1 .. n : Kv!Fresh(n)[i] = c9 + i
  BY <1>1
<1>5. Kv!InOrder(Kv!Fresh(n))
  BY <1>3, <1>4 DEF Kv!InOrder
<1>6. Kv!UnitsOf(Kv!Fresh(n)) = c9 + 1 .. c9 + n
  <2>1. ASSUME NEW u \in c9 + 1 .. c9 + n
        PROVE  u \in Kv!UnitsOf(Kv!Fresh(n))
    <3>1. u - c9 \in 1 .. n /\ c9 + (u - c9) = u /\ u # 0
      OBVIOUS
    <3> QED
      BY <1>3, <1>4, <3>1 DEF Kv!UnitsOf, Kv!Silence
  <2>2. ASSUME NEW u \in Kv!UnitsOf(Kv!Fresh(n))
        PROVE  u \in c9 + 1 .. c9 + n
    <3>1. PICK i \in 1 .. n : u = c9 + i
      BY <1>3, <1>4, <2>2 DEF Kv!UnitsOf
    <3> QED
      BY <3>1
  <2> QED
    BY <2>1, <2>2
<1> QED
  BY <1>3, <1>5, <1>6

\* The units that were queued are numbered up to queued.
LEMMA KvNumbered ==
    ASSUME NEW k \in Kv!Keyings, Kv!Typed, Kv!Lined, Kv!Accounted
    PROVE  /\ c6[k] \in Seq(Nat) /\ c5[k] \in Seq(Nat) /\ c4[k] \in Seq(Nat)
           /\ c7 \in Seq(Nat) /\ Kv!UnitsOf(c7) \subseteq 1 .. c9 /\ c8 \subseteq 1 .. c9
           /\ Kv!Pending(k) \subseteq 1 .. c9
<1>1. Kv!Pending(k) \subseteq UNION {Kv!Pending(j) : j \in Kv!Keyings}
  OBVIOUS
<1>2. /\ c6[k] \in Seq(Nat) /\ c5[k] \in Seq(Nat) /\ c4[k] \in Seq(Nat)
      /\ c7 \in Seq(Nat)
  BY DEF Kv!Typed
<1> HIDE DEF Kv!Pending
<1> QED
  BY <1>1, <1>2 DEF Kv!Accounted

\* The lead-in is silence; what is left of it is held.
LEMMA KvLeads ==
    ASSUME Kv!RadioAssumption, KvThreads = {"talker"}, Kv!IInv, Kv!AskedForAKey', Kv!Leads
    PROVE  Kv!IInv'
<1> DEFINE lead == [i \in 1 .. KvLeadUnits |-> Kv!Silence]
<1>0. Kv!AskedForAKey /\ Kv!Typed /\ Kv!PacersArePaired /\ Kv!Turns /\ Kv!Lined /\ Kv!Accounted
  BY DEF Kv!IInv
<1>k. PICK k \in Kv!Keyings : k = c2["talker"].k
  BY <1>0 DEF Kv!Leads, Kv!Turns
<1>1. /\ c2["talker"].at = "leading" /\ k \in Kv!Keyings /\ ~c1.keyed /\ c1.pacer = 0
      /\ k # 0
  BY <1>0 DEF Kv!Leads, Kv!Turns, Kv!Keyings
<1>2. /\ c6' = [c6 EXCEPT ![k] = Kv!Rest(lead)]
      /\ c3' = [c3 EXCEPT ![k].st = "waiting"]
      /\ c1'.pacer = k /\ c1'.keyed /\ c2'["talker"] = Kv!Idle
      /\ c4' = c4 /\ c5' = c5 /\ c7' = c7 /\ c8' = c8 /\ c9' = c9
  BY <1>0, <1>k DEF Kv!Leads, Kv!AskedForAKey
<1>3. \A j \in Kv!Keyings : c3[j].st = "none"
  BY <1>0, <1>1, KvPaces DEF Kv!Keyings
<1>4. \A j \in Kv!Keyings : c6[j] = <<>> /\ c5[j] = <<>> /\ c4[j] = <<>>
  <2>1. \A j \in Kv!Keyings : c2["talker"] # [at |-> "flushing", k |-> j]
    BY <1>1
  <2> QED
    BY <1>0, <1>3, <2>1 DEF Kv!Turns
<1>5. Kv!Rest(lead) \in Seq(Nat) /\ Len(Kv!Rest(lead)) <= 1 /\ Kv!UnitsOf(Kv!Rest(lead)) = {} /\ Kv!InOrder(Kv!Rest(lead))
  <2>1. KvLeadUnits \in Nat
    BY DEF Kv!RadioAssumption
  <2>2. lead \in Seq(Nat) /\ Len(lead) = KvLeadUnits /\ \A i \in 1 .. KvLeadUnits : lead[i] = Kv!Silence
    BY <2>1 DEF Kv!Silence
  <2> HIDE DEF lead
  <2>3. Kv!UnitsOf(lead) = {} /\ Kv!InOrder(lead)
    BY <2>1, <2>2 DEF Kv!UnitsOf, Kv!InOrder
  <2>4. /\ Kv!Rest(lead) \in Seq(Nat) /\ Len(Kv!Rest(lead)) \in 0 .. 1
        /\ Kv!UnitsOf(lead) = Kv!UnitsOf(Kv!Whole(lead)) \cup Kv!UnitsOf(Kv!Rest(lead)) /\ Kv!InOrder(Kv!Rest(lead))
    BY <2>2, <2>3, KvFrames
  <2>5. Kv!UnitsOf(Kv!Rest(lead)) = {}
    BY <2>3, <2>4
  <2>6. \A l \in 0 .. 1 : l <= 1
    OBVIOUS
  <2>7. Len(Kv!Rest(lead)) <= 1
    BY <2>4, <2>6
  <2> QED
    BY <2>4, <2>5, <2>7
<1> HIDE DEF lead
<1>6. c6'[k] = Kv!Rest(lead) /\ \A j \in Kv!Keyings \ {k} : c6'[j] = c6[j] /\ c3'[j] = c3[j]
  BY <1>0, <1>1, <1>2 DEF Kv!Typed
<1>7. c3'[k].st = "waiting"
  BY <1>0, <1>1, <1>2 DEF Kv!Typed
<1>8. Kv!Typed'
  <2>1. {c4, c5, c6}' \subseteq [Kv!Keyings -> Seq(Nat)]
    BY <1>0, <1>2, <1>5 DEF Kv!Typed
  <2>2. c3' \in [Kv!Keyings -> [st : {"none", "waiting", "ticking"}, stop : BOOLEAN]]
    BY <1>0, <1>2 DEF Kv!Typed
  <2> QED
    BY <1>0, <1>2, <2>1, <2>2 DEF Kv!Typed
<1>9. Kv!PacersArePaired'
  BY <1>2, <1>3, <1>6 DEF Kv!PacersArePaired
<1>10. Kv!Turns'
  BY <1>0, <1>1, <1>2, <1>3, <1>4, <1>5, <1>6, <1>7 DEF Kv!Turns, Kv!Idle
<1>11. /\ Kv!UnitsOf(c6'[k]) = {} /\ Kv!UnitsOf(c5'[k]) = {} /\ Kv!UnitsOf(c4'[k]) = {}
       /\ Kv!InOrder(c6'[k]) /\ Kv!InOrder(c5'[k]) /\ Kv!InOrder(c4'[k])
  BY <1>1, <1>2, <1>4, <1>5, <1>6, KvNothing
<1>12. Kv!Pending(k)' = {}
  BY <1>11 DEF Kv!Pending
<1>13. Kv!Pending(k) = {}
  BY <1>1, <1>4, KvNothing DEF Kv!Pending
<1>14. Kv!UnitsOf(c7) \cup c8 = 1 .. c9 /\ Kv!UnitsOf(c7) \cap c8 = {} /\ Kv!InOrder(c7)
  <2>1. Kv!UnitsOf(c7) \cup c8 \cup Kv!Pending(k) = 1 .. c9
    BY <1>0, <1>1, <1>4, KvAllPends
  <2> QED
    BY <1>0, <1>13, <2>1 DEF Kv!Accounted, Kv!Lined
<1>15. Kv!Lined' /\ Kv!Accounted'
  <2>1. Kv!InOrder(c7)' /\ Kv!UnitsOf(c7') \cup c8' \cup Kv!Pending(k)' = 1 .. c9'
    BY <1>2, <1>12, <1>14
  <2>2. Kv!UnitsOf(c7') \cap c8' = {} /\ Kv!Pending(k)' \cap c8' = {}
    BY <1>2, <1>12, <1>14
  <2>3. \A j \in Kv!Keyings \ {k} : c6'[j] = <<>> /\ c5'[j] = <<>> /\ c4'[j] = <<>>
    BY <1>2, <1>4, <1>6
  <2>4. /\ Kv!Before(Kv!UnitsOf(c7'), Kv!Pending(k)')
        /\ Kv!Before(Kv!UnitsOf(c6'[k]), Kv!UnitsOf(c5'[k]) \cup Kv!UnitsOf(c4'[k]))
        /\ Kv!Before(Kv!UnitsOf(c5'[k]), Kv!UnitsOf(c4'[k]))
    BY <1>11, <1>12 DEF Kv!Before
  <2> QED
    BY <1>1, <1>11, <2>1, <2>2, <2>3, <2>4, KvLinesUp
<1> QED
  BY <1>8, <1>9, <1>10, <1>15 DEF Kv!IInv

\* A frame is queued behind what waits; the oldest units go for want of room.
LEMMA KvStreams ==
    ASSUME Kv!RadioAssumption, KvThreads = {"talker"}, Kv!IInv, Kv!AskedForAKey', NEW n \in Nat, Kv!Streams(n)
    PROVE  Kv!IInv'
<1>0. Kv!AskedForAKey /\ Kv!Typed /\ Kv!PacersArePaired /\ Kv!Turns /\ Kv!Lined /\ Kv!Accounted
  BY DEF Kv!IInv
<1>k. PICK k \in Kv!Keyings : k = c1.pacer /\ c3[k].st # "none"
  BY <1>0 DEF Kv!Streams, Kv!Turns, Kv!AskedForAKey, Kv!Keyings
<1> DEFINE all == c4[k] \o Kv!Fresh(n)
           over == IF Len(all) > KvMaxBuffer THEN Len(all) - KvMaxBuffer ELSE 0
           left == SubSeq(all, 1, over)
           kept == SubSeq(all, over + 1, Len(all))
<1>1. k \in Kv!Keyings /\ c3[k].st # "none" /\ KvMaxBuffer \in Nat
  BY <1>k DEF Kv!RadioAssumption
<1>2. /\ c4' = [c4 EXCEPT ![k] = kept] /\ c8' = c8 \cup Kv!UnitsOf(left) /\ c9' = c9 + n
      /\ c1' = c1 /\ c2' = c2 /\ c3' = c3 /\ c5' = c5 /\ c6' = c6 /\ c7' = c7
  BY <1>k DEF Kv!Streams
<1>3. \A j \in Kv!Keyings \ {k} : c6[j] = <<>> /\ c5[j] = <<>> /\ c4[j] = <<>> /\ c3[j].st = "none"
  BY <1>0, <1>1, KvOnePends
<1>4. c9 \in Nat
  BY <1>0 DEF Kv!Typed
<1>5. /\ c6[k] \in Seq(Nat) /\ c5[k] \in Seq(Nat) /\ c4[k] \in Seq(Nat) /\ c7 \in Seq(Nat)
      /\ Kv!UnitsOf(c7) \subseteq 1 .. c9 /\ c8 \subseteq 1 .. c9 /\ Kv!Pending(k) \subseteq 1 .. c9
  BY <1>0, <1>1, KvNumbered
<1>6. /\ Kv!Fresh(n) \in Seq(Nat) /\ Kv!InOrder(Kv!Fresh(n))
      /\ Kv!UnitsOf(Kv!Fresh(n)) = c9 + 1 .. c9 + n
  BY <1>4, KvFresh
<1>7. /\ Kv!InOrder(c6[k]) /\ Kv!InOrder(c5[k]) /\ Kv!InOrder(c4[k]) /\ Kv!InOrder(c7)
      /\ Kv!Before(Kv!UnitsOf(c7), Kv!Pending(k))
      /\ Kv!Before(Kv!UnitsOf(c6[k]), Kv!UnitsOf(c5[k]) \cup Kv!UnitsOf(c4[k]))
      /\ Kv!Before(Kv!UnitsOf(c5[k]), Kv!UnitsOf(c4[k]))
      /\ Kv!UnitsOf(c7) \cap c8 = {} /\ Kv!Pending(k) \cap c8 = {}
  BY <1>0, <1>1 DEF Kv!Lined, Kv!Accounted
<1>8. Kv!Pending(k) = Kv!UnitsOf(c6[k]) \cup Kv!UnitsOf(c5[k]) \cup Kv!UnitsOf(c4[k])
  BY DEF Kv!Pending
<1>9. \A x \in 1 .. c9, y \in c9 + 1 .. c9 + n : x < y
  BY <1>4
<1>10. /\ all \in Seq(Nat) /\ Kv!UnitsOf(all) = Kv!UnitsOf(c4[k]) \cup (c9 + 1 .. c9 + n)
       /\ Kv!InOrder(all)
  <2>1. Kv!Before(Kv!UnitsOf(c4[k]), Kv!UnitsOf(Kv!Fresh(n)))
    BY <1>5, <1>6, <1>8, <1>9 DEF Kv!Before
  <2>2. Nat \in SUBSET Nat
    OBVIOUS
  <2> QED
    BY <1>5, <1>6, <1>7, <2>1, <2>2, KvJoined
<1>11. over \in 0 .. Len(all)
  <2>1. Len(all) \in Nat
    BY <1>10
  <2> HIDE DEF all
  <2> QED
    BY <1>1, <2>1
<1>12. /\ kept \in Seq(Nat) /\ left \in Seq(Nat) /\ Kv!UnitsOf(all) = Kv!UnitsOf(left) \cup Kv!UnitsOf(kept)
       /\ Kv!InOrder(kept) /\ Kv!InOrder(left) /\ Kv!Before(Kv!UnitsOf(left), Kv!UnitsOf(kept))
  <2> HIDE DEF all, over
  <2> QED
    BY <1>10, <1>11, KvCut
<1> HIDE DEF all, over, left, kept
<1>13. /\ c4'[k] = kept /\ c6'[k] = c6[k] /\ c5'[k] = c5[k]
       /\ \A j \in Kv!Keyings \ {k} : c4'[j] = c4[j]
  BY <1>0, <1>1, <1>2 DEF Kv!Typed
<1>14. Kv!Pending(k)' = Kv!UnitsOf(c6[k]) \cup Kv!UnitsOf(c5[k]) \cup Kv!UnitsOf(kept)
  BY <1>13 DEF Kv!Pending
<1>15. Kv!UnitsOf(c7) \cup c8 \cup Kv!Pending(k) = 1 .. c9
  BY <1>0, <1>1, <1>3, KvAllPends
<1>16. 1 .. c9' = (1 .. c9) \cup (c9 + 1 .. c9 + n)
  BY <1>2, <1>4
<1>17. Kv!UnitsOf(left) \subseteq Kv!Pending(k) \cup (c9 + 1 .. c9 + n)
       /\ Kv!UnitsOf(kept) \subseteq Kv!Pending(k) \cup (c9 + 1 .. c9 + n)
  BY <1>8, <1>10, <1>12
<1>18. Kv!Typed'
  <2>1. c8' \subseteq Nat
    BY <1>0, <1>2, <1>4, <1>5, <1>17 DEF Kv!Typed
  <2>2. c9' \in Nat
    BY <1>2, <1>4
  <2>3. {c4, c5, c6}' \subseteq [Kv!Keyings -> Seq(Nat)]
    BY <1>0, <1>1, <1>2, <1>12 DEF Kv!Typed
  <2> QED
    BY <1>0, <1>2, <2>1, <2>2, <2>3 DEF Kv!Typed
<1>19. Kv!PacersArePaired' /\ Kv!Turns'
  <2>1. Kv!PacersArePaired'
    BY <1>0, <1>2 DEF Kv!PacersArePaired
  <2>2. Kv!Turns'
    BY <1>0, <1>1, <1>2, <1>13 DEF Kv!Turns
  <2> QED
    BY <2>1, <2>2
<1>20. \A x \in 1 .. c9 : x \notin c9 + 1 .. c9 + n
  BY <1>4
<1>21. Kv!UnitsOf(c6[k]) \cap Kv!UnitsOf(left) = {} /\ Kv!UnitsOf(c5[k]) \cap Kv!UnitsOf(left) = {}
  <2>1. \A x \in Kv!UnitsOf(c6[k]) : x \notin Kv!UnitsOf(c4[k])
    BY <1>5, <1>7, <1>8 DEF Kv!Before
  <2>2. \A x \in Kv!UnitsOf(c5[k]) : x \notin Kv!UnitsOf(c4[k])
    BY <1>5, <1>7, <1>8 DEF Kv!Before
  <2>3. Kv!UnitsOf(left) \subseteq Kv!UnitsOf(c4[k]) \cup (c9 + 1 .. c9 + n)
    BY <1>10, <1>12
  <2> QED
    BY <1>5, <1>8, <1>20, <2>1, <2>2, <2>3
<1>22. Kv!UnitsOf(left) \cap Kv!UnitsOf(kept) = {}
  <2>1. \A x \in Kv!UnitsOf(kept) : x \in Nat
    BY <1>4, <1>5, <1>17
  <2> QED
    BY <1>12, <2>1 DEF Kv!Before
<1>23. Kv!UnitsOf(c7) \cap Kv!Pending(k) = {}
  BY <1>5, <1>7 DEF Kv!Before
<1>24. Kv!Lined' /\ Kv!Accounted'
  <2>1. Kv!InOrder(c7)' /\ Kv!InOrder(c6'[k]) /\ Kv!InOrder(c5'[k]) /\ Kv!InOrder(c4'[k])
    BY <1>2, <1>7, <1>12, <1>13
  <2>2. Kv!Before(Kv!UnitsOf(c7'), Kv!Pending(k)')
    BY <1>2, <1>5, <1>7, <1>8, <1>9, <1>14, <1>17 DEF Kv!Before
  <2>3. Kv!Before(Kv!UnitsOf(c6'[k]), Kv!UnitsOf(c5'[k]) \cup Kv!UnitsOf(c4'[k]))
    BY <1>5, <1>7, <1>8, <1>9, <1>10, <1>12, <1>13 DEF Kv!Before
  <2>4. Kv!Before(Kv!UnitsOf(c5'[k]), Kv!UnitsOf(c4'[k]))
    BY <1>5, <1>7, <1>8, <1>9, <1>10, <1>12, <1>13 DEF Kv!Before
  <2>5. Kv!UnitsOf(c7') \cup c8' \cup Kv!Pending(k)' = 1 .. c9'
    BY <1>2, <1>8, <1>10, <1>12, <1>14, <1>15, <1>16
  <2>6. Kv!UnitsOf(c7') \cap c8' = {}
    BY <1>2, <1>5, <1>7, <1>17, <1>20, <1>23
  <2>7. Kv!Pending(k)' \cap c8' = {}
    <3>1. Kv!Pending(k)' \cap c8 = {}
      BY <1>5, <1>7, <1>8, <1>14, <1>17, <1>20
    <3>2. Kv!Pending(k)' \cap Kv!UnitsOf(left) = {}
      BY <1>14, <1>21, <1>22
    <3> QED
      BY <1>2, <3>1, <3>2
  <2>8. \A j \in Kv!Keyings \ {k} : c6'[j] = <<>> /\ c5'[j] = <<>> /\ c4'[j] = <<>>
    BY <1>2, <1>3, <1>13
  <2> QED
    BY <1>1, <2>1, <2>2, <2>3, <2>4, <2>5, <2>6, <2>7, <2>8, KvLinesUp
<1> QED
  BY <1>18, <1>19, <1>24 DEF Kv!IInv

\* transmit raises: the unit is given up.
LEMMA KvBreaks ==
    ASSUME Kv!IInv, Kv!AskedForAKey', Kv!StreamBreaks
    PROVE  Kv!IInv'
<1>0. Kv!AskedForAKey /\ Kv!Typed /\ Kv!PacersArePaired /\ Kv!Turns /\ Kv!Lined /\ Kv!Accounted
  BY DEF Kv!IInv
<1>1. /\ c9' = c9 + 1 /\ c8' = c8 \cup {c9 + 1}
      /\ c1' = c1 /\ c2' = c2 /\ c3' = c3 /\ c4' = c4 /\ c5' = c5
      /\ c6' = c6 /\ c7' = c7
  BY DEF Kv!StreamBreaks
<1>2. c9 \in Nat /\ c9 + 1 \notin 1 .. c9 /\ 1 .. c9 + 1 = (1 .. c9) \cup {c9 + 1}
  <2>1. c9 \in Nat
    BY <1>0 DEF Kv!Typed
  <2>2. \A q \in Nat : q + 1 \notin 1 .. q /\ 1 .. q + 1 = (1 .. q) \cup {q + 1}
    OBVIOUS
  <2> QED
    BY <2>1, <2>2
<1>3. Kv!Typed' /\ Kv!PacersArePaired' /\ Kv!Turns' /\ Kv!Lined'
  <2>1. Kv!Typed'
    BY <1>0, <1>1, <1>2 DEF Kv!Typed
  <2>2. Kv!PacersArePaired' /\ Kv!Turns'
    BY <1>0, <1>1 DEF Kv!PacersArePaired, Kv!Turns
  <2>3. Kv!Lined'
    BY <1>0, <1>1 DEF Kv!Lined, Kv!Pending
  <2> QED
    BY <2>1, <2>2, <2>3
<1>4. UNION {Kv!Pending(j) : j \in Kv!Keyings}' = UNION {Kv!Pending(j) : j \in Kv!Keyings}
  BY <1>1 DEF Kv!Pending
<1>5. \A j \in Kv!Keyings : Kv!Pending(j)' = Kv!Pending(j) /\ Kv!Pending(j) \subseteq UNION {Kv!Pending(i) : i \in Kv!Keyings}
  BY <1>1 DEF Kv!Pending
<1>6. Kv!Accounted'
  <2> HIDE DEF Kv!Pending
  <2>1. Kv!UnitsOf(c7) \subseteq 1 .. c9 /\ \A j \in Kv!Keyings : Kv!Pending(j) \subseteq 1 .. c9
    BY <1>0, <1>5 DEF Kv!Accounted
  <2> QED
    BY <1>0, <1>1, <1>2, <1>4, <1>5, <2>1 DEF Kv!Accounted
<1> QED
  BY <1>3, <1>6 DEF Kv!IInv
\* A clip of its own: it is sent and flushed within the call.
LEMMA KvClips ==
    ASSUME Kv!RadioAssumption, KvThreads = {"talker"}, Kv!IInv, Kv!AskedForAKey', NEW n \in Nat, Kv!ClipEnds(n)
    PROVE  Kv!IInv'
<1> USE DEF Kv!Moves
<1>0. Kv!AskedForAKey /\ Kv!Typed /\ Kv!PacersArePaired /\ Kv!Turns /\ Kv!Lined /\ Kv!Accounted
  BY DEF Kv!IInv
<1>k. PICK k \in Kv!Keyings : k = c2["talker"].k
  BY <1>0 DEF Kv!ClipEnds, Kv!Turns
<1>1. c2["talker"].at = "clip" /\ ~c1.keyed /\ c1.pacer = 0
  BY <1>0 DEF Kv!ClipEnds, Kv!Turns
<1>2. /\ Kv!Emit(c6[k] \o Kv!Fresh(n)) /\ c6' = [c6 EXCEPT ![k] = <<>>]
      /\ c9' = c9 + n /\ c1'.pacer = 0 /\ ~c1'.keyed
      /\ c2'["talker"] = [at |-> "dropping", k |-> 0]
      /\ c3' = c3 /\ c4' = c4 /\ c5' = c5
  BY <1>0, <1>1, <1>k DEF Kv!ClipEnds, Kv!PushAndFlush, Kv!AskedForAKey
<1>3. \A j \in Kv!Keyings : c3[j].st = "none"
  BY <1>0, <1>1, KvPaces DEF Kv!Keyings
<1>4. \A j \in Kv!Keyings : c6[j] = <<>> /\ c5[j] = <<>> /\ c4[j] = <<>>
  <2>1. \A j \in Kv!Keyings : c2["talker"] # [at |-> "flushing", k |-> j]
    BY <1>1
  <2> QED
    BY <1>0, <1>3, <2>1 DEF Kv!Turns
<1>5. \A j \in Kv!Keyings : c6'[j] = <<>> /\ c5'[j] = <<>> /\ c4'[j] = <<>>
  BY <1>0, <1>2, <1>4 DEF Kv!Typed
<1>6. c9 \in Nat
  BY <1>0 DEF Kv!Typed
<1>7. /\ Kv!Fresh(n) \in Seq(Nat) /\ Kv!InOrder(Kv!Fresh(n)) /\ Kv!UnitsOf(Kv!Fresh(n)) = c9 + 1 .. c9 + n
  BY <1>6, KvFresh
<1>8. c6[k] \o Kv!Fresh(n) = Kv!Fresh(n)
  BY <1>4, <1>7
<1>9. Kv!Pending(k) = {} /\ Kv!Pending(k)' = {}
  BY <1>4, <1>5, KvNothing DEF Kv!Pending
<1>10. Kv!UnitsOf(c7) \cup c8 = 1 .. c9 /\ Kv!UnitsOf(c7) \cap c8 = {} /\ Kv!InOrder(c7)
  <2>1. Kv!UnitsOf(c7) \cup c8 \cup Kv!Pending(k) = 1 .. c9
    BY <1>0, <1>4, KvAllPends
  <2> QED
    BY <1>0, <1>9, <2>1 DEF Kv!Accounted, Kv!Lined
<1>11. Kv!Lined' /\ Kv!Accounted' /\ c7' \in Seq(Nat \ {Kv!Silence}) /\ c8' \subseteq Nat
  <2> DEFINE Q == c9 + 1 .. c9 + n
  <2>1. /\ Q \in SUBSET Nat /\ 1 .. c9' = (1 .. c9) \cup Q
        /\ \A x \in 1 .. c9, y \in Q : x < y /\ x # y
    BY <1>2, <1>6
  <2>2. Kv!Before(Kv!UnitsOf(c7), Q) /\ Q \cap c8 = {} /\ Kv!UnitsOf(c7) \cup c8 \cup Q = 1 .. c9'
    <3> HIDE DEF Q
    <3> QED
      BY <1>10, <2>1 DEF Kv!Before
  <2>3. Kv!Before(Kv!UnitsOf(Kv!Fresh(n)), Kv!Pending(k)') /\ Kv!UnitsOf(Kv!Fresh(n)) \cup Kv!Pending(k)' = Q
        /\ Kv!Pending(k)' \subseteq Q
    BY <1>7, <1>9 DEF Kv!Before
  <2>4. /\ Kv!UnitsOf(c6'[k]) = {} /\ Kv!UnitsOf(c5'[k]) = {} /\ Kv!UnitsOf(c4'[k]) = {}
        /\ Kv!InOrder(c6'[k]) /\ Kv!InOrder(c5'[k]) /\ Kv!InOrder(c4'[k])
    BY <1>5, KvNothing
  <2>5. /\ Kv!Before(Kv!UnitsOf(c6'[k]), Kv!UnitsOf(c5'[k]) \cup Kv!UnitsOf(c4'[k]))
        /\ Kv!Before(Kv!UnitsOf(c5'[k]), Kv!UnitsOf(c4'[k]))
    BY <2>4 DEF Kv!Before
  <2>6. Kv!Emit(Kv!Fresh(n)) /\ Kv!UnitsOf(Kv!Fresh(n)) \subseteq Q
    BY <1>2, <1>7, <1>8
  <2> HIDE DEF Q
  <2> QED
    BY <1>0, <1>5, <1>7, <1>10, <2>1, <2>2, <2>3, <2>4, <2>5, <2>6, KvSends
<1>12. Kv!Typed'
  <2>1. c9' \in Nat
    BY <1>2, <1>6
  <2>2. {c4, c5, c6}' \subseteq [Kv!Keyings -> Seq(Nat)]
    BY <1>0, <1>2, KvNothing DEF Kv!Typed
  <2> QED
    BY <1>0, <1>2, <1>11, <2>1, <2>2 DEF Kv!Typed
<1>13. Kv!PacersArePaired' /\ Kv!Turns'
  <2>1. Kv!PacersArePaired'
    BY <1>2, <1>3 DEF Kv!PacersArePaired
  <2>2. Kv!Turns'
    BY <1>2, <1>3, <1>5, KvNothing DEF Kv!Turns, Kv!Idle
  <2> QED
    BY <2>1, <2>2
<1> QED
  BY <1>11, <1>12, <1>13 DEF Kv!IInv

\* A key-down sends what the encoder holds and what is queued.
LEMMA KvFlushes ==
    ASSUME Kv!RadioAssumption, KvThreads = {"talker"}, Kv!IInv, Kv!AskedForAKey', Kv!FlushesTail("talker")
    PROVE  Kv!IInv'
<1> USE DEF Kv!Moves
<1>0. Kv!AskedForAKey /\ Kv!Typed /\ Kv!PacersArePaired /\ Kv!Turns /\ Kv!Lined /\ Kv!Accounted
  BY DEF Kv!IInv
<1>k. PICK k \in Kv!Keyings : k = c2["talker"].k
  BY <1>0 DEF Kv!FlushesTail, Kv!Turns
<1>1. c2["talker"].at = "flushing" /\ c1.pacer = 0
  BY <1>0 DEF Kv!FlushesTail, Kv!Turns, Kv!Idle
<1>2. /\ Kv!Emit(c6[k] \o c4[k]) /\ c6' = [c6 EXCEPT ![k] = <<>>] /\ c4' = [c4 EXCEPT ![k] = <<>>]
      /\ c1'.pacer = 0 /\ c1'.keyed = c1.keyed
      /\ c2'["talker"] = [at |-> "dropping", k |-> 0]
      /\ c3' = c3 /\ c5' = c5 /\ c9' = c9
  BY <1>0, <1>1, <1>k DEF Kv!FlushesTail, Kv!PushAndFlush, Kv!AskedForAKey
<1>3. \A j \in Kv!Keyings : c3[j].st = "none"
  BY <1>0, <1>1, KvPaces DEF Kv!Keyings
<1>4. \A j \in Kv!Keyings \ {k} : c6[j] = <<>> /\ c5[j] = <<>> /\ c4[j] = <<>>
  BY <1>0, <1>1, <1>k, KvOnePends
<1>5. c5[k] = <<>>
  BY <1>0, <1>3 DEF Kv!Turns
<1>6. \A j \in Kv!Keyings : c6'[j] = <<>> /\ c5'[j] = <<>> /\ c4'[j] = <<>>
  BY <1>0, <1>2, <1>4, <1>5 DEF Kv!Typed
<1>7. /\ c6[k] \in Seq(Nat) /\ c4[k] \in Seq(Nat) /\ c7 \in Seq(Nat)
      /\ Kv!Pending(k) \subseteq 1 .. c9 /\ c9 \in Nat
  BY <1>0, KvNumbered DEF Kv!Typed
<1>8. Kv!Pending(k) = Kv!UnitsOf(c6[k]) \cup Kv!UnitsOf(c4[k]) /\ Kv!Pending(k)' = {}
  BY <1>5, <1>6, KvNothing DEF Kv!Pending
<1>9. /\ Kv!InOrder(c6[k]) /\ Kv!InOrder(c4[k]) /\ Kv!InOrder(c7)
      /\ Kv!Before(Kv!UnitsOf(c7), Kv!Pending(k)) /\ Kv!Before(Kv!UnitsOf(c6[k]), Kv!UnitsOf(c4[k]))
      /\ Kv!UnitsOf(c7) \cap c8 = {} /\ Kv!Pending(k) \cap c8 = {}
  BY <1>0 DEF Kv!Lined, Kv!Accounted, Kv!Before
<1>10. Kv!UnitsOf(c7) \cup c8 \cup Kv!Pending(k) = 1 .. c9
  BY <1>0, <1>4, KvAllPends
<1>11. /\ c6[k] \o c4[k] \in Seq(Nat) /\ Kv!UnitsOf(c6[k] \o c4[k]) = Kv!Pending(k)
       /\ Kv!InOrder(c6[k] \o c4[k])
  <2>1. Nat \in SUBSET Nat
    OBVIOUS
  <2> QED
    BY <1>7, <1>8, <1>9, <2>1, KvJoined
<1>12. Kv!Lined' /\ Kv!Accounted' /\ c7' \in Seq(Nat \ {Kv!Silence}) /\ c8' \subseteq Nat
  <2>1. PICK Q \in SUBSET Nat : Q = Kv!Pending(k)
    BY <1>7
  <2>2. /\ Kv!UnitsOf(c7) \cup c8 \cup Q = 1 .. c9' /\ Kv!Before(Kv!UnitsOf(c7), Q) /\ Q \cap c8 = {}
    BY <1>2, <1>9, <1>10, <2>1
  <2>3. PICK s \in Seq(Nat) : s = c6[k] \o c4[k]
    BY <1>11
  <2>4. Kv!UnitsOf(s) = Q /\ Kv!InOrder(s) /\ Kv!Emit(s)
    BY <1>2, <1>11, <2>1, <2>3
  <2>5. Kv!Before(Kv!UnitsOf(s), Kv!Pending(k)') /\ Kv!UnitsOf(s) \cup Kv!Pending(k)' = Q
        /\ Kv!Pending(k)' \subseteq Q /\ Kv!UnitsOf(s) \subseteq Q
    BY <1>8, <2>4 DEF Kv!Before
  <2>6. /\ Kv!UnitsOf(c6'[k]) = {} /\ Kv!UnitsOf(c5'[k]) = {} /\ Kv!UnitsOf(c4'[k]) = {}
        /\ Kv!InOrder(c6'[k]) /\ Kv!InOrder(c5'[k]) /\ Kv!InOrder(c4'[k])
    BY <1>6, KvNothing
  <2>7. /\ Kv!Before(Kv!UnitsOf(c6'[k]), Kv!UnitsOf(c5'[k]) \cup Kv!UnitsOf(c4'[k]))
        /\ Kv!Before(Kv!UnitsOf(c5'[k]), Kv!UnitsOf(c4'[k]))
    BY <2>6 DEF Kv!Before
  <2> QED
    BY <1>0, <1>6, <1>9, <2>2, <2>4, <2>5, <2>6, <2>7, KvSends
<1>13. Kv!Typed'
  <2>1. {c4, c5, c6}' \subseteq [Kv!Keyings -> Seq(Nat)]
    BY <1>0, <1>2, KvNothing DEF Kv!Typed
  <2> QED
    BY <1>0, <1>2, <1>12, <2>1 DEF Kv!Typed
<1>14. Kv!PacersArePaired' /\ Kv!Turns'
  <2>1. Kv!PacersArePaired'
    BY <1>2, <1>3 DEF Kv!PacersArePaired
  <2>2. Kv!Turns'
    BY <1>2, <1>3, <1>6, KvNothing DEF Kv!Turns, Kv!Idle
  <2> QED
    BY <2>1, <2>2
<1> QED
  BY <1>12, <1>13, <1>14 DEF Kv!IInv

\* A tick takes a frame off the queue, or makes one of silence.
LEMMA KvTakes ==
    ASSUME Kv!RadioAssumption, KvThreads = {"talker"}, Kv!IInv, Kv!AskedForAKey', NEW k \in Kv!Keyings, Kv!TickTakes(k)
    PROVE  Kv!IInv'
<1>0. Kv!AskedForAKey /\ Kv!Typed /\ Kv!PacersArePaired /\ Kv!Turns /\ Kv!Lined /\ Kv!Accounted
  BY DEF Kv!IInv
<1>1. /\ c3[k].st = "waiting" /\ c3' = [c3 EXCEPT ![k].st = "ticking"]
      /\ c1' = c1 /\ c2' = c2 /\ c6' = c6 /\ c7' = c7 /\ c8' = c8 /\ c9' = c9
  BY DEF Kv!TickTakes
<1>2. c5[k] = <<>>
  BY <1>0, <1>1 DEF Kv!Turns
<1>3. \A j \in Kv!Keyings \ {k} : c6[j] = <<>> /\ c5[j] = <<>> /\ c4[j] = <<>> /\ c3[j].st = "none"
  BY <1>0, <1>1, KvOnePends
<1>4. /\ c6[k] \in Seq(Nat) /\ c4[k] \in Seq(Nat) /\ c7 \in Seq(Nat)
      /\ Kv!Pending(k) \subseteq 1 .. c9 /\ c9 \in Nat
  BY <1>0, KvNumbered DEF Kv!Typed
<1>5. PICK c \in Seq(Nat), b \in Seq(Nat) :
          /\ c5' = [c5 EXCEPT ![k] = c] /\ c4' = [c4 EXCEPT ![k] = b] /\ Len(c) = 2
          /\ Kv!UnitsOf(c4[k]) = Kv!UnitsOf(c) \cup Kv!UnitsOf(b)
          /\ Kv!InOrder(c4[k]) => Kv!InOrder(c) /\ Kv!InOrder(b) /\ Kv!Before(Kv!UnitsOf(c), Kv!UnitsOf(b))
  <2>1. CASE Len(c4[k]) >= 2
    <3> DEFINE c == SubSeq(c4[k], 1, 2)
               b == SubSeq(c4[k], 3, Len(c4[k]))
    <3>1. 2 \in 0 .. Len(c4[k]) /\ 2 + 1 = 3
      BY <1>4, <2>1
    <3>2. /\ c \in Seq(Nat) /\ b \in Seq(Nat) /\ Len(c) = 2
          /\ Kv!UnitsOf(c4[k]) = Kv!UnitsOf(c) \cup Kv!UnitsOf(b)
          /\ Kv!InOrder(c4[k]) => Kv!InOrder(c) /\ Kv!InOrder(b) /\ Kv!Before(Kv!UnitsOf(c), Kv!UnitsOf(b))
      <4>1. PICK s \in Seq(Nat) : s = c4[k]
        BY <1>4
      <4>2. 2 \in 0 .. Len(s) /\ c = SubSeq(s, 1, 2) /\ b = SubSeq(s, 2 + 1, Len(s))
        BY <3>1, <4>1
      <4> HIDE DEF c, b
      <4>3. /\ c \in Seq(Nat) /\ b \in Seq(Nat) /\ Len(c) = 2 /\ Kv!UnitsOf(s) = Kv!UnitsOf(c) \cup Kv!UnitsOf(b)
            /\ Kv!InOrder(s) => Kv!InOrder(c) /\ Kv!InOrder(b) /\ Kv!Before(Kv!UnitsOf(c), Kv!UnitsOf(b))
        BY <4>2, KvCut
      <4> QED
        BY <4>1, <4>3
    <3>3. c5' = [c5 EXCEPT ![k] = c] /\ c4' = [c4 EXCEPT ![k] = b]
      BY <2>1 DEF Kv!TickTakes
    <3> HIDE DEF c, b
    <3> QED
      BY <3>2, <3>3
  <2>2. CASE ~(Len(c4[k]) >= 2)
    <3> DEFINE c == <<Kv!Silence, Kv!Silence>>
    <3>1. c \in Seq(Nat) /\ Len(c) = 2 /\ Kv!UnitsOf(c) = {} /\ Kv!InOrder(c)
      BY KvNothing
    <3>2. c5' = [c5 EXCEPT ![k] = c] /\ c4' = c4
      BY <2>2 DEF Kv!TickTakes
    <3> HIDE DEF c
    <3>3. c4' = [c4 EXCEPT ![k] = c4[k]]
      BY <1>0, <3>2 DEF Kv!Typed
    <3>4. Kv!Before(Kv!UnitsOf(c), Kv!UnitsOf(c4[k]))
      BY <3>1 DEF Kv!Before
    <3> QED
      BY <1>4, <3>1, <3>2, <3>3, <3>4
  <2> QED
    BY <2>1, <2>2
<1>6. /\ c5'[k] = c /\ c4'[k] = b /\ c6'[k] = c6[k] /\ c3'[k].st = "ticking"
      /\ \A j \in Kv!Keyings \ {k} : c5'[j] = c5[j] /\ c4'[j] = c4[j] /\ c3'[j] = c3[j]
  BY <1>0, <1>1, <1>5 DEF Kv!Typed
<1>7. Kv!Pending(k)' = Kv!Pending(k)
  BY <1>1, <1>2, <1>5, <1>6, KvNothing DEF Kv!Pending
<1>8. /\ Kv!InOrder(c6[k]) /\ Kv!InOrder(c) /\ Kv!InOrder(b) /\ Kv!InOrder(c7)
      /\ Kv!Before(Kv!UnitsOf(c7), Kv!Pending(k)) /\ Kv!Before(Kv!UnitsOf(c6[k]), Kv!UnitsOf(c4[k]))
      /\ Kv!Before(Kv!UnitsOf(c), Kv!UnitsOf(b))
      /\ Kv!UnitsOf(c7) \cap c8 = {} /\ Kv!Pending(k) \cap c8 = {}
  BY <1>0, <1>5 DEF Kv!Lined, Kv!Accounted, Kv!Before
<1>9. Kv!UnitsOf(c7) \cup c8 \cup Kv!Pending(k) = 1 .. c9
  BY <1>0, <1>3, KvAllPends
<1>10. Kv!Lined' /\ Kv!Accounted'
  <2>1. Kv!InOrder(c7)' /\ Kv!InOrder(c6'[k]) /\ Kv!InOrder(c5'[k]) /\ Kv!InOrder(c4'[k])
    BY <1>1, <1>6, <1>8
  <2>2. Kv!Before(Kv!UnitsOf(c7'), Kv!Pending(k)') /\ Kv!Before(Kv!UnitsOf(c5'[k]), Kv!UnitsOf(c4'[k]))
    BY <1>1, <1>6, <1>7, <1>8
  <2>3. Kv!Before(Kv!UnitsOf(c6'[k]), Kv!UnitsOf(c5'[k]) \cup Kv!UnitsOf(c4'[k]))
    BY <1>5, <1>6, <1>8
  <2>4. /\ Kv!UnitsOf(c7') \cup c8' \cup Kv!Pending(k)' = 1 .. c9'
        /\ Kv!UnitsOf(c7') \cap c8' = {} /\ Kv!Pending(k)' \cap c8' = {}
    BY <1>1, <1>7, <1>8, <1>9
  <2>5. \A j \in Kv!Keyings \ {k} : c6'[j] = <<>> /\ c5'[j] = <<>> /\ c4'[j] = <<>>
    BY <1>1, <1>3, <1>6
  <2> QED
    BY <2>1, <2>2, <2>3, <2>4, <2>5, KvLinesUp
<1>11. Kv!Typed'
  <2>1. {c4, c5, c6}' \subseteq [Kv!Keyings -> Seq(Nat)]
    BY <1>0, <1>1, <1>5 DEF Kv!Typed
  <2>2. c3' \in [Kv!Keyings -> [st : {"none", "waiting", "ticking"}, stop : BOOLEAN]]
    BY <1>0, <1>1 DEF Kv!Typed
  <2> QED
    BY <1>0, <1>1, <2>1, <2>2 DEF Kv!Typed
<1>12. Kv!PacersArePaired' /\ Kv!Turns'
  <2>1. Kv!PacersArePaired'
    BY <1>0, <1>1, <1>6 DEF Kv!PacersArePaired
  <2>2. \A j \in Kv!Keyings : c3'[j].st = "none" => c3[j].st = "none" /\ j # k
    BY <1>6
  <2>3. c1'.pacer # 0 => c3'[c1'.pacer].st # "none"
    BY <1>0, <1>1, <1>6 DEF Kv!Turns, Kv!AskedForAKey, Kv!Keyings
  <2>4. Kv!Turns'
    BY <1>0, <1>1, <1>3, <1>5, <1>6, <2>2, <2>3 DEF Kv!Turns
  <2> QED
    BY <2>1, <2>4
<1> QED
  BY <1>10, <1>11, <1>12 DEF Kv!IInv

\* A tick sends the whole frames of what its encoder then holds.
LEMMA KvTicks ==
    ASSUME Kv!RadioAssumption, KvThreads = {"talker"}, Kv!IInv, Kv!AskedForAKey', NEW k \in Kv!Keyings, Kv!TickSends(k)
    PROVE  Kv!IInv'
<1>0. Kv!AskedForAKey /\ Kv!Typed /\ Kv!PacersArePaired /\ Kv!Turns /\ Kv!Lined /\ Kv!Accounted
  BY DEF Kv!IInv
<1>1. /\ c3[k].st = "ticking" /\ c3' = [c3 EXCEPT ![k].st = "waiting"]
      /\ Kv!Emit(Kv!Whole(c6[k] \o c5[k])) /\ c6' = [c6 EXCEPT ![k] = Kv!Rest(c6[k] \o c5[k])]
      /\ c5' = [c5 EXCEPT ![k] = <<>>]
      /\ c1' = c1 /\ c2' = c2 /\ c4' = c4 /\ c9' = c9
  BY DEF Kv!TickSends, Kv!Push
<1>2. \A j \in Kv!Keyings \ {k} : c6[j] = <<>> /\ c5[j] = <<>> /\ c4[j] = <<>> /\ c3[j].st = "none"
  BY <1>0, <1>1, KvOnePends
<1>3. /\ c6[k] \in Seq(Nat) /\ c5[k] \in Seq(Nat) /\ c4[k] \in Seq(Nat) /\ c7 \in Seq(Nat)
      /\ Kv!Pending(k) \subseteq 1 .. c9 /\ c9 \in Nat
  BY <1>0, KvNumbered DEF Kv!Typed
<1>4. /\ Kv!InOrder(c6[k]) /\ Kv!InOrder(c5[k]) /\ Kv!InOrder(c4[k]) /\ Kv!InOrder(c7)
      /\ Kv!Before(Kv!UnitsOf(c7), Kv!Pending(k))
      /\ Kv!Before(Kv!UnitsOf(c6[k]), Kv!UnitsOf(c5[k])) /\ Kv!Before(Kv!UnitsOf(c6[k]), Kv!UnitsOf(c4[k]))
      /\ Kv!Before(Kv!UnitsOf(c5[k]), Kv!UnitsOf(c4[k]))
      /\ Kv!UnitsOf(c7) \cap c8 = {} /\ Kv!Pending(k) \cap c8 = {}
  BY <1>0 DEF Kv!Lined, Kv!Accounted, Kv!Before
<1>5. PICK s \in Seq(Nat) : s = c6[k] \o c5[k] /\ Kv!InOrder(s)
                            /\ Kv!UnitsOf(s) = Kv!UnitsOf(c6[k]) \cup Kv!UnitsOf(c5[k])
  <2>1. Nat \in SUBSET Nat
    OBVIOUS
  <2>2. /\ c6[k] \o c5[k] \in Seq(Nat) /\ Kv!InOrder(c6[k] \o c5[k])
        /\ Kv!UnitsOf(c6[k] \o c5[k]) = Kv!UnitsOf(c6[k]) \cup Kv!UnitsOf(c5[k])
    <3>1. PICK a \in Seq(Nat), c \in Seq(Nat) : a = c6[k] /\ c = c5[k]
      BY <1>3
    <3>2. Kv!InOrder(a) /\ Kv!InOrder(c) /\ Kv!Before(Kv!UnitsOf(a), Kv!UnitsOf(c))
      BY <1>4, <3>1
    <3>3. /\ a \o c \in Seq(Nat) /\ Kv!InOrder(a \o c)
          /\ Kv!UnitsOf(a \o c) = Kv!UnitsOf(a) \cup Kv!UnitsOf(c)
      BY <2>1, <3>2, KvJoined
    <3> QED
      BY <3>1, <3>3
  <2> QED
    BY <2>2
<1>6. PICK w \in Seq(Nat), r \in Seq(Nat) :
          /\ w = Kv!Whole(s) /\ r = Kv!Rest(s) /\ Len(r) \in 0 .. 1 /\ Kv!UnitsOf(s) = Kv!UnitsOf(w) \cup Kv!UnitsOf(r)
          /\ Kv!InOrder(w) /\ Kv!InOrder(r) /\ Kv!Before(Kv!UnitsOf(w), Kv!UnitsOf(r))
  BY <1>5, KvFrames
<1>7. Kv!Emit(w) /\ c6' = [c6 EXCEPT ![k] = r]
  BY <1>1, <1>5, <1>6
<1>8. /\ c6'[k] = r /\ c5'[k] = <<>> /\ c4'[k] = c4[k] /\ c3'[k].st = "waiting"
      /\ \A j \in Kv!Keyings \ {k} : c5'[j] = c5[j] /\ c6'[j] = c6[j] /\ c3'[j] = c3[j]
  BY <1>0, <1>1, <1>7 DEF Kv!Typed
<1>9. Kv!Pending(k) = Kv!UnitsOf(s) \cup Kv!UnitsOf(c4[k]) /\ Kv!Pending(k)' = Kv!UnitsOf(r) \cup Kv!UnitsOf(c4[k])
  BY <1>5, <1>8, KvNothing DEF Kv!Pending
<1>10. Kv!Before(Kv!UnitsOf(s), Kv!UnitsOf(c4[k]))
  BY <1>4, <1>5 DEF Kv!Before
<1>11. Kv!UnitsOf(c7) \cup c8 \cup Kv!Pending(k) = 1 .. c9
  BY <1>0, <1>2, KvAllPends
<1>12. Kv!Lined' /\ Kv!Accounted' /\ c7' \in Seq(Nat \ {Kv!Silence}) /\ c8' \subseteq Nat
  <2>1. PICK Q \in SUBSET Nat : Q = Kv!Pending(k)
    BY <1>3
  <2>2. /\ Kv!UnitsOf(c7) \cup c8 \cup Q = 1 .. c9' /\ Kv!Before(Kv!UnitsOf(c7), Q) /\ Q \cap c8 = {}
    BY <1>1, <1>4, <1>11, <2>1
  <2>3. Kv!Before(Kv!UnitsOf(w), Kv!Pending(k)')
    BY <1>6, <1>9, <1>10 DEF Kv!Before
  <2>4. Kv!UnitsOf(w) \cup Kv!Pending(k)' = Q /\ Kv!Pending(k)' \subseteq Q /\ Kv!UnitsOf(w) \subseteq Q
    BY <1>6, <1>9, <2>1
  <2>5. /\ Kv!UnitsOf(c5'[k]) = {} /\ Kv!InOrder(c6'[k]) /\ Kv!InOrder(c5'[k]) /\ Kv!InOrder(c4'[k])
    BY <1>4, <1>6, <1>8, KvNothing
  <2>6. /\ Kv!Before(Kv!UnitsOf(c6'[k]), Kv!UnitsOf(c5'[k]) \cup Kv!UnitsOf(c4'[k]))
        /\ Kv!Before(Kv!UnitsOf(c5'[k]), Kv!UnitsOf(c4'[k]))
    BY <1>6, <1>8, <1>10, <2>5 DEF Kv!Before
  <2>7. \A j \in Kv!Keyings \ {k} : c6'[j] = <<>> /\ c5'[j] = <<>> /\ c4'[j] = <<>>
    BY <1>1, <1>2, <1>8
  <2> QED
    BY <1>0, <1>4, <1>6, <1>7, <2>2, <2>3, <2>4, <2>5, <2>6, <2>7, KvSends
<1>13. Kv!Typed'
  <2>1. {c4, c5, c6}' \subseteq [Kv!Keyings -> Seq(Nat)]
    BY <1>0, <1>1, <1>7, KvNothing DEF Kv!Typed
  <2> QED
    BY <1>0, <1>1, <1>12, <2>1 DEF Kv!Typed
<1>14. Kv!PacersArePaired' /\ Kv!Turns'
  <2>1. Kv!PacersArePaired'
    BY <1>0, <1>1, <1>8 DEF Kv!PacersArePaired
  <2>2. \A j \in Kv!Keyings : c3'[j].st = "none" => c3[j].st = "none" /\ j # k
    BY <1>8
  <2>3. c1'.pacer # 0 => c3'[c1'.pacer].st # "none"
    BY <1>0, <1>1, <1>8 DEF Kv!Turns, Kv!AskedForAKey, Kv!Keyings
  <2>4. Len(r) <= 1
    <3>1. \A l \in 0 .. 1 : l <= 1
      OBVIOUS
    <3> QED
      BY <1>6, <3>1
  <2>5. Kv!Turns'
    BY <1>0, <1>1, <1>2, <1>8, <2>2, <2>3, <2>4 DEF Kv!Turns
  <2> QED
    BY <2>1, <2>5
<1> QED
  BY <1>12, <1>13, <1>14 DEF Kv!IInv

\* With one thread that keys, and any buffer, lead-in and fault: all that was
\* queued has been heard in its order or was given up once the key is down, no
\* pacer outlives its key, and an encoder is never used by two.
THEOREM TailsAreSent ==
    ASSUME Kv!RadioAssumption, KvThreads = {"talker"}
    PROVE  Kv!Spec => [](Kv!TailIsSent /\ Kv!PacersArePaired /\ Kv!EncoderHasOneUser)
<1>1. Kv!Init => Kv!IInv
  <2> SUFFICES ASSUME Kv!Init
               PROVE  Kv!IInv
    OBVIOUS
  <2>0. PICK zero \in 0 .. KvMaxKeyings : zero = 0
    BY DEF Kv!RadioAssumption
  <2>1. c1 = [keyed |-> FALSE, ptt |-> FALSE, tx |-> zero, pacer |-> zero, closed |-> FALSE]
    BY <2>0 DEF Kv!Init
  <2>2. c2 = [t \in KvThreads |-> [at |-> "idle", k |-> zero]]
    BY <2>0 DEF Kv!Init, Kv!Idle
  <2>3. c10 \in [tx : BOOLEAN, keyings : 0 .. KvMaxKeyings, fault : KvRadioFaults]
    <3>1. PICK fault \in KvRadioFaults : c10 = [tx |-> FALSE, keyings |-> zero, fault |-> fault]
      BY <2>0 DEF Kv!Init
    <3> QED
      BY <3>1
  <2>4. Kv!AskedForAKey
    BY <2>1, <2>2, <2>3 DEF Kv!AskedForAKey
  <2>5. /\ c3 = [k \in Kv!Keyings |-> [st |-> "none", stop |-> FALSE]]
        /\ c4 = [k \in Kv!Keyings |-> << >>] /\ c5 = c4 /\ c6 = c4
        /\ c7 = << >> /\ c8 = {} /\ c9 = 0
    BY DEF Kv!Init
  <2>6. Kv!Typed
    BY <2>5 DEF Kv!Typed
  <2>7. Kv!PacersArePaired
    BY <2>5 DEF Kv!PacersArePaired
  <2>8. Kv!Turns
    BY <2>0, <2>1, <2>2, <2>5, KvNothing DEF Kv!Turns, Kv!Idle
  <2>9. \A k \in Kv!Keyings : /\ Kv!UnitsOf(c6[k]) = {} /\ Kv!UnitsOf(c5[k]) = {} /\ Kv!UnitsOf(c4[k]) = {}
                           /\ Kv!InOrder(c6[k]) /\ Kv!InOrder(c5[k]) /\ Kv!InOrder(c4[k])
    BY <2>5, KvNothing
  <2>10. Kv!InOrder(c7) /\ Kv!UnitsOf(c7) = {} /\ 1 .. c9 = {}
    BY <2>5, KvNothing
  <2>11. Kv!Lined /\ Kv!Accounted
    <3>1. \A k \in Kv!Keyings : Kv!Pending(k) = {}
      BY <2>9 DEF Kv!Pending
    <3>2. Kv!Lined
      BY <2>9, <2>10, <3>1 DEF Kv!Lined, Kv!Before
    <3>3. Kv!Accounted
      BY <2>5, <2>10, <3>1 DEF Kv!Accounted
    <3> QED
      BY <3>2, <3>3
  <2> QED
    BY <2>4, <2>6, <2>7, <2>8, <2>11 DEF Kv!IInv
<1>2. Kv!IInv /\ [Kv!Next]_(Kv!vars) => Kv!IInv'
  <2>1. CASE Kv!Next
    <3> SUFFICES ASSUME Kv!IInv, Kv!Next
                 PROVE  Kv!IInv'
      BY <2>1
    <3>1. Kv!AskedForAKey'
      BY KvAsksForAKey DEF Kv!IInv
    <3>2. \A n \in Kv!Room : n \in Nat
      BY DEF Kv!Room
    <3>3. CASE Kv!Leads \/ Kv!StreamBreaks
      BY <3>1, <3>3, KvLeads, KvBreaks
    <3>4. CASE \E n \in Kv!Room : Kv!Streams(n) \/ Kv!ClipEnds(n)
      BY <3>1, <3>2, <3>4, KvStreams, KvClips
    <3>5. CASE \E k \in Kv!Keyings : Kv!TickTakes(k) \/ Kv!TickSends(k)
      BY <3>1, <3>5, KvTakes, KvTicks
    <3>6. CASE Kv!FlushesTail("talker")
      BY <3>1, <3>6, KvFlushes
    <3>7. CASE \/ Kv!KeyOn("leading") \/ Kv!KeyOn("clip") \/ Kv!LeadRaises \/ Kv!PttOff("talker") \/ Kv!Joins("talker")
               \/ Kv!Drops("talker") \/ Kv!DropRaises("talker") \/ Kv!Retunes \/ Kv!Closes
      BY <3>1, <3>7, KvCalls
    <3> QED
      BY <3>3, <3>4, <3>5, <3>6, <3>7 DEF Kv!Next, Kv!PttOn, Kv!OneShot
  <2>2. CASE UNCHANGED Kv!vars
    <3> SUFFICES ASSUME Kv!IInv, UNCHANGED Kv!vars
                 PROVE  Kv!IInv'
      BY <2>2
    <3>1. Kv!AskedForAKey' /\ Kv!Typed'
      BY DEF Kv!vars, Kv!IInv, Kv!AskedForAKey, Kv!Typed
    <3>2. Kv!PacersArePaired' /\ Kv!Turns'
      BY DEF Kv!vars, Kv!IInv, Kv!PacersArePaired, Kv!Turns
    <3>3. Kv!Lined' /\ Kv!Accounted'
      BY DEF Kv!vars, Kv!IInv, Kv!Lined, Kv!Accounted, Kv!Pending
    <3> QED
      BY <3>1, <3>2, <3>3 DEF Kv!IInv
  <2> QED
    BY <2>1, <2>2
<1>3. Kv!IInv => Kv!TailIsSent /\ Kv!PacersArePaired /\ Kv!EncoderHasOneUser
  <2> SUFFICES ASSUME Kv!IInv
               PROVE  Kv!TailIsSent /\ Kv!EncoderHasOneUser
    BY DEF Kv!IInv
  <2>0. Kv!AskedForAKey /\ Kv!Typed /\ Kv!PacersArePaired /\ Kv!Turns /\ Kv!Lined /\ Kv!Accounted
    BY DEF Kv!IInv
  <2>1. \A i, j \in 1 .. Len(c7) : i < j => c7[i] < c7[j]
    <3>1. \A i \in 1 .. Len(c7) : c7[i] # Kv!Silence
      BY <2>0 DEF Kv!Typed
    <3> QED
      BY <2>0, <3>1 DEF Kv!Lined, Kv!InOrder
  <2>2. ASSUME ~c1.keyed, Kv!AllIdle
        PROVE  Kv!UnitsOf(c7) \cup c8 = 1 .. c9
    <3>1. c2["talker"].at = "idle" /\ c1.pacer = 0
      BY <2>0, <2>2 DEF Kv!AllIdle, Kv!Idle, Kv!Turns
    <3>2. \A k \in Kv!Keyings : c3[k].st = "none" /\ c2["talker"] # [at |-> "flushing", k |-> k]
      BY <2>0, <3>1, KvPaces DEF Kv!Keyings
    <3>3. \A k \in Kv!Keyings : c6[k] = <<>> /\ c5[k] = <<>> /\ c4[k] = <<>>
      BY <2>0, <3>2 DEF Kv!Turns
    <3>4. \A k \in Kv!Keyings : Kv!Pending(k) = {}
      BY <3>3, KvNothing DEF Kv!Pending
    <3> QED
      BY <2>0, <3>4 DEF Kv!Accounted
  <2>3. Kv!EncoderHasOneUser
    <3> SUFFICES ASSUME NEW k \in Kv!Keyings, c3[k].st = "ticking"
                 PROVE  /\ c2["talker"].k = k => c2["talker"].at \notin {"leading", "clip", "flushing"}
                        /\ Len(c6[k] \o c5[k]) \in {2, 3}
      BY DEF Kv!EncoderHasOneUser
    <3>1. c2["talker"].at \in {"idle", "joining"}
      BY <2>0, KvPaces
    <3>2. Len(c6[k]) <= 1 /\ Len(c5[k]) = 2
      BY <2>0 DEF Kv!Turns
    <3>3. c6[k] \in Seq(Nat) /\ c5[k] \in Seq(Nat)
      BY <2>0 DEF Kv!Typed
    <3>4. Len(c6[k] \o c5[k]) = Len(c6[k]) + 2 /\ Len(c6[k]) \in 0 .. 1
      <4>1. Len(c6[k] \o c5[k]) = Len(c6[k]) + Len(c5[k]) /\ Len(c6[k]) \in Nat
        BY <3>3
      <4>2. \A l \in Nat : l <= 1 => l \in 0 .. 1
        OBVIOUS
      <4> QED
        BY <3>2, <4>1, <4>2
    <3>5. \A l \in 0 .. 1 : l + 2 \in {2, 3}
      OBVIOUS
    <3>6. Len(c6[k] \o c5[k]) \in {2, 3}
      BY <3>4, <3>5
    <3> QED
      BY <3>1, <3>6
  <2>4. Kv!UnitsOf(c7) \cap c8 = {}
    BY <2>0 DEF Kv!Accounted
  <2> QED
    BY <2>1, <2>2, <2>3, <2>4 DEF Kv!TailIsSent
<1> QED
  BY <1>1, <1>2, <1>3, PTL DEF Kv!Spec

-----------------------------------------------------------------------------
(* KvLink: the serial link to a kv4p HT. *)

CONSTANTS
    LinkWindow, LinkHelloWindow, LinkMaxSequence, LinkMaxReports, LinkFaults

Link == INSTANCE KvLink WITH
    Window <- LinkWindow, HelloWindow <- LinkHelloWindow,
    MaxSequence <- LinkMaxSequence, MaxReports <- LinkMaxReports,
    LinkFaults <- LinkFaults,
    host <- c1, at <- c2, wants <- c3, spent <- c4, out <- c5, inp <- c6, dev <- c7,
    lost <- c8

LEMMA LinkCountAlike == \A S : Link!Cardinality(S) = Cardinality(S)
  BY DEF Link!Cardinality, Cardinality

\* What a queue holds of a kind, as it grows at its end and shrinks at its head.
LEMMA LinkCountsKnown ==
    ASSUME NEW T, NEW s \in Seq(T), NEW V
    PROVE  /\ Link!Count(s, V) \in Nat
           /\ IsFiniteSet({i \in 1 .. Len(s) : s[i] \in V})
<1>1. IsFiniteSet(1 .. Len(s))
  BY FS_Interval
<1>2. IsFiniteSet({i \in 1 .. Len(s) : s[i] \in V})
  BY <1>1, FS_Subset
<1> QED
  BY <1>2, FS_CardinalityType, LinkCountAlike DEF Link!Count

LEMMA LinkCountsNothing == \A V : Link!Count(<<>>, V) = 0
<1>1. \A V : {i \in 1 .. Len(<<>>) : <<>>[i] \in V} = {}
  OBVIOUS
<1> QED
  BY <1>1, FS_EmptySet, LinkCountAlike DEF Link!Count

LEMMA LinkCountGrows ==
    ASSUME NEW T, NEW s \in Seq(T), NEW e \in T, NEW V
    PROVE  /\ e \in V => Link!Count(Append(s, e), V) = Link!Count(s, V) + 1
           /\ e \notin V => Link!Count(Append(s, e), V) = Link!Count(s, V)
<1> DEFINE A == {i \in 1 .. Len(s) : s[i] \in V}
           B == {i \in 1 .. Len(Append(s, e)) : Append(s, e)[i] \in V}
<1>1. e \in V => B = A \cup {Len(s) + 1}
  OBVIOUS
<1>2. e \notin V => B = A
  OBVIOUS
<1>3. Len(s) + 1 \notin A
  OBVIOUS
<1>4. IsFiniteSet(A)
  BY LinkCountsKnown
<1>5. Link!Count(s, V) = Cardinality(A) /\ Link!Count(Append(s, e), V) = Cardinality(B)
  BY LinkCountAlike DEF Link!Count
<1> HIDE DEF A, B
<1>6. Cardinality(A \cup {Len(s) + 1}) = Cardinality(A) + 1
  BY <1>3, <1>4, FS_AddElement
<1> QED
  BY <1>1, <1>2, <1>5, <1>6

LEMMA LinkCountShrinks ==
    ASSUME NEW T, NEW s \in Seq(T), s # <<>>, NEW V
    PROVE  /\ Head(s) \in V => Link!Count(s, V) = Link!Count(Tail(s), V) + 1
           /\ Head(s) \notin V => Link!Count(s, V) = Link!Count(Tail(s), V)
<1> DEFINE A == {i \in 1 .. Len(s) : s[i] \in V}
           B == {i \in 1 .. Len(Tail(s)) : Tail(s)[i] \in V}
           f == [i \in B |-> i + 1]
<1>1. Tail(s) \in Seq(T) /\ Len(Tail(s)) = Len(s) - 1
  OBVIOUS
<1>2. \A i \in 1 .. Len(Tail(s)) : Tail(s)[i] = s[i + 1]
  OBVIOUS
<1>3. \A i \in A : i # 1 => i - 1 \in B /\ f[i - 1] = i
  BY <1>1, <1>2
<1>4. f \in [B -> A \ {1}]
  BY <1>1, <1>2
<1>5. \A i, j \in B : f[i] = f[j] => i = j
  BY <1>1
<1>6. f \in Bijection(B, A \ {1})
  BY <1>3, <1>4, <1>5 DEF Bijection, Injection, Surjection, IsInjective
<1>7. IsFiniteSet(A) /\ IsFiniteSet(B)
  BY <1>1, LinkCountsKnown
<1>8. Link!Count(s, V) = Cardinality(A) /\ Link!Count(Tail(s), V) = Cardinality(B)
  BY LinkCountAlike DEF Link!Count
<1>9. 1 \in A <=> Head(s) \in V
  OBVIOUS
<1>10. Cardinality(A) \in Nat
  BY <1>7, FS_CardinalityType
<1> HIDE DEF A, B, f
<1>11. Cardinality(A \ {1}) = Cardinality(B)
  BY <1>6, <1>7, FS_Bijection DEF ExistsBijection
<1>12. Cardinality(A \ {1}) = IF 1 \in A THEN Cardinality(A) - 1 ELSE Cardinality(A)
  BY <1>7, FS_RemoveElement
<1> QED
  BY <1>8, <1>9, <1>10, <1>11, <1>12

LEMMA LinkFramesCost == \A f \in Link!Frames : Link!Cost(f) = (IF f \in Link!States THEN 2 ELSE 1) /\ f # Link!NoFrame
  BY DEF Link!Cost, Link!Frames, Link!States, Link!Audio, Link!NoFrame

LEMMA LinkCosts ==
    ASSUME NEW s \in Seq(Link!Frames)
    PROVE  /\ Link!CostOf(s) \in Nat
           /\ \A f \in Link!Frames : Link!CostOf(Append(s, f)) = Link!CostOf(s) + Link!Cost(f)
           /\ s # <<>> => Link!CostOf(s) = Link!CostOf(Tail(s)) + Link!Cost(Head(s))
<1>1. Link!Count(s, Link!States) \in Nat
  BY LinkCountsKnown
<1>2. ASSUME NEW f \in Link!Frames
      PROVE  Link!CostOf(Append(s, f)) = Link!CostOf(s) + Link!Cost(f)
  <2>1. Len(Append(s, f)) = Len(s) + 1
    OBVIOUS
  <2> QED
    BY <1>1, <2>1, LinkCountGrows, LinkFramesCost DEF Link!CostOf
<1>3. ASSUME s # <<>>
      PROVE  Link!CostOf(s) = Link!CostOf(Tail(s)) + Link!Cost(Head(s))
  <2>1. Tail(s) \in Seq(Link!Frames) /\ Len(Tail(s)) = Len(s) - 1 /\ Head(s) \in Link!Frames
    BY <1>3
  <2>2. Link!Count(Tail(s), Link!States) \in Nat
    BY <2>1, LinkCountsKnown
  <2>3. /\ Head(s) \in Link!States => Link!Count(s, Link!States) = Link!Count(Tail(s), Link!States) + 1
        /\ Head(s) \notin Link!States => Link!Count(s, Link!States) = Link!Count(Tail(s), Link!States)
    BY <1>3, LinkCountShrinks
  <2> QED
    BY <1>1, <2>1, <2>2, <2>3, LinkFramesCost DEF Link!CostOf
<1> QED
  BY <1>1, <1>2, <1>3 DEF Link!CostOf

LEMMA LinkRefunds ==
    ASSUME NEW s \in Seq(Link!Reports)
    PROVE  /\ Link!RefundOf(s) \in Nat
           /\ \A r \in Link!Reports : Link!RefundOf(Append(s, r))
                                   = Link!RefundOf(s) + (IF r.kind = "window" THEN r.size ELSE 0)
           /\ s # <<>> => Link!RefundOf(s) = Link!RefundOf(Tail(s))
                                   + (IF Head(s).kind = "window" THEN Head(s).size ELSE 0)
<1>1. Link!Count(s, {Link!Refund(1)}) \in Nat /\ Link!Count(s, {Link!Refund(2)}) \in Nat
  BY LinkCountsKnown
<1>2. ASSUME NEW r \in Link!Reports
      PROVE  \/ r.kind = "window" /\ r = Link!Refund(1) /\ r # Link!Refund(2) /\ r.size = 1
             \/ r.kind = "window" /\ r = Link!Refund(2) /\ r # Link!Refund(1) /\ r.size = 2
             \/ r.kind # "window" /\ r # Link!Refund(1) /\ r # Link!Refund(2)
  <2>1. CASE r \in [kind : {"window"}, size : {1, 2}]
    <3>1. PICK n \in {1, 2} : r = [kind |-> "window", size |-> n]
      BY <2>1
    <3>2. Link!Refund(n).size = n
      BY DEF Link!Refund
    <3> QED
      BY <3>1, <3>2 DEF Link!Refund
  <2>2. CASE r \in [kind : {"report", "hello"}, state : Link!State]
    BY <2>2 DEF Link!Refund
  <2> QED
    BY <2>1, <2>2 DEF Link!Reports
<1>3. ASSUME NEW r \in Link!Reports
      PROVE  Link!RefundOf(Append(s, r)) = Link!RefundOf(s) + (IF r.kind = "window" THEN r.size ELSE 0)
  BY <1>1, <1>2, LinkCountGrows DEF Link!RefundOf
<1>4. ASSUME s # <<>>
      PROVE  Link!RefundOf(s) = Link!RefundOf(Tail(s))
                             + (IF Head(s).kind = "window" THEN Head(s).size ELSE 0)
  <2>1. Tail(s) \in Seq(Link!Reports) /\ Head(s) \in Link!Reports
    BY <1>4
  <2>2. Link!Count(Tail(s), {Link!Refund(1)}) \in Nat /\ Link!Count(Tail(s), {Link!Refund(2)}) \in Nat
    BY <2>1, LinkCountsKnown
  <2>3. \A V : /\ Head(s) \in V => Link!Count(s, V) = Link!Count(Tail(s), V) + 1
               /\ Head(s) \notin V => Link!Count(s, V) = Link!Count(Tail(s), V)
    BY <1>4, LinkCountShrinks
  <2>4. \E r \in Link!Reports : r = Head(s)
    BY <2>1
  <2> HIDE DEF Link!Reports
  <2>5. /\ Link!Count(s, {Link!Refund(1)}) = Link!Count(Tail(s), {Link!Refund(1)})
                                     + (IF Head(s) = Link!Refund(1) THEN 1 ELSE 0)
        /\ Link!Count(s, {Link!Refund(2)}) = Link!Count(Tail(s), {Link!Refund(2)})
                                     + (IF Head(s) = Link!Refund(2) THEN 1 ELSE 0)
    BY <2>2, <2>3
  <2>6. 2 * (IF Head(s) = Link!Refund(2) THEN 1 ELSE 0) + (IF Head(s) = Link!Refund(1) THEN 1 ELSE 0)
          = (IF Head(s).kind = "window" THEN Head(s).size ELSE 0)
    BY <1>2, <2>1
  <2> QED
    BY <2>2, <2>5, <2>6 DEF Link!RefundOf
<1>5. Link!RefundOf(s) \in Nat
  BY <1>1 DEF Link!RefundOf
<1> QED
  BY <1>3, <1>4, <1>5

LEMMA LinkNothingQueued == Link!CostOf(<<>>) = 0 /\ Link!RefundOf(<<>>) = 0
  BY LinkCountsNothing DEF Link!CostOf, Link!RefundOf

\* The steps of the state thread that write nothing.
LEMMA LinkTypedWhileTheThreadGoesOn ==
    ASSUME Link!LinkAssumption, Link!Typed,
           \/ Link!PassiveHit \/ Link!PassiveMiss \/ Link!ElicitsAgain \/ Link!Heard \/ Link!ConnectFails
           \/ Link!Applied("confirming", "ready") \/ Link!Applied("applying", "ready")
           \/ Link!AwaitTimesOut \/ Link!CloseGoesOn \/ Link!CloseEnds
           \/ (c2 \in {"eliciting", "restoring"} /\ Link!Starves("failed"))
    PROVE  Link!Typed'
<1> USE DEF Link!Typed, Link!TypeOK
<1>1. CASE Link!PassiveHit \/ Link!Heard
  BY <1>1 DEF Link!PassiveHit, Link!Heard, Link!State
<1>2. CASE Link!PassiveMiss \/ Link!ElicitsAgain \/ Link!ConnectFails
  BY <1>2 DEF Link!PassiveMiss, Link!ElicitsAgain, Link!ConnectFails
<1>3. CASE Link!Applied("confirming", "ready") \/ Link!Applied("applying", "ready") \/ Link!AwaitTimesOut
  BY <1>3 DEF Link!Applied, Link!AwaitTimesOut
<1>4. CASE Link!CloseGoesOn
  BY <1>4 DEF Link!CloseGoesOn
<1>5. CASE Link!CloseEnds
  BY <1>5 DEF Link!CloseEnds
<1>6. CASE c2 \in {"eliciting", "restoring"} /\ Link!Starves("failed")
  BY <1>6 DEF Link!Starves
<1> QED
  BY <1>1, <1>2, <1>3, <1>4, <1>5, <1>6

\* The steps that pay for a frame.
LEMMA LinkTypedWhenAFrameIsPaid ==
    ASSUME Link!LinkAssumption, Link!Typed,
           \/ Link!Elicits \/ Link!Restores \/ (\E ptt \in BOOLEAN : Link!Requests(ptt)) \/ Link!CloseBegins
           \/ Link!SendsAudio
    PROVE  Link!Typed'
<1> USE DEF Link!Typed, Link!TypeOK
<1>1. ASSUME NEW ptt \in BOOLEAN, NEW tuned \in BOOLEAN, Link!SendsState(ptt, tuned)
      PROVE  /\ c1' \in [credits : Int, window : Nat, sequence : 0 .. LinkMaxSequence,
                           applied : 0 .. LinkMaxSequence, state : Link!State, known : BOOLEAN,
                           closed : BOOLEAN]
             /\ c1'.window = c1.window
             /\ c3' \in 0 .. LinkMaxSequence
             /\ c4' \in [Link!Threads -> Link!Frames \cup {Link!NoFrame}]
             /\ c4'["state"] \in Link!States
             /\ c4'["audio"] = c4["audio"]
  <2>1. Link!Desired(c1.sequence + 1, ptt, tuned) \in Link!States
    BY <1>1 DEF Link!SendsState, Link!Desired, Link!States, Link!LinkAssumption
  <2>2. Link!Desired(c1.sequence + 1, ptt, tuned).seq = c1.sequence + 1
    BY DEF Link!Desired
  <2>3. Link!Cost(Link!Desired(c1.sequence + 1, ptt, tuned)) = 2
    BY DEF Link!Desired, Link!Cost
  <2> HIDE DEF Link!Typed
  <2>4. c1' = [c1 EXCEPT !.sequence = c1.sequence + 1, !.credits = c1.credits - 2]
    BY <1>1, <2>3 DEF Link!SendsState
  <2>5. c1.sequence + 1 \in 0 .. LinkMaxSequence /\ c1.credits - 2 \in Int
    BY SMTT(30), <1>1 DEF Link!SendsState, Link!LinkAssumption, Link!Typed
  <2> QED
    BY <1>1, <2>1, <2>2, <2>4, <2>5 DEF Link!SendsState, Link!Spend, Link!Frames, Link!Threads, Link!Typed
<1>2. CASE Link!Elicits \/ Link!Restores
  BY <1>1, <1>2 DEF Link!Elicits, Link!Restores
<1>3. CASE Link!CloseBegins \/ \E ptt \in BOOLEAN : Link!Requests(ptt)
  BY <1>1, <1>3 DEF Link!CloseBegins, Link!Requests
<1>4. CASE Link!SendsAudio
  <2>1. Link!Cost(Link!Audio) = 1 /\ Link!Audio \in Link!Frames
    BY DEF Link!Audio, Link!Cost, Link!Frames
  <2> HIDE DEF Link!Typed
  <2>2. /\ c1' = [c1 EXCEPT !.credits = c1.credits - 1]
        /\ c4' = [c4 EXCEPT !["audio"] = Link!Audio]
        /\ UNCHANGED <<c2, c3, c5, c6, c7, c8>>
    BY <1>4, <2>1 DEF Link!SendsAudio, Link!Spend
  <2>3. /\ c1' \in [credits : Int, window : Nat, sequence : 0 .. LinkMaxSequence,
                      applied : 0 .. LinkMaxSequence, state : Link!State, known : BOOLEAN,
                      closed : BOOLEAN]
        /\ c1'.window = c1.window
    <3>1. c1.credits - 1 \in Int
      BY DEF Link!Typed
    <3> QED
      BY <2>2, <3>1 DEF Link!Typed
  <2>4. /\ c4' \in [Link!Threads -> Link!Frames \cup {Link!NoFrame}]
        /\ c4'["state"] = c4["state"] /\ c4'["audio"] = Link!Audio
    BY <2>1, <2>2 DEF Link!Typed, Link!Threads
  <2> QED
    BY <2>2, <2>3, <2>4 DEF Link!Typed
<1> QED
  BY <1>2, <1>3, <1>4

\* Writes, reports and the device.
LEMMA LinkTypedOnTheWire ==
    ASSUME Link!LinkAssumption, Link!Typed,
           \/ \E t \in Link!Threads : Link!Writes(t) \/ Link!WriteRaises(t)
           \/ Link!Dispatches \/ Link!DeviceTakes \/ Link!DeviceReports \/ Link!DeviceBoots \/ Link!DeviceResets
    PROVE  Link!Typed'
<1> USE DEF Link!Typed, Link!TypeOK
<1>1. ASSUME NEW t \in Link!Threads, c4[t] # Link!NoFrame
      PROVE  c4[t] \in Link!Frames /\ Link!Cost(c4[t]) \in Nat
  BY <1>1 DEF Link!Threads, Link!Frames, Link!Cost
<1>2. ASSUME NEW t \in Link!Threads, Link!Writes(t)
      PROVE  Link!Typed'
  <2>1. c4[t] \in Link!Frames /\ Link!Cost(c4[t]) \in Nat
    BY <1>1, <1>2 DEF Link!Writes
  <2>2. c5' \in Seq(Link!Frames) /\ c8' \in Nat
    <3>1. Append(c5, c4[t]) \in Seq(Link!Frames)
      BY <2>1
    <3>2. c8 + Link!Cost(c4[t]) \in Nat
      BY <2>1
    <3> QED
      BY <1>2, <3>1, <3>2 DEF Link!Writes
  <2>3. /\ c4' \in [Link!Threads -> Link!Frames \cup {Link!NoFrame}]
        /\ c4'["state"] \in {c4["state"], Link!NoFrame}
        /\ c4'["audio"] \in {c4["audio"], Link!NoFrame}
    BY <1>2 DEF Link!Writes, Link!Threads
  <2> QED
    BY <1>2, <2>2, <2>3 DEF Link!Writes
<1>3. ASSUME NEW t \in Link!Threads, Link!WriteRaises(t)
      PROVE  Link!Typed'
  BY <1>1, <1>3 DEF Link!WriteRaises, Link!Threads
<1>4. CASE Link!Dispatches
  <2>1. Head(c6) \in Link!Reports /\ Tail(c6) \in Seq(Link!Reports)
    BY <1>4 DEF Link!Dispatches
  <2>2. CASE Head(c6).kind = "window"
    <3>1. Head(c6).size \in {1, 2}
      BY <2>1, <2>2 DEF Link!Reports
    <3> HIDE DEF Link!Typed
    <3>2. /\ c1' = [c1 EXCEPT !.credits = c1.credits + Head(c6).size]
          /\ c6' = Tail(c6) /\ UNCHANGED <<c2, c3, c4, c5, c7, c8>>
      BY <1>4, <2>2 DEF Link!Dispatches
    <3>3. PICK n \in {1, 2} : n = Head(c6).size
      BY <3>1
    <3>4. c1.credits + n \in Int
      BY DEF Link!Typed
    <3>5. /\ c1' \in [credits : Int, window : Nat, sequence : 0 .. LinkMaxSequence,
                        applied : 0 .. LinkMaxSequence, state : Link!State, known : BOOLEAN,
                        closed : BOOLEAN]
          /\ c1'.window = c1.window
      BY <3>2, <3>3, <3>4 DEF Link!Typed
    <3> QED
      BY <2>1, <3>2, <3>5 DEF Link!Typed
  <2>3. CASE Head(c6).kind # "window"
    <3>1. Head(c6).state \in Link!State /\ Head(c6).kind \in {"report", "hello"}
      BY <2>1, <2>3 DEF Link!Reports
    <3>2. Head(c6).state.applied \in 0 .. LinkMaxSequence
      BY <3>1 DEF Link!State
    <3>3. \/ c1' = Link!Learn(c1, Head(c6).state)
          \/ c1' = Link!Learn([c1 EXCEPT !.credits = @ + LinkHelloWindow - c1.window,
                                        !.window = LinkHelloWindow], Head(c6).state)
      BY <1>4, <3>1 DEF Link!Dispatches
    <3>4. c1' \in [credits : Int, window : Nat, sequence : 0 .. LinkMaxSequence,
                     applied : 0 .. LinkMaxSequence, state : Link!State, known : BOOLEAN,
                     closed : BOOLEAN]
      <4>1. CASE c1' = Link!Learn(c1, Head(c6).state)
        BY <3>1, <3>2, <4>1 DEF Link!Learn
      <4>2. CASE c1' = Link!Learn([c1 EXCEPT !.credits = @ + LinkHelloWindow - c1.window,
                                            !.window = LinkHelloWindow], Head(c6).state)
        <5>1. c1.credits + LinkHelloWindow - c1.window \in Int /\ LinkHelloWindow \in Nat
          BY DEF Link!LinkAssumption
        <5> QED
          BY <3>1, <3>2, <4>2, <5>1 DEF Link!Learn
      <4> QED
        BY <3>3, <4>1, <4>2
    <3>5. c1'.window \in {c1.window, LinkHelloWindow}
      BY <3>3 DEF Link!Learn
    <3> QED
      BY <1>4, <2>1, <3>4, <3>5 DEF Link!Dispatches
  <2> QED
    BY <2>2, <2>3
<1>5. ASSUME NEW d, d \in [up : BOOLEAN, applied : 0 .. LinkMaxSequence, ptt : BOOLEAN,
                           reports : BOOLEAN, tuned : BOOLEAN, fault : LinkFaults]
      PROVE  Link!Report(d) \in Link!Reports /\ Link!Hello(d) \in Link!Reports
  BY <1>5 DEF Link!Report, Link!Hello, Link!Reports, Link!Snapshot, Link!State
<1>6. CASE Link!DeviceTakes
  <2>1. Head(c5) \in Link!Frames /\ Tail(c5) \in Seq(Link!Frames)
    BY <1>6 DEF Link!DeviceTakes
  <2>2. Link!Refund(1) \in Link!Reports /\ Link!Refund(2) \in Link!Reports
    BY DEF Link!Refund, Link!Reports
  <2>3. CASE Head(c5).kind = "audio"
    <3>1. Append(c6, Link!Refund(1)) \in Seq(Link!Reports)
      BY <2>2
    <3> QED
      BY <1>6, <2>1, <2>3, <3>1 DEF Link!DeviceTakes
  <2>4. CASE Head(c5).kind # "audio"
    <3>1. Head(c5) \in Link!States
      BY <2>1, <2>4 DEF Link!Frames, Link!Audio
    <3>2. /\ Head(c5).seq \in 0 .. LinkMaxSequence
          /\ Head(c5).ptt \in BOOLEAN /\ Head(c5).tuned \in BOOLEAN
      BY <3>1 DEF Link!States
    <3>3. c7' = [c7 EXCEPT !.applied = Head(c5).seq, !.ptt = Head(c5).ptt,
                             !.reports = TRUE, !.tuned = Head(c5).tuned]
      BY <1>6, <2>4 DEF Link!DeviceTakes
    <3>4. c7' \in [up : BOOLEAN, applied : 0 .. LinkMaxSequence, ptt : BOOLEAN,
                    reports : BOOLEAN, tuned : BOOLEAN, fault : LinkFaults]
      BY <3>2, <3>3
    <3>5. Link!Report(c7') \in Link!Reports
      BY <1>5, <3>4
    <3>6. c6' \in Seq(Link!Reports)
      <4>1. Append(c6, Link!Refund(2)) \in Seq(Link!Reports)
        BY <2>2
      <4>2. Append(Append(c6, Link!Refund(2)), Link!Report(c7')) \in Seq(Link!Reports)
        BY <3>5, <4>1
      <4> QED
        BY <1>6, <2>4, <4>2 DEF Link!DeviceTakes
    <3> QED
      BY <1>6, <2>1, <3>4, <3>6 DEF Link!DeviceTakes
  <2> QED
    BY <2>3, <2>4
<1>7. CASE Link!DeviceReports
  BY <1>5, <1>7 DEF Link!DeviceReports
<1>8. CASE Link!DeviceBoots
  <2>1. c7' \in [up : BOOLEAN, applied : 0 .. LinkMaxSequence, ptt : BOOLEAN,
                  reports : BOOLEAN, tuned : BOOLEAN, fault : LinkFaults]
    BY <1>8 DEF Link!DeviceBoots
  <2>2. Link!Hello(c7') \in Link!Reports
    BY <1>5, <2>1
  <2> QED
    BY <1>8, <2>1, <2>2 DEF Link!DeviceBoots
<1>9. CASE Link!DeviceResets
  <2>1. Link!CostOf(c5) \in Nat
    BY LinkCosts
  <2>2. c8' \in Nat /\ c5' \in Seq(Link!Frames)
    BY <1>9, <2>1 DEF Link!DeviceResets
  <2>3. PICK zero \in 0 .. LinkMaxSequence : zero = 0
    BY DEF Link!LinkAssumption
  <2>4. c7' = [up |-> FALSE, applied |-> zero, ptt |-> FALSE, reports |-> FALSE,
                tuned |-> c7.tuned, fault |-> c7.fault]
    BY <1>9, <2>3 DEF Link!DeviceResets, Link!Silent, Link!Device
  <2>5. c7' \in [up : BOOLEAN, applied : 0 .. LinkMaxSequence, ptt : BOOLEAN,
                  reports : BOOLEAN, tuned : BOOLEAN, fault : LinkFaults]
    BY <2>4
  <2> QED
    BY <1>9, <2>2, <2>5 DEF Link!DeviceResets
<1> QED
  BY <1>2, <1>3, <1>4, <1>6, <1>7, <1>8, <1>9

\* The credits, step by step.
LEMMA LinkCreditsOfTheThreads ==
    ASSUME Link!LinkAssumption, Link!Typed, Link!Awake, Link!CreditsAccounted, Link!Powered,
           \/ Link!StateThread \/ Link!SendsAudio
           \/ \E t \in Link!Threads : Link!Writes(t) \/ Link!WriteRaises(t)
    PROVE  Link!CreditsAccounted' /\ Link!Powered'
<1> USE DEF Link!CreditsAccounted
<1>0. /\ c1.credits \in Int /\ c1.window \in Nat /\ c8 \in Nat
      /\ Link!CostOf(c5) \in Nat /\ Link!RefundOf(c6) \in Nat
  BY LinkCosts, LinkRefunds DEF Link!Typed, Link!TypeOK
<1>1. Link!Paid(Link!NoFrame) = 0
  BY DEF Link!Paid
<1>2. \A f \in Link!Frames : Link!Paid(f) = Link!Cost(f) /\ Link!Cost(f) \in {1, 2}
  BY LinkFramesCost DEF Link!Paid
<1>3. CASE \/ Link!PassiveHit \/ Link!PassiveMiss \/ Link!ElicitsAgain \/ Link!Heard \/ Link!ConnectFails
           \/ Link!Applied("confirming", "ready") \/ Link!Applied("applying", "ready")
           \/ Link!AwaitTimesOut \/ Link!CloseGoesOn \/ Link!CloseEnds
           \/ (c2 \in {"eliciting", "restoring"} /\ Link!Starves("failed"))
  <2>1. /\ c1'.credits = c1.credits /\ c1'.window = c1.window
        /\ UNCHANGED <<c4, c5, c6, c7, c8>>
    BY <1>3 DEF Link!PassiveHit, Link!PassiveMiss, Link!ElicitsAgain, Link!Heard, Link!ConnectFails, Link!Applied,
                Link!AwaitTimesOut, Link!CloseGoesOn, Link!CloseEnds, Link!Starves, Link!Typed, Link!TypeOK
  <2> QED
    BY <2>1 DEF Link!Powered
<1>4. CASE \/ Link!Elicits \/ Link!Restores \/ (\E ptt \in BOOLEAN : Link!Requests(ptt)) \/ Link!CloseBegins
  <2>1. PICK ptt \in BOOLEAN, tuned \in BOOLEAN : Link!SendsState(ptt, tuned)
    BY <1>4 DEF Link!Elicits, Link!Restores, Link!Requests, Link!CloseBegins
  <2>2. UNCHANGED <<c5, c6, c7, c8>>
    BY <1>4 DEF Link!Elicits, Link!Restores, Link!Requests, Link!CloseBegins
  <2>3. /\ Link!Cost(Link!Desired(c1.sequence + 1, ptt, tuned)) = 2
        /\ Link!Desired(c1.sequence + 1, ptt, tuned) # Link!NoFrame
    BY DEF Link!Desired, Link!Cost, Link!NoFrame
  <2>4. /\ c1'.credits = c1.credits - 2 /\ c1'.window = c1.window
        /\ c1.credits >= 2 /\ c4["state"] = Link!NoFrame
        /\ c4'["state"] = Link!Desired(c1.sequence + 1, ptt, tuned)
        /\ c4'["audio"] = c4["audio"]
    BY <2>1, <2>3 DEF Link!SendsState, Link!Spend, Link!Typed, Link!TypeOK, Link!Threads
  <2>5. Link!Paid(c4'["state"]) = 2
    BY <2>3, <2>4 DEF Link!Paid
  <2>6. Link!Paid(c4["audio"]) \in Nat
    BY <1>1, <1>2 DEF Link!Typed, Link!Frames
  <2>7. Link!CreditsAccounted'
    BY <1>0, <1>1, <2>2, <2>4, <2>5, <2>6
  <2>8. Link!Powered'
    BY <2>2, <2>4 DEF Link!Powered
  <2> QED
    BY <2>7, <2>8
<1>5. CASE Link!SendsAudio
  <2>1. /\ c1'.credits = c1.credits - 1 /\ c1'.window = c1.window
        /\ c1.credits >= 1 /\ c4["audio"] = Link!NoFrame
        /\ c4'["audio"] = Link!Audio /\ c4'["state"] = c4["state"]
        /\ UNCHANGED <<c5, c6, c7, c8>>
    BY <1>5 DEF Link!SendsAudio, Link!Spend, Link!Typed, Link!TypeOK, Link!Threads, Link!Audio, Link!Cost
  <2>2. Link!Paid(Link!Audio) = 1
    BY DEF Link!Paid, Link!Audio, Link!NoFrame, Link!Cost
  <2>3. Link!Paid(c4["state"]) \in Nat
    BY <1>1, <1>2 DEF Link!Typed, Link!Frames
  <2>4. Link!CreditsAccounted'
    BY <1>0, <1>1, <2>1, <2>2, <2>3
  <2>5. Link!Powered'
    BY <2>1 DEF Link!Powered
  <2> QED
    BY <2>4, <2>5
<1>6. ASSUME NEW t \in Link!Threads, Link!Writes(t) \/ Link!WriteRaises(t)
      PROVE  Link!CreditsAccounted' /\ Link!Powered'
  <2>1. /\ c4[t] \in Link!Frames /\ Link!Paid(c4[t]) = Link!Cost(c4[t]) /\ Link!Cost(c4[t]) \in {1, 2}
        /\ Link!Paid(c4["state"]) \in Nat /\ Link!Paid(c4["audio"]) \in Nat
    BY <1>1, <1>2, <1>6 DEF Link!Writes, Link!WriteRaises, Link!Typed, Link!Frames, Link!Threads
  <2>2. /\ Link!Paid(c4'["state"]) + Link!Paid(c4'["audio"])
             = Link!Paid(c4["state"]) + Link!Paid(c4["audio"]) - Link!Cost(c4[t])
        /\ Link!Paid(c4'["state"]) \in Nat /\ Link!Paid(c4'["audio"]) \in Nat
    <3>1. c4' = [c4 EXCEPT ![t] = Link!NoFrame]
      BY <1>6 DEF Link!Writes, Link!WriteRaises
    <3>2. CASE t = "state"
      BY <1>1, <2>1, <3>1, <3>2 DEF Link!Typed, Link!TypeOK, Link!Threads
    <3>3. CASE t = "audio"
      BY <1>1, <2>1, <3>1, <3>3 DEF Link!Typed, Link!TypeOK, Link!Threads
    <3> QED
      BY <3>2, <3>3 DEF Link!Threads
  <2>3. UNCHANGED <<c1, c6, c7>>
    BY <1>6 DEF Link!Writes, Link!WriteRaises
  <2>4. CASE Link!CostOf(c5') = Link!CostOf(c5) + Link!Cost(c4[t]) /\ c8' = c8
    BY <1>0, <2>1, <2>2, <2>3, <2>4 DEF Link!Powered
  <2>5. CASE /\ c5' = c5 /\ c8' = c8 + Link!Cost(c4[t])
             /\ ~c7.up \/ c7.fault = "write_fails"
    <3>1. Link!CreditsAccounted'
      BY <1>0, <2>1, <2>2, <2>3, <2>5
    <3>2. Link!Powered'
      BY <2>3, <2>5 DEF Link!Powered, Link!Awake
    <3> QED
      BY <3>1, <3>2
  <2> QED
    BY <1>6, <2>1, <2>4, <2>5, LinkCosts DEF Link!Writes, Link!WriteRaises, Link!Typed, Link!TypeOK
<1> QED
  BY <1>3, <1>4, <1>5, <1>6 DEF Link!StateThread

LEMMA LinkCreditsOfTheDevice ==
    ASSUME Link!LinkAssumption, LinkWindow <= LinkHelloWindow, Link!Typed, Link!Awake, Link!CreditsAccounted, Link!Powered,
           Link!Dispatches \/ Link!DeviceTakes \/ Link!DeviceReports \/ Link!DeviceBoots \/ Link!DeviceResets
    PROVE  Link!CreditsAccounted' /\ Link!Powered'
<1> USE DEF Link!CreditsAccounted
<1>0. /\ c1.credits \in Int /\ c1.window \in Nat /\ c8 \in Nat
      /\ Link!CostOf(c5) \in Nat /\ Link!RefundOf(c6) \in Nat
  BY LinkCosts, LinkRefunds DEF Link!Typed, Link!TypeOK
<1>7. c6 \in Seq(Link!Reports) /\ c5 \in Seq(Link!Frames)
  BY DEF Link!Typed, Link!TypeOK
<1>1. Link!Paid(c4["state"]) \in Nat /\ Link!Paid(c4["audio"]) \in Nat
  BY LinkFramesCost DEF Link!Paid, Link!Typed, Link!Frames
<1>2. \A d : Link!Report(d).kind # "window" /\ Link!Hello(d).kind # "window"
  BY DEF Link!Report, Link!Hello
<1>3. CASE Link!Dispatches
  <2>1. UNCHANGED <<c4, c5, c7, c8>>
    BY <1>3 DEF Link!Dispatches
  <2>5. Head(c6) \in Link!Reports /\ Tail(c6) \in Seq(Link!Reports) /\ c6' = Tail(c6)
    BY <1>3, <1>7 DEF Link!Dispatches
  <2>2. /\ Link!RefundOf(c6) = Link!RefundOf(c6') + (IF Head(c6).kind = "window" THEN Head(c6).size ELSE 0)
        /\ Link!RefundOf(c6') \in Nat
    BY <1>3, <1>7, <2>5, LinkRefunds DEF Link!Dispatches
  <2>3. CASE Head(c6).kind = "window"
    <3>1. Head(c6).size \in {1, 2}
      BY <2>3, <2>5 DEF Link!Reports
    <3>2. /\ c1'.credits = c1.credits + Head(c6).size
          /\ c1'.window = c1.window
      BY <1>3, <2>3 DEF Link!Dispatches, Link!Typed, Link!TypeOK
    <3>3. Link!CreditsAccounted'
      BY <1>0, <1>1, <2>1, <2>2, <2>3, <3>1, <3>2
    <3>4. Link!Powered'
      BY <2>1, <3>2 DEF Link!Powered
    <3> QED
      BY <3>3, <3>4
  <2>4. CASE Head(c6).kind # "window"
    <3>1. \/ c1'.credits = c1.credits /\ c1'.window = c1.window
          \/ /\ c1'.credits = c1.credits + LinkHelloWindow - c1.window
             /\ c1'.window = LinkHelloWindow
      <4>1. \/ c1' = Link!Learn(c1, Head(c6).state)
            \/ c1' = Link!Learn([c1 EXCEPT !.credits = @ + LinkHelloWindow - c1.window,
                                          !.window = LinkHelloWindow], Head(c6).state)
        BY <1>3, <2>4, <2>5 DEF Link!Dispatches, Link!Reports
      <4> QED
        BY <4>1 DEF Link!Learn, Link!Typed, Link!TypeOK
    <3>2. c1.window <= LinkHelloWindow /\ LinkHelloWindow \in Nat
      BY DEF Link!Typed, Link!LinkAssumption
    <3>3. Link!CreditsAccounted'
      BY <1>0, <1>1, <2>1, <2>2, <2>4, <3>1, <3>2
    <3>4. Link!Powered'
      BY <1>0, <2>1, <3>1, <3>2 DEF Link!Powered
    <3> QED
      BY <3>3, <3>4
  <2> QED
    BY <2>3, <2>4
<1>4. CASE Link!DeviceTakes
  <2>1. UNCHANGED <<c1, c4, c8>>
    BY <1>4 DEF Link!DeviceTakes
  <2>6. Head(c5) \in Link!Frames /\ Tail(c5) \in Seq(Link!Frames) /\ c5' = Tail(c5)
    BY <1>4, <1>7 DEF Link!DeviceTakes
  <2>2. Link!CostOf(c5) = Link!CostOf(c5') + Link!Cost(Head(c5)) /\ Link!CostOf(c5') \in Nat
    BY <1>4, <1>7, <2>6, LinkCosts DEF Link!DeviceTakes
  <2>3. /\ Link!RefundOf(Append(c6, Link!Refund(1))) = Link!RefundOf(c6) + 1
        /\ Link!RefundOf(Append(c6, Link!Refund(2))) = Link!RefundOf(c6) + 2
    BY <1>7, LinkRefunds DEF Link!Refund, Link!Reports
  <2>4. CASE Head(c5).kind = "audio"
    <3>1. Link!RefundOf(c6') = Link!RefundOf(c6) + 1 /\ c7' = c7 /\ Link!Cost(Head(c5)) = 1
      BY <1>4, <2>3, <2>4 DEF Link!DeviceTakes, Link!Cost
    <3>2. Link!CreditsAccounted'
      BY <1>0, <1>1, <2>1, <2>2, <3>1
    <3>3. Link!Powered'
      BY <2>1, <3>1 DEF Link!Powered
    <3> QED
      BY <3>2, <3>3
  <2>5. CASE Head(c5).kind # "audio"
    <3>1. Link!Cost(Head(c5)) = 2
      BY <2>5, <2>6 DEF Link!Cost, Link!Frames, Link!Audio, Link!States
    <3>2. c6' = Append(Append(c6, Link!Refund(2)), Link!Report(c7'))
      BY <1>4, <2>5 DEF Link!DeviceTakes
    <3>3. Append(c6, Link!Refund(2)) \in Seq(Link!Reports) /\ Link!Report(c7') \in Link!Reports
      <4>1. Head(c5) \in Link!States
        BY <2>5, <2>6 DEF Link!Frames, Link!Audio
      <4>2. Head(c5).seq \in 0 .. LinkMaxSequence /\ Head(c5).ptt \in BOOLEAN
        BY <4>1 DEF Link!States
      <4>3. c7' = [c7 EXCEPT !.applied = Head(c5).seq, !.ptt = Head(c5).ptt,
                               !.reports = TRUE, !.tuned = Head(c5).tuned]
        BY <1>4, <2>5 DEF Link!DeviceTakes
      <4>4. /\ c7'.applied \in 0 .. LinkMaxSequence /\ c7'.ptt \in BOOLEAN
            /\ c7'.reports \in BOOLEAN
        BY <4>2, <4>3 DEF Link!Typed, Link!TypeOK
      <4>5. Link!Report(c7') \in Link!Reports
        BY <4>4 DEF Link!Report, Link!Reports, Link!Snapshot, Link!State
      <4>6. Link!Refund(2) \in Link!Reports
        BY DEF Link!Refund, Link!Reports
      <4> QED
        BY <1>7, <4>5, <4>6
    <3>4. Link!RefundOf(c6') = Link!RefundOf(c6) + 2
      <4>1. Link!RefundOf(c6') = Link!RefundOf(Append(c6, Link!Refund(2))) + 0
        BY <1>2, <3>2, <3>3, LinkRefunds
      <4> QED
        BY <1>0, <2>3, <4>1
    <3>5. Link!CreditsAccounted'
      BY <1>0, <1>1, <2>1, <2>2, <3>1, <3>4
    <3>6. c1.window - c8 >= 2
      BY <1>0, <1>1, <2>2, <3>1
    <3>7. Link!Powered'
      BY <2>1, <3>6 DEF Link!Powered
    <3> QED
      BY <3>5, <3>7
  <2> QED
    BY <2>4, <2>5
<1>5. CASE Link!DeviceReports \/ Link!DeviceBoots
  <2>1. PICK d : c6' = Append(c6, Link!Report(d)) \/ c6' = Append(c6, Link!Hello(d))
    BY <1>5 DEF Link!DeviceReports, Link!DeviceBoots
  <2>2. /\ UNCHANGED <<c1, c4, c5, c8>>
        /\ c7'.ptt = c7.ptt /\ c7'.fault = c7.fault
    BY <1>5 DEF Link!DeviceReports, Link!DeviceBoots, Link!Typed, Link!TypeOK
  <2>3. Link!RefundOf(c6') = Link!RefundOf(c6)
    <3>1. PICK r \in Link!Reports : c6' = Append(c6, r) /\ r.kind # "window"
      <4>1. CASE Link!DeviceReports
        <5>1. Link!Report(c7) \in Link!Reports
          BY DEF Link!Report, Link!Reports, Link!Snapshot, Link!State, Link!Typed, Link!TypeOK
        <5> QED
          BY <1>2, <4>1, <5>1 DEF Link!DeviceReports
      <4>2. CASE Link!DeviceBoots
        <5>1. Link!Hello(c7') \in Link!Reports
          BY <4>2 DEF Link!DeviceBoots, Link!Hello, Link!Reports, Link!Snapshot, Link!State, Link!Typed, Link!TypeOK
        <5> QED
          BY <1>2, <4>2, <5>1 DEF Link!DeviceBoots
      <4> QED
        BY <1>5, <4>1, <4>2
    <3> QED
      BY <1>7, <3>1, LinkRefunds
  <2>4. Link!CreditsAccounted'
    BY <1>0, <1>1, <2>2, <2>3
  <2>5. Link!Powered'
    BY <2>2 DEF Link!Powered
  <2> QED
    BY <2>4, <2>5
<1>6. CASE Link!DeviceResets
  <2>1. /\ c5' = <<>> /\ c8' = c8 + Link!CostOf(c5) /\ UNCHANGED <<c1, c4, c6>>
        /\ ~c7'.ptt
    BY <1>6 DEF Link!DeviceResets, Link!Silent, Link!Device
  <2>2. Link!CreditsAccounted'
    BY <1>0, <1>1, <2>1, LinkNothingQueued
  <2>3. Link!Powered'
    BY <2>1 DEF Link!Powered
  <2> QED
    BY <2>2, <2>3
<1> QED
  BY <1>3, <1>4, <1>5, <1>6

\* What the host knows of the device it heard while the device was up.
LEMMA LinkStaysAwake ==
    ASSUME Link!LinkAssumption, Link!Typed, Link!Awake, Link!Next
    PROVE  Link!Awake'
<1> USE DEF Link!Awake
<1>1. CASE Link!StateThread \/ Link!SendsAudio
  <2>1. /\ c1'.known = c1.known /\ UNCHANGED <<c5, c6, c7>>
        /\ (c2 \in {"passive", "listening"} /\ c2' \in {"ready", "restoring"}) => c1.known
        /\ c2' \in {"restoring", "confirming", "ready", "applying", "closing"}
             => \/ c2 \in {"restoring", "confirming", "ready", "applying", "closing"}
                \/ c1.known
    BY <1>1 DEF Link!StateThread, Link!SendsAudio, Link!PassiveHit, Link!PassiveMiss, Link!Elicits, Link!ElicitsAgain, Link!Heard,
                Link!Restores, Link!ConnectFails, Link!Requests, Link!Applied, Link!AwaitTimesOut, Link!CloseBegins,
                Link!CloseGoesOn, Link!CloseEnds, Link!Starves, Link!SendsState, Link!Acknowledged, Link!Typed, Link!TypeOK
  <2> QED
    BY <2>1
<1>2. ASSUME NEW t \in Link!Threads, Link!Writes(t) \/ Link!WriteRaises(t)
      PROVE  Link!Awake'
  <2>1. UNCHANGED <<c1, c6, c7>> /\ (c7.up \/ c5' = c5)
    BY <1>2 DEF Link!Writes, Link!WriteRaises
  <2>2. c2' = c2 \/ (c2' = "ready" /\ c2 = "applying") \/ c2' \in {"stopping", "failed"}
    BY <1>2 DEF Link!Writes, Link!WriteRaises
  <2> QED
    BY <2>1, <2>2
<1>3. CASE Link!Dispatches
  <2>1. c6' = Tail(c6) /\ c6 # <<>> /\ c6 \in Seq(Link!Reports) /\ UNCHANGED <<c2, c5, c7>>
    BY <1>3 DEF Link!Dispatches, Link!Typed, Link!TypeOK
  <2>2. (\E i \in 1 .. Len(c6') : c6'[i].kind # "window")
          => \E i \in 1 .. Len(c6) : c6[i].kind # "window"
    BY <2>1
  <2>3. Head(c6) = c6[1] /\ 1 \in 1 .. Len(c6)
    BY <2>1
  <2>4. c1'.known => c1.known \/ Head(c6).kind # "window"
    BY <1>3 DEF Link!Dispatches, Link!Typed, Link!TypeOK
  <2>5. c1.known => c1'.known
    BY <1>3 DEF Link!Dispatches, Link!Learn, Link!Typed, Link!TypeOK
  <2> QED
    BY <2>1, <2>2, <2>3, <2>4, <2>5
<1>4. CASE Link!DeviceTakes
  <2>1. c7.up /\ c7'.up /\ UNCHANGED <<c1, c2>>
    BY <1>4 DEF Link!DeviceTakes, Link!Typed, Link!TypeOK
  <2> QED
    BY <2>1
<1>5. CASE Link!DeviceReports \/ Link!DeviceBoots
  <2>1. c7'.up /\ UNCHANGED <<c1, c2>>
    BY <1>5 DEF Link!DeviceReports, Link!DeviceBoots, Link!Typed, Link!TypeOK
  <2> QED
    BY <2>1
<1>6. CASE Link!DeviceResets
  <2>1. /\ c5' = <<>> /\ ~c7'.ptt /\ c7'.fault = "resets" /\ UNCHANGED <<c1, c2>>
    BY <1>6 DEF Link!DeviceResets, Link!Silent, Link!Device
  <2> QED
    BY <2>1
<1> QED
  BY <1>1, <1>2, <1>3, <1>4, <1>5, <1>6 DEF Link!Next

\* The last that the device is told, as frames are queued and taken.
LEMMA LinkEndsGrow ==
    ASSUME NEW s \in Seq(Link!Frames), NEW f \in Link!Frames, NEW G, NEW told
    PROVE  /\ f.kind = "state" /\ f \in G => Link!EndsIn(Append(s, f), G, told)
           /\ f.kind # "state" /\ Link!EndsIn(s, G, told) => Link!EndsIn(Append(s, f), G, told)
<1>1. /\ Len(Append(s, f)) = Len(s) + 1 /\ Append(s, f)[Len(s) + 1] = f
      /\ \A i \in 1 .. Len(s) : Append(s, f)[i] = s[i]
  OBVIOUS
<1>2. Len(s) \in Nat
  OBVIOUS
<1> QED
  BY <1>1, <1>2 DEF Link!EndsIn, Link!Latest

LEMMA LinkEndsShrink ==
    ASSUME NEW s \in Seq(Link!Frames), s # <<>>, NEW G, NEW told, Link!EndsIn(s, G, told)
    PROVE  /\ Head(s).kind = "state" => Link!EndsIn(Tail(s), G, Head(s) \in G)
           /\ Head(s).kind # "state" => Link!EndsIn(Tail(s), G, told)
<1>1. /\ Len(Tail(s)) = Len(s) - 1 /\ Head(s) = s[1] /\ Len(s) \in Nat /\ Len(s) > 0
      /\ \A i \in 1 .. Len(Tail(s)) : Tail(s)[i] = s[i + 1]
  OBVIOUS
<1>2. \A i \in 1 .. Len(s) : i # 1 => i - 1 \in 1 .. Len(Tail(s)) /\ Tail(s)[i - 1] = s[i]
  BY <1>1
<1>3. ASSUME NEW i \in 1 .. Len(Tail(s)), Link!Latest(Tail(s), i)
      PROVE  Tail(s)[i] \in G
  <2>1. i + 1 \in 1 .. Len(s) /\ Tail(s)[i] = s[i + 1]
    BY <1>1
  <2>2. ASSUME NEW j \in 1 .. Len(s), j > i + 1
        PROVE  s[j].kind # "state"
    <3>1. j # 1 /\ j - 1 > i /\ j \in Int /\ i \in Int
      BY <2>2
    <3>2. j - 1 \in 1 .. Len(Tail(s)) /\ Tail(s)[j - 1] = s[j]
      BY <1>2, <3>1
    <3> QED
      BY <1>3, <3>1, <3>2 DEF Link!Latest
  <2>3. Link!Latest(s, i + 1)
    BY <1>3, <2>1, <2>2 DEF Link!Latest
  <2> QED
    BY <2>1, <2>3 DEF Link!EndsIn
<1>4. ASSUME \A i \in 1 .. Len(Tail(s)) : Tail(s)[i].kind # "state"
      PROVE  \A i \in 1 .. Len(s) : i # 1 => s[i].kind # "state"
  BY <1>2, <1>4
<1>5. CASE Head(s).kind = "state"
  <2>1. (\A i \in 1 .. Len(Tail(s)) : Tail(s)[i].kind # "state") => Link!Latest(s, 1)
    BY <1>1, <1>4, <1>5 DEF Link!Latest
  <2>2. (\A i \in 1 .. Len(Tail(s)) : Tail(s)[i].kind # "state") => Head(s) \in G
    BY <1>1, <2>1 DEF Link!EndsIn
  <2> QED
    BY <1>3, <1>5, <2>2 DEF Link!EndsIn
<1>6. CASE Head(s).kind # "state"
  <2>1. (\A i \in 1 .. Len(Tail(s)) : Tail(s)[i].kind # "state") => told
    BY <1>1, <1>4, <1>6 DEF Link!EndsIn
  <2> QED
    BY <1>3, <1>6, <2>1 DEF Link!EndsIn
<1> QED
  BY <1>5, <1>6

\* What is queued is written behind what was; a device that is up takes it.
LEMMA LinkWritesAtTheEnd ==
    ASSUME Link!Typed, NEW t \in Link!Threads, Link!Writes(t), c7.up, NEW G, NEW told
    PROVE  /\ t = "audio" /\ Link!EndsIn(c5, G, told) => Link!EndsIn(c5', G, told)
           /\ t = "state" /\ c4["state"] \in G => Link!EndsIn(c5', G, told)
<1>1. c5 \in Seq(Link!Frames) /\ c5' = Append(c5, c4[t]) /\ c4[t] # Link!NoFrame
  BY DEF Link!Writes, Link!Typed, Link!TypeOK
<1>2. CASE t = "audio"
  <2>1. c4[t] = Link!Audio /\ Link!Audio \in Link!Frames /\ Link!Audio.kind # "state"
    BY <1>1, <1>2 DEF Link!Typed, Link!Frames, Link!Audio
  <2> QED
    BY <1>1, <1>2, <2>1, LinkEndsGrow
<1>3. CASE t = "state"
  <2>1. c4[t] \in Link!Frames /\ c4[t].kind = "state"
    BY <1>1, <1>3 DEF Link!Typed, Link!Frames, Link!States
  <2> QED
    BY <1>1, <1>3, <2>1, LinkEndsGrow
<1> QED
  BY <1>2, <1>3 DEF Link!Threads

LEMMA LinkTakesAtTheHead ==
    ASSUME Link!Typed, Link!DeviceTakes, NEW G, NEW told, Link!EndsIn(c5, G, told)
    PROVE  \/ Head(c5).kind # "state" /\ c7' = c7 /\ Link!EndsIn(c5', G, told)
           \/ /\ Head(c5) \in Link!States /\ Link!EndsIn(c5', G, Head(c5) \in G)
              /\ c7'.ptt = Head(c5).ptt /\ c7'.tuned = Head(c5).tuned
              /\ c7'.fault = c7.fault
<1>1. /\ c5 \in Seq(Link!Frames) /\ c5 # <<>> /\ c5' = Tail(c5) /\ Head(c5) \in Link!Frames
  BY DEF Link!DeviceTakes, Link!Typed, Link!TypeOK
<1>2. CASE Head(c5).kind = "audio"
  BY <1>1, <1>2, LinkEndsShrink DEF Link!DeviceTakes
<1>3. CASE Head(c5).kind # "audio"
  <2>1. Head(c5) \in Link!States /\ Head(c5).kind = "state"
    BY <1>1, <1>3 DEF Link!Frames, Link!Audio, Link!States
  <2>2. c7'.ptt = Head(c5).ptt /\ c7'.tuned = Head(c5).tuned /\ c7'.fault = c7.fault
    BY <1>3 DEF Link!DeviceTakes, Link!Typed, Link!TypeOK
  <2> QED
    BY <1>1, <2>1, <2>2, LinkEndsShrink
<1> QED
  BY <1>2, <1>3

\* Connect ends with the tuning restored or about to be.
LEMMA LinkKeepsTheTuning ==
    ASSUME Link!LinkAssumption, Link!Typed, Link!Awake, Link!Retuned, Link!Next
    PROVE  Link!Retuned'
<1>0. c7'.fault = c7.fault
  BY DEF Link!Next, Link!StateThread, Link!SendsAudio, Link!PassiveHit, Link!PassiveMiss, Link!Elicits, Link!ElicitsAgain, Link!Heard,
         Link!Restores, Link!ConnectFails, Link!Requests, Link!Applied, Link!AwaitTimesOut, Link!CloseBegins, Link!CloseGoesOn,
         Link!CloseEnds, Link!Starves, Link!Writes, Link!WriteRaises, Link!Dispatches, Link!DeviceTakes, Link!DeviceReports,
         Link!DeviceBoots, Link!DeviceResets, Link!Silent, Link!Device, Link!Typed, Link!TypeOK
<1> SUFFICES ASSUME c7.fault # "resets"
             PROVE  Link!Retuned'
  BY <1>0 DEF Link!Retuned
<1> USE DEF Link!Retuned
<1>1. CASE \/ Link!PassiveHit \/ Link!PassiveMiss \/ Link!ElicitsAgain \/ Link!Heard \/ Link!ConnectFails
           \/ Link!Applied("confirming", "ready") \/ Link!Applied("applying", "ready")
           \/ Link!AwaitTimesOut \/ Link!CloseGoesOn \/ Link!CloseEnds
           \/ (c2 \in {"eliciting", "restoring"} /\ Link!Starves("failed"))
  <2>1. UNCHANGED <<c4, c5, c7>>
    BY <1>1 DEF Link!PassiveHit, Link!PassiveMiss, Link!ElicitsAgain, Link!Heard, Link!ConnectFails, Link!Applied,
                Link!AwaitTimesOut, Link!CloseGoesOn, Link!CloseEnds, Link!Starves
  <2>2. \/ c2 = "passive" /\ c2' = "ready"
        \/ c2' \in {"eliciting", "restoring", "failed"}
        \/ c2 = "confirming" /\ c2' = "ready" /\ c4["state"] = Link!NoFrame
        \/ c2 \in {"applying", "closing", "ready", "stopping"} /\ c2' \in {"ready", "stopping", "closed"}
    BY <1>1 DEF Link!PassiveHit, Link!PassiveMiss, Link!ElicitsAgain, Link!Heard, Link!ConnectFails, Link!Applied,
                Link!AwaitTimesOut, Link!CloseGoesOn, Link!CloseEnds, Link!Starves
  <2>3. c2 = "passive" => Link!EndsIn(c5, Link!TunedFrames, c7.tuned)
    BY DEF Link!EndsIn, Link!Latest
  <2> QED
    BY <2>1, <2>2, <2>3
<1>2. CASE Link!Elicits
  BY <1>2 DEF Link!Elicits
<1>3. CASE Link!Restores \/ (\E ptt \in BOOLEAN : Link!Requests(ptt)) \/ Link!CloseBegins
  <2>1. PICK ptt \in BOOLEAN : Link!SendsState(ptt, TRUE)
    BY <1>3 DEF Link!Restores, Link!Requests, Link!CloseBegins
  <2>2. /\ UNCHANGED <<c5, c7>>
        /\ \/ c2 = "restoring" /\ c2' = "confirming"
           \/ c2 = "ready" /\ c2' \in {"applying", "closing"}
    BY <1>3 DEF Link!Restores, Link!Requests, Link!CloseBegins
  <2>3. c4'["state"] = Link!Desired(c1.sequence + 1, ptt, TRUE)
    BY <2>1 DEF Link!SendsState, Link!Spend, Link!Typed, Link!TypeOK, Link!Threads
  <2>4. Link!Desired(c1.sequence + 1, ptt, TRUE) \in Link!TunedFrames
    BY <2>1 DEF Link!SendsState, Link!Desired, Link!TunedFrames, Link!States, Link!LinkAssumption, Link!Typed, Link!TypeOK
  <2>5. Link!Desired(c1.sequence + 1, ptt, TRUE) # Link!NoFrame
    BY DEF Link!Desired, Link!NoFrame
  <2> QED
    BY <2>2, <2>3, <2>4, <2>5
<1>4. CASE Link!SendsAudio
  <2>1. c4'["state"] = c4["state"] /\ UNCHANGED <<c2, c5, c7>>
    BY <1>4 DEF Link!SendsAudio, Link!Spend, Link!Typed, Link!TypeOK, Link!Threads
  <2> QED
    BY <2>1
<1>5. ASSUME NEW t \in Link!Threads, Link!Writes(t)
      PROVE  Link!Retuned'
  <2>1. /\ UNCHANGED <<c2, c7>>
        /\ t = "audio" => c4'["state"] = c4["state"]
        /\ t = "state" => c4'["state"] = Link!NoFrame /\ c4["state"] # Link!NoFrame
    BY <1>5 DEF Link!Writes, Link!Typed, Link!TypeOK, Link!Threads
  <2>2. c2 = "passive" => t = "audio"
    BY <2>1 DEF Link!Typed, Link!Threads
  <2>3. CASE ~c7.up
    <3>1. c5' = c5
      BY <1>5, <2>3 DEF Link!Writes
    <3>2. c2 \notin {"restoring", "confirming", "ready", "applying", "closing"}
      BY <2>3 DEF Link!Awake
    <3> QED
      BY <2>1, <3>1, <3>2
  <2>4. CASE c7.up
    <3>1. c2 = "passive" => \A i \in 1 .. Len(c5') : c5'[i].kind # "state"
      <4>1. SUFFICES ASSUME c2 = "passive" PROVE \A i \in 1 .. Len(c5') : c5'[i].kind # "state"
        OBVIOUS
      <4>2. c4["audio"] = Link!Audio /\ c5' = Append(c5, Link!Audio)
        BY <1>5, <2>2, <2>4, <4>1 DEF Link!Writes, Link!Typed
      <4>3. Link!Audio.kind # "state" /\ c5 \in Seq(Link!Frames)
        BY DEF Link!Audio, Link!Typed, Link!TypeOK
      <4> QED
        BY <4>1, <4>2, <4>3
    <3>2. t = "audio" /\ Link!EndsIn(c5, Link!TunedFrames, c7.tuned) => Link!EndsIn(c5', Link!TunedFrames, c7.tuned)
      BY <1>5, <2>4, LinkWritesAtTheEnd
    <3>3. t = "state" /\ c4["state"] \in Link!TunedFrames => Link!EndsIn(c5', Link!TunedFrames, c7.tuned)
      BY <1>5, <2>4, LinkWritesAtTheEnd
    <3>4. c2 \in {"ready", "stopping", "closed"} => t = "audio"
      BY <2>1 DEF Link!Typed, Link!Threads
    <3> QED
      BY <2>1, <3>1, <3>2, <3>3, <3>4 DEF Link!Threads
  <2> QED
    BY <2>3, <2>4
<1>6. ASSUME NEW t \in Link!Threads, Link!WriteRaises(t)
      PROVE  Link!Retuned'
  <2>1. /\ UNCHANGED <<c5, c7>>
        /\ t = "audio" => c4'["state"] = c4["state"] /\ c2' = c2
        /\ t = "state" => /\ c4'["state"] = Link!NoFrame /\ c4["state"] # Link!NoFrame
                          /\ \/ c2 = "applying" /\ c2' = "ready"
                             \/ c2 = "closing" /\ c2' = "stopping"
                             \/ c2' = "failed"
    BY <1>6 DEF Link!WriteRaises, Link!Typed, Link!TypeOK, Link!Threads
  <2> QED
    BY <2>1 DEF Link!Threads
<1>7. CASE Link!Dispatches \/ Link!DeviceReports \/ Link!DeviceBoots
  <2>1. UNCHANGED <<c2, c4, c5>> /\ c7'.tuned = c7.tuned
    BY <1>7 DEF Link!Dispatches, Link!DeviceReports, Link!DeviceBoots, Link!Typed, Link!TypeOK
  <2> QED
    BY <1>0, <2>1
<1>8. CASE Link!DeviceTakes
  <2>1. UNCHANGED <<c2, c4>>
    BY <1>8 DEF Link!DeviceTakes
  <2>2. Link!EndsIn(c5, Link!TunedFrames, c7.tuned) => Link!EndsIn(c5', Link!TunedFrames, c7'.tuned)
    <3>1. ASSUME Link!EndsIn(c5, Link!TunedFrames, c7.tuned)
          PROVE  Link!EndsIn(c5', Link!TunedFrames, c7'.tuned)
      <4>1. CASE c7' = c7 /\ Link!EndsIn(c5', Link!TunedFrames, c7.tuned)
        BY <4>1
      <4>2. CASE /\ Link!EndsIn(c5', Link!TunedFrames, Head(c5) \in Link!TunedFrames)
                 /\ c7'.tuned = Head(c5).tuned
        BY <4>2 DEF Link!EndsIn, Link!TunedFrames
      <4> QED
        BY <1>8, <3>1, <4>1, <4>2, LinkTakesAtTheHead
    <3> QED
      BY <3>1
  <2>3. c2 = "passive" => /\ \A i \in 1 .. Len(c5') : c5'[i].kind # "state"
                          /\ c7'.tuned
    <3>1. SUFFICES ASSUME c2 = "passive"
                   PROVE  /\ \A i \in 1 .. Len(c5') : c5'[i].kind # "state"
                          /\ c7'.tuned
      OBVIOUS
    <3>2. c5 \in Seq(Link!Frames) /\ c5 # <<>> /\ c5' = Tail(c5) /\ Head(c5) \in Link!Frames
      BY <1>8 DEF Link!DeviceTakes, Link!Typed, Link!TypeOK
    <3>3. Head(c5).kind # "state" /\ \A i \in 1 .. Len(c5') : c5'[i].kind # "state"
      BY <3>1, <3>2
    <3>4. Head(c5).kind = "audio"
      BY <3>2, <3>3 DEF Link!Frames, Link!Audio, Link!States
    <3>5. c7' = c7
      BY <1>8, <3>4 DEF Link!DeviceTakes
    <3> QED
      BY <3>1, <3>3, <3>5
  <2> QED
    BY <2>1, <2>2, <2>3
<1>9. CASE Link!DeviceResets
  BY <1>9 DEF Link!DeviceResets
<1> QED
  BY <1>1, <1>2, <1>3, <1>4, <1>5, <1>6, <1>7, <1>8, <1>9 DEF Link!Next, Link!StateThread

\* Close ends with the carrier down or about to be: the echo goes out after every
\* other state, and without it no credit for one was left, hence no carrier.
LEMMA LinkKeepsTheCarrierOff ==
    ASSUME Link!LinkAssumption, Link!Typed, Link!Awake, Link!CreditsAccounted, Link!Powered, Link!Unkeyed, Link!Next
    PROVE  Link!Unkeyed'
<1>0. c7'.fault = c7.fault
  BY DEF Link!Next, Link!StateThread, Link!SendsAudio, Link!PassiveHit, Link!PassiveMiss, Link!Elicits, Link!ElicitsAgain, Link!Heard,
         Link!Restores, Link!ConnectFails, Link!Requests, Link!Applied, Link!AwaitTimesOut, Link!CloseBegins, Link!CloseGoesOn,
         Link!CloseEnds, Link!Starves, Link!Writes, Link!WriteRaises, Link!Dispatches, Link!DeviceTakes, Link!DeviceReports,
         Link!DeviceBoots, Link!DeviceResets, Link!Silent, Link!Device, Link!Typed, Link!TypeOK
<1> SUFFICES ASSUME c7.fault # "write_fails"
             PROVE  Link!Unkeyed'
  BY <1>0 DEF Link!Unkeyed
<1> USE DEF Link!Unkeyed
<1>1. CASE \/ Link!PassiveHit \/ Link!PassiveMiss \/ Link!ElicitsAgain \/ Link!Heard \/ Link!ConnectFails
           \/ Link!Applied("confirming", "ready") \/ Link!Applied("applying", "ready")
           \/ Link!AwaitTimesOut \/ Link!CloseEnds
           \/ (c2 \in {"eliciting", "restoring"} /\ Link!Starves("failed"))
  <2>1. UNCHANGED <<c4, c5, c7>>
    BY <1>1 DEF Link!PassiveHit, Link!PassiveMiss, Link!ElicitsAgain, Link!Heard, Link!ConnectFails, Link!Applied,
                Link!AwaitTimesOut, Link!CloseEnds, Link!Starves
  <2>2. c2' \notin {"closing", "stopping", "closed"} \/ c2 = "stopping"
    BY <1>1 DEF Link!PassiveHit, Link!PassiveMiss, Link!ElicitsAgain, Link!Heard, Link!ConnectFails, Link!Applied,
                Link!AwaitTimesOut, Link!CloseEnds, Link!Starves
  <2>3. CASE c2' \notin {"closing", "stopping", "closed"}
    BY <2>3
  <2>4. CASE c2 = "stopping"
    <3>1. Link!EndsIn(c5, Link!UnkeyedFrames, ~c7.ptt)
      BY <2>4 DEF Link!Typed
    <3>2. Link!EndsIn(c5', Link!UnkeyedFrames, ~c7'.ptt)
      BY <2>1, <3>1 DEF Link!EndsIn
    <3>3. c2' # "closing"
      BY <1>1, <2>4 DEF Link!PassiveHit, Link!PassiveMiss, Link!ElicitsAgain, Link!Heard, Link!ConnectFails, Link!Applied,
                        Link!AwaitTimesOut, Link!CloseEnds, Link!Starves
    <3> QED
      BY <3>2, <3>3
  <2> QED
    BY <2>2, <2>3, <2>4
<1>2. CASE Link!CloseGoesOn
  <2>1. UNCHANGED <<c4, c5, c7>> /\ c2' = "stopping"
    BY <1>2 DEF Link!CloseGoesOn
  <2>2. CASE c2 = "closing"
    BY <2>1, <2>2
  <2>3. CASE c2 # "closing"
    <3>1. Link!Starved
      BY <1>2, <2>3 DEF Link!CloseGoesOn, Link!Awake
    <3>2. /\ c4["state"] = Link!NoFrame /\ c4["audio"] = Link!NoFrame /\ c5 = <<>>
          /\ c1.credits < 2 /\ \A i \in 1 .. Len(c6) : c6[i].kind # "window"
      BY <3>1 DEF Link!Starved, Link!Threads
    <3>3. Link!RefundOf(c6) = 0
      <4>1. \A i \in 1 .. Len(c6) : c6[i] \notin {Link!Refund(1)} /\ c6[i] \notin {Link!Refund(2)}
        BY <3>2 DEF Link!Refund
      <4>2. /\ {i \in 1 .. Len(c6) : c6[i] \in {Link!Refund(1)}} = {}
            /\ {i \in 1 .. Len(c6) : c6[i] \in {Link!Refund(2)}} = {}
        BY <4>1
      <4>3. Link!Count(c6, {Link!Refund(1)}) = 0 /\ Link!Count(c6, {Link!Refund(2)}) = 0
        BY <4>2, FS_EmptySet, LinkCountAlike DEF Link!Count
      <4> QED
        BY <4>3 DEF Link!RefundOf
    <3>4. Link!CostOf(c5) = 0 /\ Link!Paid(Link!NoFrame) = 0
      BY <3>2, LinkNothingQueued DEF Link!Paid
    <3>5. c1.window - c8 = c1.credits /\ c1.credits \in Int
      <4>1. c1.window \in Int /\ c1.credits \in Int /\ c8 \in Int
        BY DEF Link!Typed, Link!TypeOK
      <4> QED
        BY <3>2, <3>3, <3>4, <4>1 DEF Link!CreditsAccounted
    <3>6. ~c7.ptt
      BY <3>2, <3>5 DEF Link!Powered
    <3>7. Link!EndsIn(c5, Link!UnkeyedFrames, ~c7.ptt)
      BY <3>2, <3>6 DEF Link!EndsIn
    <3> QED
      BY <2>1, <3>7
  <2> QED
    BY <2>2, <2>3
<1>3. CASE Link!Elicits \/ Link!Restores \/ \E ptt \in BOOLEAN : Link!Requests(ptt)
  BY <1>3 DEF Link!Elicits, Link!Restores, Link!Requests
<1>4. CASE Link!CloseBegins
  <2>1. Link!SendsState(FALSE, TRUE) /\ c2' = "closing" /\ UNCHANGED <<c5, c7>>
    BY <1>4 DEF Link!CloseBegins
  <2>2. c4'["state"] = Link!Desired(c1.sequence + 1, FALSE, TRUE)
    BY <2>1 DEF Link!SendsState, Link!Spend, Link!Typed, Link!TypeOK, Link!Threads
  <2>3. Link!Desired(c1.sequence + 1, FALSE, TRUE) \in Link!UnkeyedFrames
    BY <2>1 DEF Link!SendsState, Link!Desired, Link!UnkeyedFrames, Link!States, Link!LinkAssumption, Link!Typed, Link!TypeOK
  <2>4. Link!Desired(c1.sequence + 1, FALSE, TRUE) # Link!NoFrame
    BY DEF Link!Desired, Link!NoFrame
  <2> QED
    BY <2>1, <2>2, <2>3, <2>4
<1>5. CASE Link!SendsAudio
  <2>1. c4'["state"] = c4["state"] /\ UNCHANGED <<c2, c5, c7>>
    BY <1>5 DEF Link!SendsAudio, Link!Spend, Link!Typed, Link!TypeOK, Link!Threads
  <2> QED
    BY <2>1
<1>6. ASSUME NEW t \in Link!Threads, Link!Writes(t) \/ Link!WriteRaises(t)
      PROVE  Link!Unkeyed'
  <2>0. Link!Writes(t)
    BY <1>6 DEF Link!WriteRaises
  <2>1. /\ UNCHANGED <<c2, c7>>
        /\ t = "audio" => c4'["state"] = c4["state"]
        /\ t = "state" => c4'["state"] = Link!NoFrame /\ c4["state"] # Link!NoFrame
    BY <2>0 DEF Link!Writes, Link!Typed, Link!TypeOK, Link!Threads
  <2>2. c2 \in {"stopping", "closed"} => t = "audio"
    BY <2>1 DEF Link!Typed, Link!Threads
  <2>3. CASE ~c7.up
    <3>1. c5' = c5 /\ c5 = <<>> /\ ~c7.ptt
      BY <2>0, <2>3 DEF Link!Writes, Link!Awake
    <3>2. Link!EndsIn(c5', Link!UnkeyedFrames, ~c7'.ptt)
      BY <2>1, <3>1 DEF Link!EndsIn
    <3>3. c2 = "closing" => c4'["state"] \in Link!UnkeyedFrames \cup {Link!NoFrame}
      BY <2>1 DEF Link!Threads
    <3> QED
      BY <2>1, <3>2, <3>3
  <2>4. CASE c7.up
    <3>1. t = "audio" /\ Link!EndsIn(c5, Link!UnkeyedFrames, ~c7.ptt) => Link!EndsIn(c5', Link!UnkeyedFrames, ~c7.ptt)
      BY <2>0, <2>4, LinkWritesAtTheEnd
    <3>2. t = "state" /\ c4["state"] \in Link!UnkeyedFrames => Link!EndsIn(c5', Link!UnkeyedFrames, ~c7.ptt)
      BY <2>0, <2>4, LinkWritesAtTheEnd
    <3> QED
      BY <2>1, <2>2, <3>1, <3>2 DEF Link!Threads
  <2> QED
    BY <2>3, <2>4
<1>7. CASE Link!Dispatches \/ Link!DeviceReports \/ Link!DeviceBoots
  <2>1. UNCHANGED <<c2, c4, c5>> /\ c7'.ptt = c7.ptt
    BY <1>7 DEF Link!Dispatches, Link!DeviceReports, Link!DeviceBoots, Link!Typed, Link!TypeOK
  <2> QED
    BY <1>0, <2>1
<1>8. CASE Link!DeviceTakes
  <2>1. UNCHANGED <<c2, c4>>
    BY <1>8 DEF Link!DeviceTakes
  <2>2. ASSUME Link!EndsIn(c5, Link!UnkeyedFrames, ~c7.ptt)
        PROVE  Link!EndsIn(c5', Link!UnkeyedFrames, ~c7'.ptt)
    <3>1. CASE c7' = c7 /\ Link!EndsIn(c5', Link!UnkeyedFrames, ~c7.ptt)
      BY <3>1
    <3>2. CASE /\ Link!EndsIn(c5', Link!UnkeyedFrames, Head(c5) \in Link!UnkeyedFrames)
               /\ c7'.ptt = Head(c5).ptt
      BY <3>2 DEF Link!EndsIn, Link!UnkeyedFrames
    <3> QED
      BY <1>8, <2>2, <3>1, <3>2, LinkTakesAtTheHead
  <2> QED
    BY <2>1, <2>2
<1>9. CASE Link!DeviceResets
  <2>1. UNCHANGED <<c2, c4>> /\ c5' = <<>> /\ ~c7'.ptt
    BY <1>9 DEF Link!DeviceResets, Link!Silent, Link!Device
  <2>2. Link!EndsIn(c5', Link!UnkeyedFrames, ~c7'.ptt)
    BY <2>1 DEF Link!EndsIn
  <2> QED
    BY <2>1, <2>2
<1> QED
  BY <1>1, <1>2, <1>3, <1>4, <1>5, <1>6, <1>7, <1>8, <1>9 DEF Link!Next, Link!StateThread

\* When a booting device announces no less than the window the session began
\* with: every credit is accounted for, the operator's tuning survives a connect,
\* and a closed radio is not left keyed, whatever is lost, late or refused.
THEOREM LinkIsAccounted ==
    ASSUME Link!LinkAssumption, LinkWindow <= LinkHelloWindow
    PROVE  Link!Spec => []Link!CreditsAccounted /\ []Link!TuningSurvives /\ []Link!CloseUnkeys
<1>1. Link!Init => Link!IInv
  <2> SUFFICES ASSUME Link!Init
               PROVE  Link!IInv
    OBVIOUS
  <2>1. /\ c5 = <<>> /\ c6 = <<>> /\ c8 = 0 /\ c2 = "passive"
        /\ c4 = [t \in Link!Threads |-> Link!NoFrame]
        /\ c1.credits = LinkWindow /\ c1.window = LinkWindow /\ ~c1.known
    BY DEF Link!Init
  <2>6. PICK fault \in LinkFaults, up \in BOOLEAN, reports \in BOOLEAN, n \in 0 .. 1 :
           c7 = Link!Device(up, reports, n, fault)
    <3>1. PICK fault \in LinkFaults :
             c7 \in {Link!Device(FALSE, FALSE, 0, fault), Link!Device(TRUE, FALSE, 0, fault),
                     Link!Device(TRUE, TRUE, 1, fault)}
      BY DEF Link!Init, Link!Silent
    <3>2. \A up, reports \in BOOLEAN, n \in 0 .. 1 : c7 = Link!Device(up, reports, n, fault)
             => \E u, r \in BOOLEAN, m \in 0 .. 1 : c7 = Link!Device(u, r, m, fault)
      OBVIOUS
    <3>3. 0 \in 0 .. 1 /\ 1 \in 0 .. 1 /\ TRUE \in BOOLEAN /\ FALSE \in BOOLEAN
      OBVIOUS
    <3> QED
      BY <3>1, <3>2, <3>3
  <2>7. c7.tuned /\ ~c7.ptt
    BY <2>6 DEF Link!Device
  <2>2. Link!Typed
    <3>1. PICK zero \in 0 .. LinkMaxSequence : zero = 0
      BY DEF Link!LinkAssumption
    <3>2. Link!NoState \in Link!State
      BY <3>1 DEF Link!NoState, Link!State
    <3>3. c1 = [credits |-> LinkWindow, window |-> LinkWindow, sequence |-> zero, applied |-> zero,
                  state |-> Link!NoState, known |-> FALSE, closed |-> FALSE]
      BY <3>1 DEF Link!Init
    <3>4. c1 \in [credits : Int, window : Nat, sequence : 0 .. LinkMaxSequence,
                    applied : 0 .. LinkMaxSequence, state : Link!State, known : BOOLEAN,
                    closed : BOOLEAN]
      BY <3>2, <3>3 DEF Link!LinkAssumption
    <3>5. c7 \in [up : BOOLEAN, applied : 0 .. LinkMaxSequence, ptt : BOOLEAN,
                   reports : BOOLEAN, tuned : BOOLEAN, fault : LinkFaults]
      <4>1. n \in 0 .. LinkMaxSequence
        BY DEF Link!LinkAssumption
      <4> QED
        BY <2>6, <4>1 DEF Link!Device
    <3>6. c2 = "passive" /\ c3 \in 0 .. LinkMaxSequence
      BY <3>1 DEF Link!Init
    <3>7. /\ c4 \in [Link!Threads -> Link!Frames \cup {Link!NoFrame}]
          /\ c4["state"] = Link!NoFrame /\ c4["audio"] = Link!NoFrame
      BY <2>1 DEF Link!Threads
    <3> QED
      BY <2>1, <3>4, <3>5, <3>6, <3>7 DEF Link!Typed, Link!TypeOK
  <2>3. Link!Awake
    BY <2>1, <2>7 DEF Link!Awake
  <2>4. Link!CreditsAccounted /\ Link!Powered
    BY <2>1, <2>7, LinkNothingQueued DEF Link!CreditsAccounted, Link!Powered, Link!Paid, Link!Threads, Link!LinkAssumption
  <2>5. Link!Retuned /\ Link!Unkeyed
    BY <2>1, <2>7 DEF Link!Retuned, Link!Unkeyed
  <2> QED
    BY <2>2, <2>3, <2>4, <2>5 DEF Link!IInv
<1>2. Link!IInv /\ [Link!Next]_(Link!vars) => Link!IInv'
  <2> SUFFICES ASSUME Link!IInv, [Link!Next]_(Link!vars)
               PROVE  Link!IInv'
    OBVIOUS
  <2>1. CASE UNCHANGED Link!vars
    BY <2>1 DEF Link!vars, Link!IInv, Link!Typed, Link!TypeOK, Link!Awake, Link!CreditsAccounted, Link!Powered, Link!Retuned, Link!Unkeyed
  <2>2. CASE Link!Next
    <3>1. Link!Typed'
      BY <2>2, LinkTypedWhileTheThreadGoesOn, LinkTypedWhenAFrameIsPaid, LinkTypedOnTheWire
      DEF Link!IInv, Link!Next, Link!StateThread
    <3>2. Link!CreditsAccounted' /\ Link!Powered'
      BY <2>2, LinkCreditsOfTheThreads, LinkCreditsOfTheDevice DEF Link!IInv, Link!Next
    <3>3. Link!Awake' /\ Link!Retuned' /\ Link!Unkeyed'
      BY <2>2, LinkStaysAwake, LinkKeepsTheTuning, LinkKeepsTheCarrierOff DEF Link!IInv
    <3> QED
      BY <3>1, <3>2, <3>3 DEF Link!IInv
  <2> QED
    BY <2>1, <2>2
<1>3. Link!IInv => Link!TuningSurvives /\ Link!CloseUnkeys
  BY DEF Link!IInv, Link!Retuned, Link!Unkeyed, Link!EndsIn, Link!NoStateUnderWay, Link!TuningSurvives, Link!CloseUnkeys
<1>4. Link!IInv => Link!CreditsAccounted
  BY DEF Link!IInv
<1> QED
  BY <1>1, <1>2, <1>3, <1>4, PTL DEF Link!Spec
=============================================================================
