---------------------------- MODULE StationShown ----------------------------
(***************************************************************************)
(* The parts of the station that store, show and tell what is so, and what *)
(* is proved of each one, for every value of its constants: the settings,  *)
(* the imported channels, the ledger, the event stream, the clients of the *)
(* gateway, the doctor.                                                    *)
(*                                                                         *)
(* A switch between two sources of the model (Overlaps) is a value here,   *)
(* no constant.                                                            *)
(***************************************************************************)
EXTENDS Station, TLAPS, FiniteSetTheorems, WellFoundedInduction

-----------------------------------------------------------------------------
(* ConfigStore: the settings in memory, in radio.toml, in the radio. *)

CONSTANTS
    ConfigBackends, ConfigBlocks, ConfigRequired, ConfigDeclared, ConfigValues,
    ConfigThreads, ConfigMaxRequests, ConfigStoreFaults

Config == INSTANCE ConfigStore WITH
    Backends <- ConfigBackends, Blocks <- ConfigBlocks, Required <- ConfigRequired,
    Declared <- ConfigDeclared, Values <- ConfigValues, Threads <- ConfigThreads,
    MaxRequests <- ConfigMaxRequests, StoreFaults <- ConfigStoreFaults,
    Overlaps <- FALSE,
    file <- c1, mem <- c2, live <- c3, routes <- c4, call <- c5, told <- c6,
    requests <- c7, faulted <- c8

-----------------------------------------------------------------------------
\* A request is a record that is not the resting one.
LEMMA RequestsAreNotIdle == \A c \in Config!Requests : c # Config!Idle /\ c.pc # "idle"
BY DEF Config!Requests, Config!Idle

\* Only one caller moves: what the others do is nothing.
LEMMA OneMoves ==
    ASSUME Config!IInv, NEW t \in Config!Callers, c5[t] # Config!Idle \/ Config!Quiet,
           Config!Typed', Config!Loadable', c5' = [c5 EXCEPT ![t] = c5'[t]],
           c5'[t] = Config!Idle => Config!Agree' /\ c4' = c3'.gen,
           c5'[t] # Config!Idle => Config!IsAt(c5[t])' /\ (c5'[t].kind = "select" <=> t = Config!Loop)
    PROVE  Config!IInv'
<1>1. \A u \in Config!Callers : u # t => c5[u] = Config!Idle /\ c5'[u] = Config!Idle
  <2>1. \A u \in Config!Callers : u # t => c5[u] = Config!Idle
    BY DEF Config!IInv, Config!OneRequest, Config!Quiet
  <2>2. \A u \in Config!Callers : u # t => c5'[u] = c5[u]
    BY DEF Config!IInv, Config!Typed
  <2> QED
    BY <2>1, <2>2
<1>2. Config!OneRequest'
  BY <1>1 DEF Config!OneRequest
<1>3. Config!Quiet' => Config!Agree' /\ c4' = c3'.gen
  BY DEF Config!Quiet
<1>4. \A u \in Config!Callers : c5'[u] # Config!Idle => Config!IsAt(c5[u])' /\ (c5'[u].kind = "select" <=> u = Config!Loop)
  BY <1>1
<1> QED
  BY <1>2, <1>3, <1>4 DEF Config!IInv

\* A request that begins finds nobody under way.
LEMMA BeginningsAreSafe ==
    ASSUME Config!IInv, NEW t \in Config!Callers, NEW r \in Config!Requests, Config!Begins(t, r), Config!IsAt(r),
           r.kind = "select" <=> t = Config!Loop
    PROVE  Config!IInv'
<1>1. Config!Quiet /\ c5' = [c5 EXCEPT ![t] = r] /\ UNCHANGED <<c1, c2, c3, c4, c6>>
  BY DEF Config!Begins, Config!Quiet
<1>2. c5'[t] = r /\ c5' \in [Config!Callers -> {Config!Idle} \cup Config!Requests] /\ c5' = [c5 EXCEPT ![t] = c5'[t]]
  BY <1>1 DEF Config!IInv, Config!Typed
<1>3. Config!Typed' /\ Config!Loadable'
  BY <1>1, <1>2 DEF Config!IInv, Config!Typed, Config!Loadable
<1>4. r # Config!Idle
  BY RequestsAreNotIdle
<1>5. Config!IsAt(c5[t])'
  BY <1>1, <1>2 DEF Config!IsAt, Config!Agree
<1> QED
  BY <1>1, <1>2, <1>3, <1>4, <1>5, OneMoves

\* While requests do not overlap and nothing fails: what was answered is in the
\* file, what is shown is what the file holds, the routes use the radio that is
\* live, and the file can be read, whatever requests and restarts there are.
THEOREM SettingsAreStored ==
    ASSUME Config!StoreAssumption, Config!NothingFails
    PROVE  Config!Spec => [](Config!AnsweredIsStored /\ Config!ShownIsStored /\ Config!RoutesReachTheRadio /\ Config!FileIsWhole)
<1> USE DEF Config!StoreAssumption
<1>1. Config!Init => Config!IInv
  <2> SUFFICES ASSUME Config!Init
               PROVE  Config!IInv
    OBVIOUS
  <2>1. PICK backend \in ConfigBackends \ Config!Incomplete, value \in ConfigValues :
           /\ c1 = [backend |-> backend, value |-> value, blocks |-> ConfigDeclared, servers |-> value, whole |-> TRUE]
           /\ c2 = Config!load_settings(c1)
           /\ c3 = [backend |-> backend, gen |-> 0, held |-> backend]
           /\ c4 = 0
           /\ c5 = [t \in Config!Callers |-> Config!Idle]
           /\ c6 = [value |-> value, servers |-> value]
    BY DEF Config!Init
  <2>2. c2 = [backend |-> backend, value |-> value, blocks |-> ConfigDeclared \cup {backend}]
    BY <2>1 DEF Config!load_settings, Config!resolve_settings
  <2>3. Config!Typed
    <3>1. c1 \in Config!Files /\ c2 \in Config!Settings
      <4>1. ConfigDeclared \in SUBSET ConfigBlocks /\ ConfigDeclared \cup {backend} \in SUBSET (ConfigBlocks \cup ConfigBackends)
        OBVIOUS
      <4>2. c1 \in Config!Files
        BY <2>1, <4>1 DEF Config!Files
      <4>3. c2 \in Config!Settings
        BY <2>2, <4>1 DEF Config!Settings
      <4> QED
        BY <4>2, <4>3
    <3>2. c3 \in [backend : ConfigBackends, gen : Nat, held : ConfigBackends]
      BY <2>1
    <3>3. c5 \in [Config!Callers -> {Config!Idle} \cup Config!Requests]
      BY <2>1
    <3>4. c6 \in [value : ConfigValues, servers : ConfigValues]
      BY <2>1
    <3> QED
      BY <3>1, <3>2, <3>3, <3>4 DEF Config!Typed
  <2>4. Config!Loadable /\ Config!Agree /\ c4 = c3.gen
    BY <2>1, <2>2 DEF Config!Loadable, Config!Agree, Config!Incomplete
  <2>5. \A t \in Config!Callers : c5[t] = Config!Idle
    BY <2>1
  <2> QED
    BY <2>3, <2>4, <2>5 DEF Config!IInv, Config!OneRequest
<1>2. Config!IInv /\ [Config!Next]_(Config!vars) => Config!IInv'
  <2> SUFFICES ASSUME Config!IInv, [Config!Next]_(Config!vars)
               PROVE  Config!IInv'
    OBVIOUS
  <2>0. Config!Typed /\ Config!Loadable
    BY DEF Config!IInv
  <2>1. ASSUME NEW t \in ConfigThreads, NEW b \in ConfigBackends \ Config!Incomplete, NEW v \in ConfigValues, Config!patch_settings(t, b, v)
        PROVE  Config!IInv'
    <3>1. PICK r : r = [pc |-> "parse", kind |-> "patch", new |-> Config!resolve_settings(b, v, ConfigBlocks)]
      OBVIOUS
    <3>2. r \in Config!Requests /\ r.pc = "parse" /\ r.kind = "patch" /\ r.new.backend = b
      BY <3>1 DEF Config!Requests, Config!Settings, Config!resolve_settings
    <3>3. Config!Begins(t, r) /\ t \in Config!Callers /\ t # Config!Loop
      BY <2>1, <3>1 DEF Config!patch_settings, Config!Callers
    <3>4. Config!Agree /\ c4 = c3.gen
      BY <3>3 DEF Config!Begins, Config!IInv, Config!Quiet
    <3>5. Config!IsAt(r)
      BY <3>2, <3>4 DEF Config!IsAt
    <3> QED
      BY <3>2, <3>3, <3>5, BeginningsAreSafe
  <2>2. ASSUME NEW t \in ConfigThreads, NEW v \in ConfigValues, Config!put_mumble_servers(t, v)
        PROVE  Config!IInv'
    <3>1. PICK r : r = [pc |-> "parse", kind |-> "servers", new |-> v]
      OBVIOUS
    <3>2. r \in Config!Requests /\ r.pc = "parse" /\ r.kind = "servers"
      BY <3>1 DEF Config!Requests
    <3>3. Config!Begins(t, r) /\ t \in Config!Callers /\ t # Config!Loop
      BY <2>2, <3>1 DEF Config!put_mumble_servers, Config!Callers
    <3>4. Config!Agree /\ c4 = c3.gen
      BY <3>3 DEF Config!Begins, Config!IInv, Config!Quiet
    <3>5. Config!IsAt(r)
      BY <3>2, <3>4 DEF Config!IsAt
    <3> QED
      BY <3>2, <3>3, <3>5, BeginningsAreSafe
  <2>3. ASSUME NEW b \in ConfigBackends, Config!select_backend(b)
        PROVE  Config!IInv'
    <3>1. PICK r : r = [pc |-> "rebuild", kind |-> "select",
                        new |-> Config!resolve_settings(b, c2.value, c2.blocks \cap ConfigBlocks)]
      OBVIOUS
    <3>2. r \in Config!Requests /\ r.pc = "rebuild" /\ r.kind = "select" /\ r.new.backend = b /\ r.new.value = c2.value
      BY <2>0, <3>1 DEF Config!Requests, Config!Settings, Config!resolve_settings, Config!Typed
    <3>3. Config!Begins(Config!Loop, r) /\ Config!Loop \in Config!Callers /\ b \notin Config!Incomplete
      BY <2>3, <3>1 DEF Config!select_backend, Config!Callers, Config!Enumerates
    <3>4. Config!Agree /\ c4 = c3.gen
      BY <3>3 DEF Config!Begins, Config!IInv, Config!Quiet
    <3>5. Config!IsAt(r)
      BY <3>2, <3>3, <3>4 DEF Config!IsAt, Config!Agree
    <3> QED
      BY <3>2, <3>3, <3>5, BeginningsAreSafe
  <2>4. ASSUME Config!rebuild
        PROVE  Config!IInv'
    <3>1. PICK c : c = c5[Config!Loop]
      OBVIOUS
    <3>2. Config!Loop \in Config!Callers /\ c # Config!Idle /\ c \in Config!Requests /\ c.pc = "rebuild"
      BY <2>0, <2>4, <3>1 DEF Config!rebuild, Config!Callers, Config!Typed, Config!Idle
    <3>3. c \in [pc : {"rebuild", "parse", "answer"}, kind : {"patch", "select"}, new : Config!Settings]
      BY <3>2 DEF Config!Requests
    <3>4. /\ c3' = [backend |-> c.new.backend, gen |-> c3.gen + 1, held |-> c.new.backend]
          /\ c5' = [c5 EXCEPT ![Config!Loop] = [c EXCEPT !.pc = "parse"]]
          /\ UNCHANGED <<c1, c2, c4, c6>>
      BY <2>4, <3>1 DEF Config!rebuild, Config!Fault, Config!Goes, Config!NothingFails
    <3>5. PICK d : d = [c EXCEPT !.pc = "parse"]
      OBVIOUS
    <3>6. d.pc = "parse" /\ d.kind = c.kind /\ d.new = c.new /\ d \in Config!Requests
      BY <3>3, <3>5 DEF Config!Requests
    <3>7. c5'[Config!Loop] = d /\ c5' = [c5 EXCEPT ![Config!Loop] = c5'[Config!Loop]] /\ c5' \in [Config!Callers -> {Config!Idle} \cup Config!Requests]
      BY <2>0, <3>2, <3>4, <3>5, <3>6 DEF Config!Typed
    <3>8. Config!Typed' /\ Config!Loadable'
      <4>1. c3' \in [backend : ConfigBackends, gen : Nat, held : ConfigBackends]
        BY <2>0, <3>3, <3>4 DEF Config!Typed, Config!Settings
      <4> QED
        BY <2>0, <3>4, <3>7, <4>1 DEF Config!Typed, Config!Loadable
    <3>9. Config!IsAt(c) /\ c.kind = "select"
      BY <3>1, <3>2 DEF Config!IInv
    <3>10. Config!IsAt(c5[Config!Loop])' /\ d.kind = "select"
      BY <3>2, <3>4, <3>6, <3>7, <3>9 DEF Config!IsAt, Config!Agree
    <3>11. d # Config!Idle /\ c5[Config!Loop] # Config!Idle
      BY <3>1, <3>2, <3>6, RequestsAreNotIdle
    <3> QED
      BY <3>2, <3>7, <3>8, <3>10, <3>11, OneMoves
  <2>5. ASSUME NEW t \in Config!Callers, Config!Parses(t)
        PROVE  Config!IInv'
    <3>1. PICK c : c = c5[t]
      OBVIOUS
    <3>2. c # Config!Idle /\ c \in Config!Requests /\ c.pc = "parse"
      BY <2>0, <2>5, <3>1 DEF Config!Parses, Config!Typed, Config!Idle
    <3>3. PICK d : d = [pc |-> "write", kind |-> c.kind, new |-> c.new, doc |-> c1]
      OBVIOUS
    <3>4. d \in Config!Requests /\ d.pc = "write" /\ d.kind = c.kind /\ d.new = c.new /\ d.doc = c1
      BY <2>0, <3>2, <3>3 DEF Config!Requests, Config!Typed
    <3>5. c5' = [c5 EXCEPT ![t] = d] /\ UNCHANGED <<c1, c2, c3, c4, c6>>
      BY <2>5, <3>1, <3>3 DEF Config!Parses, Config!Goes
    <3>6. c5'[t] = d /\ c5' = [c5 EXCEPT ![t] = c5'[t]] /\ c5' \in [Config!Callers -> {Config!Idle} \cup Config!Requests]
      BY <2>0, <3>4, <3>5 DEF Config!Typed
    <3>7. Config!Typed' /\ Config!Loadable'
      BY <2>0, <3>5, <3>6 DEF Config!Typed, Config!Loadable
    <3>8. Config!IsAt(c) /\ (c.kind = "select" <=> t = Config!Loop)
      BY <3>1, <3>2 DEF Config!IInv
    <3>9. Config!IsAt(c5[t])'
      BY <3>2, <3>4, <3>5, <3>6, <3>8 DEF Config!IsAt, Config!Agree
    <3>10. d # Config!Idle /\ c5[t] # Config!Idle
      BY <3>1, <3>2, <3>4, RequestsAreNotIdle
    <3> QED
      BY <3>4, <3>6, <3>7, <3>8, <3>9, <3>10, OneMoves
  <2>6. ASSUME NEW t \in Config!Callers, Config!Writes(t)
        PROVE  Config!IInv'
    <3>1. PICK c : c = c5[t]
      OBVIOUS
    <3>2. c # Config!Idle /\ c \in Config!Requests /\ c.pc = "write"
      BY <2>0, <2>6, <3>1 DEF Config!Writes, Config!Typed, Config!Idle
    <3>3. PICK d : d = [pc |-> "answer", kind |-> c.kind, new |-> c.new]
      OBVIOUS
    <3>4. d \in Config!Requests /\ d.pc = "answer" /\ d.kind = c.kind /\ d.new = c.new
      BY <3>2, <3>3 DEF Config!Requests
    <3>5. Config!IsAt(c) /\ (c.kind = "select" <=> t = Config!Loop)
      BY <3>1, <3>2 DEF Config!IInv
    <3>6. c.doc = c1
      BY <3>2, <3>5 DEF Config!IsAt
    <3>7. /\ c1' = IF c.kind = "servers" THEN [c1 EXCEPT !.servers = c.new] ELSE Config!save_settings(c1, c.new)
          /\ c5' = [c5 EXCEPT ![t] = d] /\ UNCHANGED <<c2, c3, c4, c6>>
      BY <2>6, <3>1, <3>3, <3>6 DEF Config!Writes, Config!Goes, Config!Fault, Config!NothingFails
    <3>8. c5'[t] = d /\ c5' = [c5 EXCEPT ![t] = c5'[t]] /\ c5' \in [Config!Callers -> {Config!Idle} \cup Config!Requests]
      BY <2>0, <3>4, <3>7 DEF Config!Typed
    <3>9. d # Config!Idle /\ c5[t] # Config!Idle
      BY <3>1, <3>2, <3>4, RequestsAreNotIdle
    <3>10. Config!Agree
      BY <3>2, <3>5 DEF Config!IsAt
    <3>11. c1 \in Config!Files
      BY <2>0 DEF Config!Typed
    <3>12. CASE c.kind = "servers"
      <4>1. c.new \in ConfigValues
        BY <3>2, <3>12 DEF Config!Requests
      <4>2. c1' = [c1 EXCEPT !.servers = c.new]
        BY <3>7, <3>12
      <4>3. /\ c1' \in Config!Files /\ c1'.servers = c.new /\ c1'.value = c1.value
            /\ c1'.backend = c1.backend /\ c1'.blocks = c1.blocks /\ c1'.whole = c1.whole
        BY <3>11, <4>1, <4>2 DEF Config!Files
      <4>4. Config!Typed' /\ Config!Loadable'
        BY <2>0, <3>7, <3>8, <4>3 DEF Config!Typed, Config!Loadable
      <4>5. Config!IsAt(c5[t])'
        BY <3>2, <3>4, <3>5, <3>7, <3>8, <3>10, <3>12, <4>3 DEF Config!IsAt, Config!Agree
      <4> QED
        BY <3>4, <3>5, <3>8, <3>9, <4>4, <4>5, OneMoves
    <3>13. CASE c.kind # "servers"
      <4>1. c.new \in Config!Settings /\ c.kind \in {"patch", "select"}
        BY <3>2, <3>13 DEF Config!Requests
      <4>2. c1' = [c1 EXCEPT !.backend = c.new.backend, !.value = c.new.value,
                                 !.blocks = @ \cup (ConfigBlocks \ Config!Incomplete)]
        BY <3>7, <3>13 DEF Config!save_settings
      <4>3. /\ c1' \in Config!Files /\ c1'.servers = c1.servers /\ c1'.value = c.new.value
            /\ c1'.backend = c.new.backend /\ c1'.blocks = c1.blocks \cup (ConfigBlocks \ Config!Incomplete)
            /\ c1'.whole = c1.whole
        BY <3>11, <4>1, <4>2 DEF Config!Files, Config!Settings
      <4>4. c.new.backend \notin Config!Incomplete
        BY <3>5, <4>1 DEF Config!IsAt
      <4>5. Config!Typed' /\ Config!Loadable'
        BY <2>0, <3>7, <3>8, <4>3, <4>4 DEF Config!Typed, Config!Loadable
      <4>6. Config!IsAt(c5[t])'
        BY <3>2, <3>4, <3>5, <3>7, <3>8, <3>10, <3>13, <4>3, <4>4 DEF Config!IsAt, Config!Agree
      <4> QED
        BY <3>4, <3>5, <3>8, <3>9, <4>5, <4>6, OneMoves
    <3> QED
      BY <3>12, <3>13
  <2>7. ASSUME NEW t \in Config!Callers, Config!Answers(t)
        PROVE  Config!IInv'
    <3>1. PICK c : c = c5[t]
      OBVIOUS
    <3>2. c # Config!Idle /\ c \in Config!Requests /\ c.pc = "answer"
      BY <2>0, <2>7, <3>1 DEF Config!Answers, Config!Typed, Config!Idle
    <3>3. Config!IsAt(c) /\ (c.kind = "select" <=> t = Config!Loop)
      BY <3>1, <3>2 DEF Config!IInv
    <3>4. c5' = [c5 EXCEPT ![t] = Config!Idle] /\ UNCHANGED <<c1, c3>>
      BY <2>7 DEF Config!Answers, Config!Goes
    <3>5. c5'[t] = Config!Idle /\ c5' = [c5 EXCEPT ![t] = c5'[t]] /\ c5' \in [Config!Callers -> {Config!Idle} \cup Config!Requests]
      BY <2>0, <3>4 DEF Config!Typed
    <3>6. Config!Loadable'
      BY <2>0, <3>4 DEF Config!Loadable
    <3>7. c6 \in [value : ConfigValues, servers : ConfigValues]
      BY <2>0 DEF Config!Typed
    <3>8. CASE c.kind = "servers"
      <4>1. c.new \in ConfigValues
        BY <3>2, <3>8 DEF Config!Requests
      <4>2. c2' = c2 /\ c6' = [c6 EXCEPT !.servers = c.new] /\ c4' = c4
        BY <2>7, <3>1, <3>8 DEF Config!Answers
      <4>3. c6' \in [value : ConfigValues, servers : ConfigValues] /\ c6'.value = c6.value /\ c6'.servers = c.new
        BY <3>7, <4>1, <4>2
      <4>4. Config!Typed'
        BY <2>0, <3>4, <3>5, <4>2, <4>3 DEF Config!Typed
      <4>5. Config!Agree' /\ c4' = c3'.gen
        BY <3>2, <3>3, <3>4, <3>8, <4>2, <4>3 DEF Config!Agree, Config!IsAt
      <4> QED
        BY <3>1, <3>2, <3>5, <3>6, <4>4, <4>5, OneMoves
    <3>9. CASE c.kind = "patch"
      <4>1. c.new \in Config!Settings
        BY <3>2, <3>9 DEF Config!Requests
      <4>2. c2' = c.new /\ c6' = [c6 EXCEPT !.value = c.new.value] /\ c4' = c4
        BY <2>7, <3>1, <3>9 DEF Config!Answers
      <4>3. c6' \in [value : ConfigValues, servers : ConfigValues] /\ c6'.value = c.new.value /\ c6'.servers = c6.servers
        BY <3>7, <4>1, <4>2 DEF Config!Settings
      <4>4. Config!Typed'
        BY <2>0, <3>4, <3>5, <4>1, <4>2, <4>3 DEF Config!Typed
      <4>5. Config!Agree' /\ c4' = c3'.gen
        BY <3>2, <3>3, <3>4, <3>9, <4>2, <4>3 DEF Config!Agree, Config!IsAt
      <4> QED
        BY <3>1, <3>2, <3>5, <3>6, <4>4, <4>5, OneMoves
    <3>10. CASE c.kind = "select"
      <4>1. c.new \in Config!Settings
        BY <3>2, <3>10 DEF Config!Requests
      <4>2. c2' = c.new /\ c6' = c6 /\ c4' = c3.gen
        BY <2>7, <3>1, <3>10 DEF Config!Answers
      <4>3. Config!Typed'
        BY <2>0, <3>4, <3>5, <4>1, <4>2 DEF Config!Typed
      <4>4. Config!Agree' /\ c4' = c3'.gen
        BY <3>2, <3>3, <3>4, <3>10, <4>2 DEF Config!Agree, Config!IsAt
      <4> QED
        BY <3>1, <3>2, <3>5, <3>6, <4>3, <4>4, OneMoves
    <3>11. c.kind \in {"patch", "select", "servers"}
      BY <3>2 DEF Config!Requests
    <3> QED
      BY <3>8, <3>9, <3>10, <3>11
  <2>8. ASSUME Config!Restarts
        PROVE  Config!IInv'
    <3>1. c1' = c1 /\ c5' = [t \in Config!Callers |-> Config!Idle]
      BY <2>8 DEF Config!Restarts, Config!Fault, Config!NothingFails
    <3>2. Config!load_settings(c1) = [backend |-> c1.backend, value |-> c1.value, blocks |-> c1.blocks \cup {c1.backend}]
      BY DEF Config!load_settings, Config!resolve_settings
    <3>3. c1'.whole /\ Config!load_settings(c1).blocks \cap Config!Incomplete = {}
      BY <2>0, <3>1, <3>2 DEF Config!Loadable
    <3>4. /\ c2' = Config!load_settings(c1)
          /\ c3' = [backend |-> c1.backend, gen |-> c3.gen + 1, held |-> c1.backend]
          /\ c4' = c3.gen + 1
          /\ c6' = [value |-> c1.value, servers |-> c1.servers]
      BY <2>8, <3>3 DEF Config!Restarts
    <3>5. Config!Typed'
      <4>1. c2' \in Config!Settings /\ c3' \in [backend : ConfigBackends, gen : Nat, held : ConfigBackends]
        BY <2>0, <3>2, <3>4 DEF Config!Typed, Config!Files, Config!Settings
      <4>2. c6' \in [value : ConfigValues, servers : ConfigValues]
        BY <2>0, <3>4 DEF Config!Typed, Config!Files
      <4> QED
        BY <2>0, <3>1, <4>1, <4>2 DEF Config!Typed
    <3>6. Config!Loadable' /\ Config!Agree' /\ c4' = c3'.gen
      BY <2>0, <3>1, <3>2, <3>4 DEF Config!Loadable, Config!Agree
    <3>7. \A t \in Config!Callers : c5'[t] = Config!Idle
      BY <3>1
    <3> QED
      BY <3>5, <3>6, <3>7 DEF Config!IInv, Config!OneRequest
  <2>9. CASE UNCHANGED Config!vars
    BY <2>9 DEF Config!vars, Config!IInv, Config!Typed, Config!Loadable, Config!OneRequest, Config!Quiet, Config!Agree, Config!IsAt
  <2> QED
    BY <2>1, <2>2, <2>3, <2>4, <2>5, <2>6, <2>7, <2>8, <2>9 DEF Config!Next
<1>3. Config!IInv => Config!AnsweredIsStored /\ Config!ShownIsStored /\ Config!RoutesReachTheRadio /\ Config!FileIsWhole
  <2> SUFFICES ASSUME Config!IInv
               PROVE  Config!AnsweredIsStored /\ Config!ShownIsStored /\ Config!RoutesReachTheRadio /\ Config!FileIsWhole
    OBVIOUS
  <2>1. Config!AnsweredIsStored /\ Config!ShownIsStored /\ Config!FileIsWhole
    BY DEF Config!IInv, Config!Agree, Config!Loadable, Config!AnsweredIsStored, Config!ShownIsStored, Config!FileIsWhole
  <2>2. ASSUME c5[Config!Loop] = Config!Idle, NEW t \in Config!Callers, c5[t] # Config!Idle
        PROVE  c4 = c3.gen
    BY <2>2 DEF Config!IInv, Config!IsAt
  <2>3. Config!RoutesReachTheRadio
    BY <2>2 DEF Config!IInv, Config!Quiet, Config!RoutesReachTheRadio
  <2> QED
    BY <2>1, <2>3
<1> QED
  BY <1>1, <1>2, <1>3, PTL DEF Config!Spec

-----------------------------------------------------------------------------
(* ChirpImport: a CHIRP export written into the list of the server's file. *)

CONSTANTS
    ChirpLists, ChirpFiles, ChirpMaxImports, ChirpMaxCrashes

Chirp == INSTANCE ChirpImport WITH
    Lists <- ChirpLists, Files <- ChirpFiles, MaxImports <- ChirpMaxImports,
    MaxCrashes <- ChirpMaxCrashes,
    toml <- c1, backup <- c2, scratch <- c3, csv <- c4, replace <- c5, pc <- c6,
    imports <- c7, crashes <- c8

LEMMA ChirpCountAlike == \A S : Chirp!Cardinality(S) = Cardinality(S)
  BY DEF Chirp!Cardinality, Cardinality

\* Among naturals there is a least one.
LEMMA LeastIs ==
    ASSUME NEW T, T \subseteq Nat, T # {}
    PROVE  \E n \in T : \A m \in T : n <= m
<1>1. IsWellFoundedOn(OpToRel(<, Nat), Nat)
  BY NatLessThanWellFounded
<1>2. PICK n \in T : \A m \in T : ~(<<m, n>> \in OpToRel(<, Nat))
  BY <1>1, WFMin
<1>3. ASSUME NEW m \in T
      PROVE  n <= m
  <2>1. m \in Nat /\ n \in Nat
    OBVIOUS
  <2>2. ~(m < n)
    BY <1>2, <2>1 DEF OpToRel
  <2> QED
    BY <2>1, <2>2
<1> QED
  BY <1>3

\* The n-th of some places in a list is one of them: the least up to which there
\* are n of them.
LEMMA NthIs ==
    ASSUME NEW m \in Nat, NEW places, places \subseteq 1 .. m,
           NEW n \in 1 .. Cardinality(places)
    PROVE  Chirp!Nth(places, n) \in places
<1> DEFINE upTo(p) == {q \in places : q <= p}
           T == {p \in Nat : Cardinality(upTo(p)) >= n}
<1>1. ASSUME NEW p \in Nat
      PROVE  IsFiniteSet(upTo(p)) /\ Cardinality(upTo(p)) \in Nat
  <2>1. IsFiniteSet(1 .. m)
    BY FS_Interval
  <2>2. upTo(p) \subseteq 1 .. m
    OBVIOUS
  <2> HIDE DEF upTo
  <2> QED
    BY <2>1, <2>2, FS_Subset, FS_CardinalityType, ChirpCountAlike
<1>0. \A q \in places : q \in Nat /\ 1 <= q /\ q <= m
  OBVIOUS
<1>2. upTo(m) = places /\ upTo(0) = {}
  <2>1. \A q \in places : q <= m /\ ~(q <= 0)
    BY <1>0
  <2> QED
    BY <2>1
<1> HIDE DEF upTo
<1>3. IsFiniteSet(places) /\ Cardinality(places) \in Nat /\ n \in Nat /\ n >= 1 /\ n <= Cardinality(places)
  BY <1>1, <1>2
<1>4. m \in T
  BY <1>2, <1>3
<1>5. PICK p \in T : \A q \in T : p <= q
  <2>1. T \subseteq Nat /\ T # {}
    BY <1>4
  <2> HIDE DEF T
  <2> QED
    BY <2>1, LeastIs
<1>6. p # 0
  BY <1>2, <1>3, FS_EmptySet, ChirpCountAlike
<1>7. p - 1 \in Nat /\ p - 1 \notin T
  BY <1>5, <1>6
<1>8. Cardinality(upTo(p - 1)) < n
  BY <1>1, <1>3, <1>7
<1>9. Cardinality(upTo(p)) >= n
  OBVIOUS
<1>10. p \in places
  <2>1. CASE p \notin places
    <3>1. upTo(p) = upTo(p - 1)
      <4>1. \A q \in places : q <= p <=> q <= p - 1
        BY <2>1, <1>0, <1>7
      <4> QED
        BY <4>1 DEF upTo
    <3> QED
      BY <3>1, <1>1, <1>3, <1>7, <1>8, <1>9
  <2> QED
    BY <2>1
<1>11. upTo(p) = upTo(p - 1) \cup {p} /\ p \notin upTo(p - 1)
  <2>1. \A q \in places : q <= p <=> (q <= p - 1 \/ q = p)
    BY <1>0, <1>7
  <2>2. ~(p <= p - 1)
    BY <1>7
  <2> QED
    BY <2>1, <2>2, <1>10 DEF upTo
<1>12. Cardinality(upTo(p)) = Cardinality(upTo(p - 1)) + 1
  BY <1>1, <1>7, <1>11, FS_AddElement, ChirpCountAlike
<1>13. Cardinality(upTo(p)) = n
  BY <1>1, <1>3, <1>7, <1>8, <1>9, <1>12
<1>14. \E q \in places : Cardinality({r \in places : r <= q}) = n
  BY <1>10, <1>13 DEF upTo
<1> QED
  BY <1>14, ChirpCountAlike DEF Chirp!Nth

\* Lists stay lists.
LEMMA ChirpParses ==
    ASSUME NEW rows, Chirp!Listed(rows)
    PROVE  Chirp!Listed(Chirp!parse_chirp_csv(rows))
<1>0. Len(rows) \in Int
  BY DEF Chirp!Listed
<1>1. IsFiniteSet(1 .. Len(rows))
  BY <1>0, FS_Interval
<1>2. Chirp!Kept(rows) \subseteq 1 .. Len(rows)
  BY DEF Chirp!Kept
<1>3. Cardinality(Chirp!Kept(rows)) \in Nat
  BY <1>1, <1>2, FS_Subset, FS_CardinalityType, ChirpCountAlike
<1> QED
  BY <1>3, ChirpCountAlike DEF Chirp!parse_chirp_csv, Chirp!Listed

\* A row that is read means what its preset says.
LEMMA ReadAsMeant ==
    ASSUME NEW row, Chirp!Readable(row), Chirp!Sums(row)
    PROVE  /\ Chirp!Preset(row).name = row.name
           /\ Chirp!Means(row) =
                 [listens   |-> Chirp!Preset(row).frequency,
                  transmits |-> IF Chirp!Preset(row).tx = Chirp!Absent THEN Chirp!Preset(row).frequency
                                ELSE Chirp!Preset(row).tx,
                  sends     |-> Chirp!Preset(row).txTone]
<1>1. /\ Chirp!Preset(row).name = row.name /\ Chirp!Preset(row).frequency = row.frequency
      /\ Chirp!Preset(row).tx = Chirp!Transmits(row) /\ Chirp!Preset(row).txTone = Chirp!TxTone(row)
  BY DEF Chirp!Preset
<1>2. Chirp!TxTone(row) = CASE row.tone = "" -> 0
                      [] row.tone = "TSQL" -> row.cTone
                      [] OTHER -> row.rTone
  <2>1. CASE row.tone = ""
    BY <2>1 DEF Chirp!TxTone
  <2>2. CASE row.tone = "TSQL"
    BY <2>2 DEF Chirp!TxTone
  <2>3. CASE row.tone \in {"Tone", "Cross"}
    <3>1. row.tone # "" /\ row.tone # "TSQL"
      BY <2>3
    <3> QED
      BY <2>3, <3>1 DEF Chirp!TxTone
  <2> QED
    BY <2>1, <2>2, <2>3 DEF Chirp!Readable
<1>3. (IF Chirp!Transmits(row) = Chirp!Absent THEN row.frequency ELSE Chirp!Transmits(row))
         = CASE row.duplex = "" -> row.frequency
             [] row.duplex = "+" -> row.frequency + row.offset
             [] row.duplex = "-" -> row.frequency - row.offset
             [] OTHER -> Chirp!Absent
  <2>0. DOMAIN Chirp!Signs = {"-", "+"} /\ Chirp!Signs["-"] = 0 - 1 /\ Chirp!Signs["+"] = 1
    BY DEF Chirp!Signs
  <2>1. CASE row.duplex = ""
    BY <2>1 DEF Chirp!Transmits
  <2>2. CASE row.duplex = "+"
    <3>1. Chirp!Transmits(row) = row.frequency + 1 * row.offset /\ Chirp!Transmits(row) # Chirp!Absent
      BY <2>0, <2>2 DEF Chirp!Transmits, Chirp!Sums
    <3>2. row.frequency + 1 * row.offset = row.frequency + row.offset
      BY DEF Chirp!Sums
    <3> QED
      BY <2>2, <3>1, <3>2
  <2>3. CASE row.duplex = "-"
    <3>1. Chirp!Transmits(row) = row.frequency + (0 - 1) * row.offset /\ Chirp!Transmits(row) # Chirp!Absent
      BY <2>0, <2>3 DEF Chirp!Transmits, Chirp!Sums
    <3>2. row.frequency + (0 - 1) * row.offset = row.frequency - row.offset
      BY DEF Chirp!Sums
    <3> QED
      BY <2>3, <3>1, <3>2
  <2> QED
    BY <2>1, <2>2, <2>3 DEF Chirp!Readable
<1> QED
  BY <1>1, <1>2, <1>3 DEF Chirp!Means

\* Each preset that is parsed is one of the rows.
LEMMA ParsedAreRows ==
    ASSUME NEW rows, Chirp!Listed(rows), NEW k \in 1 .. Len(Chirp!parse_chirp_csv(rows))
    PROVE  \E i \in 1 .. Len(rows) : Chirp!Readable(rows[i]) /\ Chirp!parse_chirp_csv(rows)[k] = Chirp!Preset(rows[i])
<1> DEFINE kept == Chirp!Kept(rows)
<1>1. Len(rows) \in Nat /\ IsFiniteSet(1 .. Len(rows))
  <2>1. Len(rows) \in Nat /\ Len(rows) \in Int
    BY DEF Chirp!Listed
  <2> QED
    BY <2>1, FS_Interval
<1>2. kept \subseteq 1 .. Len(rows) /\ \A i \in kept : Chirp!Readable(rows[i])
  BY DEF Chirp!Kept
<1> HIDE DEF kept
<1>3. Cardinality(kept) \in Nat
  BY <1>1, <1>2, FS_Subset, FS_CardinalityType, ChirpCountAlike
<1>4. Chirp!parse_chirp_csv(rows) = [n \in 1 .. Cardinality(kept) |-> Chirp!Preset(rows[Chirp!Nth(kept, n)])]
  BY ChirpCountAlike DEF Chirp!parse_chirp_csv, kept
<1>5. k \in 1 .. Cardinality(kept)
  BY <1>3, <1>4
<1>6. Chirp!Nth(kept, k) \in kept
  BY <1>1, <1>2, <1>5, NthIs
<1>7. Chirp!parse_chirp_csv(rows)[k] = Chirp!Preset(rows[Chirp!Nth(kept, k)])
  BY <1>4, <1>5
<1> QED
  BY <1>2, <1>6, <1>7

\* A merge keeps what the export does not name, where it stands.
LEMMA ChirpMerges ==
    ASSUME NEW list, NEW presets, Chirp!Listed(list), Chirp!Listed(presets)
    PROVE  /\ Chirp!Listed(Chirp!Merged(list, presets))
           /\ \A i \in 1 .. Len(list) :
                 \/ Chirp!Merged(list, presets)[i] = list[i]
                 \/ \E k \in 1 .. Len(presets) : presets[k].name = list[i].name
<1> DEFINE Names(i) == {k \in 1 .. Len(presets) : presets[k].name = list[i].name}
           new == {k \in 1 .. Len(presets) : \A i \in 1 .. Len(list) : k \notin Names(i)}
           place(i) == IF i > Len(list) THEN presets[Chirp!Nth(new, i - Len(list))]
                       ELSE IF Names(i) = {} THEN list[i]
                       ELSE presets[CHOOSE k \in Names(i) : TRUE]
<1>0. Len(presets) \in Int
  BY DEF Chirp!Listed
<1>1. IsFiniteSet(1 .. Len(presets))
  BY <1>0, FS_Interval
<1>2. new \subseteq 1 .. Len(presets)
  OBVIOUS
<1>3. Cardinality(new) \in Nat
  BY <1>1, <1>2, FS_Subset, FS_CardinalityType, ChirpCountAlike
<1>4. Chirp!Merged(list, presets) = [i \in 1 .. Len(list) + Cardinality(new) |-> place(i)]
  BY ChirpCountAlike DEF Chirp!Merged
<1>5. \A i \in 1 .. Len(list) : Names(i) = {} => place(i) = list[i]
  BY DEF Chirp!Listed
<1>6. Len(list) \in Nat
  BY DEF Chirp!Listed
<1> HIDE DEF new, place
<1>7. Chirp!Listed(Chirp!Merged(list, presets))
  BY <1>3, <1>4, <1>6 DEF Chirp!Listed
<1>8. ASSUME NEW i \in 1 .. Len(list), Names(i) = {}
      PROVE  Chirp!Merged(list, presets)[i] = list[i]
  BY <1>3, <1>4, <1>5, <1>6, <1>8
<1> QED
  BY <1>7, <1>8

\* At every moment and after any crash radio.toml is a whole file with a list
\* that the server starts with, and no import touches an entry it does not name.
THEOREM ImportsAreSafe ==
    ASSUME Chirp!ListsAssumption
    PROVE  Chirp!Spec => []Chirp!TheStationStarts /\ Chirp!OthersStay
<1>1. Chirp!Init => Chirp!IInv
  <2> SUFFICES ASSUME Chirp!Init
               PROVE  Chirp!IInv
    OBVIOUS
  <2>1. PICK f \in ChirpFiles : c1 = Chirp!Holds(f)
    BY DEF Chirp!Init
  <2>2. Chirp!Listed(f) /\ Chirp!Valid(f)
    BY <2>1 DEF Chirp!ListsAssumption
  <2>3. Chirp!Listed(c4)
    <3>1. c4 = << >> /\ Len(c4) = 0
      BY DEF Chirp!Init
    <3>2. Len(c4) \in Nat /\ 1 .. Len(c4) = {}
      BY <3>1
    <3>3. << >> = [i \in {} |-> c4[i]]
      OBVIOUS
    <3> QED
      BY <3>1, <3>2, <3>3, Zenon DEF Chirp!Listed
  <2>4. c4 = << >>
    BY DEF Chirp!Init
  <2> QED
    BY <2>1, <2>2, <2>3, <2>4 DEF Chirp!Init, Chirp!IInv, Chirp!Holds, Chirp!TheStationStarts, Chirp!UnderWay
<1>2. Chirp!IInv /\ [Chirp!Next]_(Chirp!vars) => Chirp!IInv' /\ (c1' # c1 => c1' = Chirp!Holds(Chirp!Merges))
  <2> SUFFICES ASSUME Chirp!IInv, [Chirp!Next]_(Chirp!vars)
               PROVE  Chirp!IInv' /\ (c1' # c1 => c1' = Chirp!Holds(Chirp!Merges))
    OBVIOUS
  <2>1. CASE Chirp!Validate
    <3>1. Chirp!Listed(c4') /\ c4' \in ChirpLists
      BY <2>1 DEF Chirp!Validate, Chirp!ListsAssumption
    <3>2. c6' \in {"backup", "idle"} /\ c1' = c1
      BY <2>1 DEF Chirp!Validate
    <3>3. c6' # "idle" => Chirp!Valid(Chirp!Merges')
      BY <2>1 DEF Chirp!Validate, Chirp!Merges, Chirp!Start
    <3> QED
      BY <3>1, <3>2, <3>3 DEF Chirp!IInv, Chirp!TheStationStarts, Chirp!UnderWay
  <2>2. CASE Chirp!Backup \/ Chirp!Copy \/ Chirp!Save \/ Chirp!Crash
    <3>1. /\ UNCHANGED <<c1, c4, c5>>
          /\ c6' \in {"idle", "copy", "save", "replace"}
          /\ c6 # "idle"
          /\ c6' = "save" => c3' = Chirp!Holds(c1.list)
          /\ c6' = "replace" => c3' = Chirp!Holds(Chirp!Merged(Chirp!Start(c3.list), Chirp!parse_chirp_csv(c4)))
                                /\ c6 = "save"
      BY <2>2 DEF Chirp!Backup, Chirp!Copy, Chirp!Save, Chirp!Crash, Chirp!Writes, Chirp!Ends, Chirp!IInv
    <3>2. c6 = "save" => c3.list = c1.list
      BY DEF Chirp!IInv, Chirp!UnderWay, Chirp!Holds
    <3>3. Chirp!Merges' = Chirp!Merges
      BY <3>1 DEF Chirp!Merges, Chirp!Start
    <3>4. c6' = "replace" => c3' = Chirp!Holds(Chirp!Merges)
      BY <3>1, <3>2 DEF Chirp!Merges, Chirp!Start
    <3> QED
      BY <3>1, <3>3, <3>4 DEF Chirp!IInv, Chirp!TheStationStarts, Chirp!UnderWay
  <2>3. CASE Chirp!Replace
    <3>1. c1' = Chirp!Holds(Chirp!Merges) /\ c6' = "idle" /\ c4' = c4 /\ Chirp!Valid(Chirp!Merges)
      BY <2>3 DEF Chirp!Replace, Chirp!IInv, Chirp!UnderWay
    <3>2. Chirp!Listed(Chirp!Merges)
      <4>1. Chirp!Listed(Chirp!Start(c1.list))
        BY DEF Chirp!Start, Chirp!IInv, Chirp!Listed
      <4> QED
        BY <4>1, ChirpParses, ChirpMerges DEF Chirp!Merges, Chirp!IInv
    <3> QED
      BY <3>1, <3>2 DEF Chirp!IInv, Chirp!Holds, Chirp!TheStationStarts, Chirp!UnderWay
  <2>4. CASE UNCHANGED Chirp!vars
    BY <2>4 DEF Chirp!vars, Chirp!IInv, Chirp!TheStationStarts, Chirp!UnderWay, Chirp!Merges, Chirp!Start
  <2> QED
    BY <2>1, <2>2, <2>3, <2>4 DEF Chirp!Next
<1>3. Chirp!IInv /\ [Chirp!Next]_(Chirp!vars) => [Chirp!KeepsTheOthers]_(Chirp!vars)
  <2> SUFFICES ASSUME Chirp!IInv, [Chirp!Next]_(Chirp!vars)
               PROVE  Chirp!KeepsTheOthers
    OBVIOUS
  <2>1. CASE c1' = c1
    BY <2>1 DEF Chirp!KeepsTheOthers
  <2>2. CASE c1' = Chirp!Holds(Chirp!Merges)
    <3>1. Chirp!Listed(c1.list) /\ Chirp!Listed(Chirp!parse_chirp_csv(c4))
      BY ChirpParses DEF Chirp!IInv
    <3>2. ~c5 => c1'.list = Chirp!Merged(c1.list, Chirp!parse_chirp_csv(c4))
      BY <2>2 DEF Chirp!Holds, Chirp!Merges, Chirp!Start
    <3> QED
      BY <3>1, <3>2, ChirpMerges DEF Chirp!KeepsTheOthers
  <2> QED
    BY <1>2, <2>1, <2>2
<1> QED
  BY <1>1, <1>2, <1>3, PTL DEF Chirp!Spec, Chirp!OthersStay, Chirp!IInv

\* No row of an export is approximated: what an import takes is the meaning of
\* the rows (chirp.parse_chirp_csv).
THEOREM ImportsGuessNothing ==
    ASSUME Chirp!ListsAssumption
    PROVE  Chirp!Spec => []Chirp!NothingIsGuessed
<1>1. Chirp!Init => c4 = << >> \/ c4 \in ChirpLists
  BY DEF Chirp!Init
<1>2. (c4 = << >> \/ c4 \in ChirpLists) /\ [Chirp!Next]_(Chirp!vars) => (c4 = << >> \/ c4 \in ChirpLists)'
  BY DEF Chirp!Next, Chirp!vars, Chirp!Validate, Chirp!Backup, Chirp!Copy, Chirp!Save, Chirp!Replace, Chirp!Crash
<1>3. c4 = << >> \/ c4 \in ChirpLists => Chirp!NothingIsGuessed
  <2> SUFFICES ASSUME c4 = << >> \/ c4 \in ChirpLists, NEW k \in 1 .. Len(Chirp!parse_chirp_csv(c4))
               PROVE  \E i \in 1 .. Len(c4) :
                         /\ Chirp!parse_chirp_csv(c4)[k].name = c4[i].name
                         /\ Chirp!Means(c4[i]) =
                              [listens   |-> Chirp!parse_chirp_csv(c4)[k].frequency,
                               transmits |-> IF Chirp!parse_chirp_csv(c4)[k].tx = Chirp!Absent
                                             THEN Chirp!parse_chirp_csv(c4)[k].frequency
                                             ELSE Chirp!parse_chirp_csv(c4)[k].tx,
                               sends     |-> Chirp!parse_chirp_csv(c4)[k].txTone]
    BY DEF Chirp!NothingIsGuessed
  <2>1. Chirp!Listed(c4)
    <3>1. CASE c4 = << >>
      <4>1. Len(c4) = 0 /\ 1 .. 0 = {}
        BY <3>1
      <4>2. << >> = [i \in {} |-> c4[i]]
        OBVIOUS
      <4> QED
        BY <3>1, <4>1, <4>2, Zenon DEF Chirp!Listed
    <3> QED
      BY <3>1 DEF Chirp!ListsAssumption
  <2>2. PICK i \in 1 .. Len(c4) : Chirp!Readable(c4[i]) /\ Chirp!parse_chirp_csv(c4)[k] = Chirp!Preset(c4[i])
    BY <2>1, ParsedAreRows
  <2>3. c4 \in ChirpLists
    <3>1. c4 = << >> => 1 .. Len(c4) = {}
      OBVIOUS
    <3> QED
      BY <3>1
  <2>4. Chirp!Sums(c4[i])
    BY <2>3 DEF Chirp!ListsAssumption
  <2> QED
    BY <2>2, <2>4, ReadAsMeant
<1> QED
  BY <1>1, <1>2, <1>3, PTL DEF Chirp!Spec

-----------------------------------------------------------------------------
(* Ledger: the station ledger. *)

CONSTANTS
    LogQueueSize, LogKeyers, LogMaxEvents, LogMaxTime, LogDiskFaults

Log == INSTANCE Ledger WITH
    QueueSize <- LogQueueSize, Keyers <- LogKeyers, MaxEvents <- LogMaxEvents,
    MaxTime <- LogMaxTime, DiskFaults <- LogDiskFaults,
    now <- c1, keyed <- c2, hub <- c3, keyupAt <- c4, queue <- c5, pen <- c6,
    count <- c7, file <- c8, at <- c9

-----------------------------------------------------------------------------
\* What is queued comes last, what is taken came first.
LEMMA AppendedLast ==
    ASSUME NEW S, NEW s \in Seq(S), NEW e \in S
    PROVE  /\ Append(s, e) \in Seq(S) /\ Len(Append(s, e)) = Len(s) + 1 /\ Len(s) \in Nat
           /\ DOMAIN s = 1 .. Len(s) /\ DOMAIN Append(s, e) = 1 .. Len(s) + 1
           /\ (\A i \in 1 .. Len(s) : Append(s, e)[i] = s[i]) /\ Append(s, e)[Len(s) + 1] = e
OBVIOUS

LEMMA TakenFirst ==
    ASSUME NEW S, NEW s \in Seq(S), s # << >>
    PROVE  /\ Head(s) = s[1] /\ s[1] \in S /\ Tail(s) \in Seq(S) /\ Len(s) \in Nat /\ Len(s) >= 1
           /\ Len(Tail(s)) = Len(s) - 1
           /\ DOMAIN s = 1 .. Len(s) /\ DOMAIN Tail(s) = 1 .. Len(s) - 1
           /\ (\A i \in 1 .. Len(s) - 1 : Tail(s)[i] = s[i + 1])
OBVIOUS

LEMMA StopIsARecord == ASSUME Log!LedgerAssumption PROVE Log!Stop \in Log!Records /\ Log!Stop.id = 0
BY DEF Log!Stop, Log!Records, Log!None, Log!LedgerAssumption

\* A record of an event is not the stop.
LEMMA SoundIsNotStop == ASSUME NEW r, Log!Sound(r) PROVE r # Log!Stop
BY DEF Log!Sound, Log!Stop

LEMMA HubKept ==
    ASSUME Log!HubIsOfNow, UNCHANGED <<c1, c2, c3, c4>>
    PROVE  Log!HubIsOfNow'
BY DEF Log!HubIsOfNow, Log!Timeline

LEMMA RecordsKept ==
    ASSUME Log!IInv, UNCHANGED <<c5, c6, c8>>, c7'.handled = c7.handled,
           c9 \in {"closing", "closed"} => c9' \in {"closing", "closed"}
    PROVE  Log!RecordsAreSound' /\ Log!RecordsAreInOrder' /\ Log!FileInOrder'
BY DEF Log!IInv, Log!RecordsAreSound, Log!RecordsAreInOrder, Log!FileInOrder, Log!Sound, Log!InPen

\* An event is appended: the line's history grows by what it says.
LEMMA HubGrows ==
    ASSUME Log!LedgerAssumption, Log!Typed, Log!HubIsOfNow, NEW e \in [type : Log!Types, ts : 0 .. LogMaxTime, true : 0 .. Log!None],
           c3' = Append(c3, e), UNCHANGED <<c1, c4>>,
           \A last \in (0 .. c1) \cup {Log!None} :
              (\A k \in LogKeyers : c2[k] = last) =>
                 \E next \in (0 .. c1) \cup {Log!None} :
                    /\ e.type = "up" => next = c1
                    /\ e.type = "else" => next = last
                    /\ e.type = "down" => next = Log!None /\ last # Log!None /\ e.true = c1 - last
                    /\ \A k \in LogKeyers : c2'[k] = next
    PROVE  Log!HubIsOfNow'
<1> DEFINE n == Len(c3)
<1>1. /\ n \in Nat /\ Len(c3') = n + 1 /\ c3'[n + 1] = e
      /\ \A i \in 1 .. n : c3'[i] = c3[i]
  BY AppendedLast DEF Log!Typed
<1>2. PICK since \in [0 .. n -> (0 .. c1) \cup {Log!None}] :
         Log!Timeline(since) /\ \A k \in LogKeyers : c2[k] = since[n]
  BY DEF Log!HubIsOfNow
<1> HIDE DEF n
<1>3. n \in 0 .. n /\ since[n] \in (0 .. c1) \cup {Log!None}
  BY <1>1, <1>2
<1>4. PICK next \in (0 .. c1) \cup {Log!None} :
         /\ e.type = "up" => next = c1
         /\ e.type = "else" => next = since[n]
         /\ e.type = "down" => next = Log!None /\ since[n] # Log!None /\ e.true = c1 - since[n]
         /\ \A k \in LogKeyers : c2'[k] = next
  BY <1>2, <1>3
<1> DEFINE grown == [i \in 0 .. n + 1 |-> IF i = n + 1 THEN next ELSE since[i]]
<1>5. grown \in [0 .. n + 1 -> (0 .. c1) \cup {Log!None}]
  BY <1>1, <1>2, <1>4
<1>6. grown[0] = since[0] /\ grown[n + 1] = next /\ \A i \in 0 .. n : grown[i] = since[i]
  BY <1>1
<1> HIDE DEF grown
<1>7. grown[0] = c4
  BY <1>2, <1>6 DEF Log!Timeline
<1>8. ASSUME NEW i \in 1 .. n + 1
      PROVE  /\ c3'[i].type = "up" => grown[i] = c1
             /\ c3'[i].type = "else" => grown[i] = grown[i - 1]
             /\ c3'[i].type = "down" =>
                   grown[i] = Log!None /\ grown[i - 1] # Log!None /\ c3'[i].true = c1 - grown[i - 1]
  <2>1. CASE i = n + 1
    <3>1. i - 1 = n
      BY <2>1, <1>1
    <3>2. grown[i - 1] = since[n] /\ grown[i] = next /\ c3'[i] = e
      BY <3>1, <2>1, <1>1, <1>3, <1>6
    <3> QED
      BY <3>2, <1>4
  <2>2. CASE i # n + 1
    <3>1. i \in 1 .. n /\ i \in 0 .. n /\ i - 1 \in 0 .. n
      BY <2>2, <1>1
    <3>2. grown[i] = since[i] /\ grown[i - 1] = since[i - 1] /\ c3'[i] = c3[i]
      BY <3>1, <1>1, <1>6
    <3> QED
      BY <3>1, <3>2, <1>2 DEF Log!Timeline, n
  <2> QED
    BY <2>1, <2>2
<1>9. Len(c3') = n + 1 /\ c1' = c1 /\ c4' = c4
  BY <1>1
<1>10. \A k \in LogKeyers : c2'[k] = grown[n + 1]
  BY <1>4, <1>6
<1> QED
  BY <1>5, <1>7, <1>8, <1>9, <1>10 DEF Log!HubIsOfNow, Log!Timeline

\* The first event is handled: _keyup_at is where the line's history goes on.
LEMMA HubShrinks ==
    ASSUME Log!LedgerAssumption, Log!Typed, Log!HubIsOfNow, Log!handle
    PROVE  /\ Log!HubIsOfNow' /\ c4' \in (0 .. c1) \cup {Log!None}
           /\ Head(c3).type = "down" => c4 # Log!None /\ Head(c3).true = c1 - c4
<1> DEFINE n == Len(c3)
<1>1. /\ n \in Nat /\ n >= 1 /\ Head(c3) = c3[1] /\ c3[1].type \in Log!Types
      /\ Len(c3') = n - 1 /\ \A i \in 1 .. n - 1 : c3'[i] = c3[i + 1]
  <2>1. c3 \in Seq([type : Log!Types, ts : 0 .. LogMaxTime, true : 0 .. Log!None]) /\ c3 # << >> /\ c3' = Tail(c3)
    BY DEF Log!Typed, Log!handle
  <2>2. c3[1] \in [type : Log!Types, ts : 0 .. LogMaxTime, true : 0 .. Log!None]
    BY <2>1, TakenFirst
  <2> QED
    BY <2>1, <2>2, TakenFirst
<1>2. PICK since \in [0 .. n -> (0 .. c1) \cup {Log!None}] :
         Log!Timeline(since) /\ \A k \in LogKeyers : c2[k] = since[n]
  BY DEF Log!HubIsOfNow
<1>3. 1 \in 1 .. n /\ 1 - 1 = 0 /\ c1 \in 0 .. c1
  BY <1>1 DEF Log!Typed, Log!LedgerAssumption
<1>4. /\ since[0] = c4
      /\ \A i \in 1 .. n : /\ c3[i].type = "up" => since[i] = c1
                           /\ c3[i].type = "else" => since[i] = since[i - 1]
                           /\ c3[i].type = "down" =>
                                since[i] = Log!None /\ since[i - 1] # Log!None /\ c3[i].true = c1 - since[i - 1]
  BY <1>2 DEF Log!Timeline
<1> HIDE DEF n
<1>5. /\ c3[1].type = "up" => since[1] = c1
      /\ c3[1].type = "else" => since[1] = c4
      /\ c3[1].type = "down" => since[1] = Log!None /\ c4 # Log!None /\ c3[1].true = c1 - c4
  BY <1>3, <1>4
<1>6. c4' = since[1]
  <2>1. /\ c3[1].type = "up" => c4' = c1
        /\ c3[1].type = "down" => c4' = Log!None
        /\ c3[1].type = "else" => c4' = c4
    BY <1>1 DEF Log!handle
  <2> QED
    BY <2>1, <1>1, <1>5 DEF Log!Types
<1> DEFINE shrunk == [i \in 0 .. n - 1 |-> since[i + 1]]
<1>7. /\ shrunk \in [0 .. n - 1 -> (0 .. c1) \cup {Log!None}] /\ shrunk[0] = since[1]
      /\ shrunk[n - 1] = since[n] /\ \A i \in 0 .. n - 1 : shrunk[i] = since[i + 1]
  BY <1>1, <1>2
<1> HIDE DEF shrunk
<1>8. ASSUME NEW i \in 1 .. n - 1
      PROVE  /\ c3'[i].type = "up" => shrunk[i] = c1
             /\ c3'[i].type = "else" => shrunk[i] = shrunk[i - 1]
             /\ c3'[i].type = "down" =>
                   shrunk[i] = Log!None /\ shrunk[i - 1] # Log!None /\ c3'[i].true = c1 - shrunk[i - 1]
  <2>1. PICK j \in 1 .. n : j = i + 1 /\ j - 1 = i /\ (i - 1) + 1 = i
    BY <1>1
  <2>2. i \in 0 .. n - 1 /\ i - 1 \in 0 .. n - 1
    BY <1>1
  <2>3. shrunk[i] = since[j] /\ c3'[i] = c3[j]
    BY <2>1, <2>2, <1>1, <1>7
  <2>4. shrunk[i - 1] = since[j - 1]
    BY <2>1, <2>2, <1>7
  <2> QED
    BY <2>3, <2>4, <1>4
<1>9. Len(c3') = n - 1 /\ c1' = c1 /\ c2' = c2
  BY <1>1 DEF Log!handle
<1>10. Log!HubIsOfNow'
  <2>1. shrunk[0] = c4' /\ \A k \in LogKeyers : c2'[k] = shrunk[n - 1]
    BY <1>2, <1>6, <1>7, <1>9 DEF n
  <2> QED
    BY <1>7, <1>8, <1>9, <2>1 DEF Log!HubIsOfNow, Log!Timeline
<1>11. c4' \in (0 .. c1) \cup {Log!None}
  BY <1>2, <1>3, <1>6
<1> QED
  BY <1>1, <1>5, <1>10, <1>11

\* The record of an event is the next one, and its time is its keyer's.
LEMMA RecordsFollow ==
    ASSUME Log!LedgerAssumption, Log!Typed, Log!HubIsOfNow, Log!handle
    PROVE  LET r == Log!_record_for(Head(c3)) IN
           /\ r \in Log!Records /\ r.id = c7.handled + 1 /\ (r.type = "down" => r.took = r.true)
<1>1. Head(c3) \in [type : Log!Types, ts : 0 .. LogMaxTime, true : 0 .. Log!None]
  <2>1. c3 \in Seq([type : Log!Types, ts : 0 .. LogMaxTime, true : 0 .. Log!None]) /\ c3 # << >>
    BY DEF Log!Typed, Log!handle
  <2> QED
    BY <2>1, TakenFirst
<1>2. PICK e \in [type : Log!Types, ts : 0 .. LogMaxTime, true : 0 .. Log!None] : e = Head(c3)
  BY <1>1
<1>3. e.type = "down" => c4 # Log!None /\ e.true = c1 - c4
  BY <1>2, HubShrinks
<1>4. c7.handled \in Nat /\ c1 \in 0 .. LogMaxTime /\ c4 \in (0 .. c1) \cup {Log!None} /\ LogMaxTime \in Nat
  BY DEF Log!Typed, Log!LedgerAssumption
<1>5. PICK t : t = IF e.type = "down" /\ c4 # Log!None THEN c1 - c4 ELSE Log!None
  OBVIOUS
<1>6. t \in 0 .. Log!None
  BY <1>4, <1>5 DEF Log!None
<1>7. PICK n \in Nat : n = c7.handled + 1
  BY <1>4
<1>8. Log!_record_for(Head(c3)) = [id |-> n, type |-> e.type, true |-> e.true, took |-> t]
  BY <1>2, <1>5, <1>7 DEF Log!_record_for
<1>9. [id |-> n, type |-> e.type, true |-> e.true, took |-> t] \in Log!Records
  BY <1>6 DEF Log!Records
<1>10. e.type = "down" => t = e.true
  BY <1>3, <1>5
<1> QED
  BY <1>7, <1>8, <1>9, <1>10

\* A record or the stop is queued behind those that are there.
LEMMA QueueGrows ==
    ASSUME Log!IInv, NEW r \in Log!Records, c5' = Append(c5, r), UNCHANGED <<c6, c8>>,
           c7'.handled \in Nat, c7'.handled >= c7.handled,
           \A i \in DOMAIN c5 : c5[i] # Log!Stop,
           r = Log!Stop => c9' \in {"closing", "closed"},
           r # Log!Stop => Log!Sound(r)' /\ r.id > c7.handled
    PROVE  Log!RecordsAreSound' /\ Log!RecordsAreInOrder' /\ Log!FileInOrder'
<1> DEFINE n == Len(c5)
<1>1. /\ n \in Nat /\ DOMAIN c5 = 1 .. n /\ DOMAIN c5' = 1 .. n + 1
      /\ (\A i \in 1 .. n : c5'[i] = c5[i]) /\ c5'[n + 1] = r
  BY AppendedLast DEF Log!IInv, Log!Typed
<1> HIDE DEF n
<1>2. \A i \in 1 .. n + 1 : i \in 1 .. n \/ i = n + 1
  BY <1>1
<1>3. c7.handled \in Nat
  BY DEF Log!IInv, Log!Typed
<1> DEFINE Before(q) == /\ q.id \in 1 .. c7'.handled /\ (q.type = "down" => q.took = q.true)
                        /\ r # Log!Stop => q.id < r.id
<1>4. \A q : Log!Sound(q) => Before(q)
  BY <1>3 DEF Log!Sound
<1> HIDE DEF Before
<1>5. \A i \in 1 .. n : Log!Sound(c5[i])
  BY <1>1 DEF Log!IInv, Log!RecordsAreSound
<1>6. \A i \in 1 .. n : Log!Sound(c5[i])' /\ (r # Log!Stop => c5[i].id < r.id)
  <2>1. \A i \in 1 .. n : Before(c5[i])
    BY <1>4, <1>5
  <2> QED
    BY <2>1, <1>1 DEF Log!Sound, Before
<1>7. \A i \in DOMAIN c8 : Log!Sound(c8[i])' /\ (r # Log!Stop => c8[i].id < r.id)
  <2>1. \A i \in DOMAIN c8 : Before(c8[i])
    BY <1>4 DEF Log!IInv, Log!RecordsAreSound
  <2> QED
    BY <2>1 DEF Log!Sound, Before
<1>8. Log!InPen => Log!Sound(c6.record)' /\ (r # Log!Stop => c6.record.id < r.id)
  <2>1. Log!InPen => Before(c6.record)
    BY <1>4 DEF Log!IInv, Log!RecordsAreSound
  <2> QED
    BY <2>1 DEF Log!Sound, Before
<1>9. Log!InPen' = Log!InPen /\ c6' = c6 /\ c8' = c8
  BY DEF Log!InPen
<1>10. Log!RecordsAreSound'
  <2>1. ASSUME NEW i \in DOMAIN c5'
        PROVE  c5'[i] = Log!Stop \/ Log!Sound(c5[i])'
    <3>1. CASE i \in 1 .. n
      BY <3>1, <1>6
    <3>2. CASE i = n + 1
      BY <3>2, <1>1 DEF Log!Sound
    <3> QED
      BY <3>1, <3>2, <1>1, <1>2
  <2>2. Log!InPen' => Log!Sound(c6.record)'
    BY <1>8, <1>9
  <2>3. \A i \in DOMAIN c8' : Log!Sound(c8[i])'
    BY <1>7, <1>9
  <2> QED
    BY <2>1, <2>2, <2>3 DEF Log!RecordsAreSound
<1>11. Log!RecordsAreInOrder'
  <2>1. ASSUME NEW i \in DOMAIN c5', NEW j \in DOMAIN c5', i < j
        PROVE  c5'[i] # Log!Stop /\ (c5'[j] = Log!Stop \/ c5'[i].id < c5'[j].id)
    <3>1. i \in 1 .. n
      BY <2>1, <1>1
    <3>2. c5'[i] = c5[i] /\ c5[i] # Log!Stop
      BY <3>1, <1>1
    <3>3. CASE j \in 1 .. n
      BY <3>1, <3>2, <3>3, <2>1, <1>1 DEF Log!IInv, Log!RecordsAreInOrder
    <3>4. CASE j = n + 1
      BY <3>1, <3>2, <3>4, <1>1, <1>6
    <3> QED
      BY <3>3, <3>4, <1>1, <1>2
  <2>2. ASSUME NEW j \in DOMAIN c5'
        PROVE  /\ c5'[j] = Log!Stop => c9' \in {"closing", "closed"}
               /\ c5'[j] # Log!Stop => /\ Log!InPen => c6.record.id < c5'[j].id
                                       /\ \A i \in DOMAIN c8 : c8[i].id < c5'[j].id
    <3>1. CASE j \in 1 .. n
      <4>1. c5'[j] = c5[j] /\ c5[j] # Log!Stop /\ j \in DOMAIN c5
        BY <3>1, <1>1
      <4> QED
        BY <4>1 DEF Log!IInv, Log!RecordsAreInOrder
    <3>2. CASE j = n + 1
      BY <3>2, <1>1, <1>7, <1>8
    <3> QED
      BY <3>1, <3>2, <1>1, <1>2
  <2>3. Log!InPen => \A i \in DOMAIN c8 : c8[i].id < c6.record.id
    BY DEF Log!IInv, Log!RecordsAreInOrder
  <2> QED
    BY <2>1, <2>2, <2>3, <1>9 DEF Log!RecordsAreInOrder
<1>12. Log!FileInOrder'
  BY DEF Log!IInv, Log!FileInOrder
<1> QED
  BY <1>10, <1>11, <1>12

\* With one keyer and a clock, a line of the file has the time its keyer was
\* keyed for, and the lines are in the order of the events: whatever is dropped,
\* whenever the writer hangs, the disk is full or the ledger is closed.
THEOREM LedgerIsTrue ==
    ASSUME Log!LedgerAssumption, Log!OneKeyer
    PROVE  Log!Spec => [](Log!FileInOrder /\ Log!DurationIsTrue)
<1>n. LogQueueSize \in Nat /\ LogMaxTime \in Nat /\ Log!None = LogMaxTime + 1
  BY DEF Log!LedgerAssumption, Log!None
<1>1. Log!Init => Log!IInv
  <2> SUFFICES ASSUME Log!Init
               PROVE  Log!IInv
    OBVIOUS
  <2>1. c3 = << >> /\ c5 = << >> /\ c8 = << >> /\ c4 = Log!None /\ c1 = 0 /\ c6.at = "get"
    BY DEF Log!Init
  <2>2. Len(<< >>) = 0 /\ 1 .. 0 = {} /\ DOMAIN << >> = {}
    OBVIOUS
  <2>3. Log!Typed
    <3>1. c6 \in [at : {"get", "write", "hung", "done"}, record : Log!Records]
      BY StopIsARecord DEF Log!Init
    <3>2. c7 \in [published : Nat, handled : Nat, dropped : Nat, errors : Nat]
      BY DEF Log!Init
    <3>3. c2 \in [LogKeyers -> (0 .. c1) \cup {Log!None}] /\ c1 \in 0 .. LogMaxTime
      BY <1>n DEF Log!Init
    <3>4. << >> \in Seq(Log!Records) /\ << >> \in Seq([type : Log!Types, ts : 0 .. LogMaxTime, true : 0 .. Log!None])
      OBVIOUS
    <3> QED
      BY <2>1, <3>1, <3>2, <3>3, <3>4 DEF Log!Typed
  <2>4. Log!HubIsOfNow
    <3>1. PICK since : since = [i \in 0 .. 0 |-> Log!None]
      OBVIOUS
    <3>2. since \in [0 .. Len(c3) -> (0 .. c1) \cup {Log!None}] /\ since[0] = Log!None
      BY <2>1, <2>2, <3>1
    <3>3. Log!Timeline(since)
      BY <2>1, <2>2, <3>2 DEF Log!Timeline
    <3>4. \A k \in LogKeyers : c2[k] = since[Len(c3)]
      BY <2>1, <2>2, <3>2 DEF Log!Init
    <3> QED
      BY <3>2, <3>3, <3>4 DEF Log!HubIsOfNow
  <2> QED
    BY <2>1, <2>2, <2>3, <2>4 DEF Log!IInv, Log!RecordsAreSound, Log!RecordsAreInOrder, Log!FileInOrder, Log!InPen
<1>2. Log!IInv /\ [Log!Next]_(Log!vars) => Log!IInv'
  <2> SUFFICES ASSUME Log!IInv, [Log!Next]_(Log!vars)
               PROVE  Log!IInv'
    OBVIOUS
  <2>0. Log!Typed /\ Log!HubIsOfNow
    BY DEF Log!IInv
  <2>1. ASSUME c3 = << >>, Log!Ticks
        PROVE  Log!IInv'
    <3>1. c1 \in 0 .. LogMaxTime /\ c1 < LogMaxTime /\ c1' = c1 + 1 /\ UNCHANGED <<c2, c3, c4, c5, c6, c7, c8, c9>>
      BY <2>0, <2>1 DEF Log!Ticks, Log!Typed
    <3>2. c1' \in 0 .. LogMaxTime /\ (0 .. c1) \cup {Log!None} \subseteq (0 .. c1') \cup {Log!None}
      BY <3>1, <1>n
    <3>3. Log!Typed'
      BY <3>1, <3>2, <2>0 DEF Log!Typed
    <3>4. PICK since \in [0 .. Len(c3) -> (0 .. c1) \cup {Log!None}] :
             Log!Timeline(since) /\ \A k \in LogKeyers : c2[k] = since[Len(c3)]
      BY <2>0 DEF Log!HubIsOfNow
    <3>5. Len(c3) = 0 /\ Len(c3') = 0 /\ 1 .. Len(c3') = {}
      BY <2>1, <3>1
    <3>6. Log!HubIsOfNow'
      BY <3>1, <3>2, <3>4, <3>5 DEF Log!HubIsOfNow, Log!Timeline
    <3> QED
      BY <3>1, <3>3, <3>6, RecordsKept DEF Log!IInv
  <2>2. ASSUME NEW type \in Log!Types, NEW true \in 0 .. Log!None, Log!Publishes(type, true),
               c2' \in [LogKeyers -> (0 .. c1) \cup {Log!None}],
               \A last \in (0 .. c1) \cup {Log!None} :
                  (\A k \in LogKeyers : c2[k] = last) =>
                     \E next \in (0 .. c1) \cup {Log!None} :
                        /\ type = "up" => next = c1
                        /\ type = "else" => next = last
                        /\ type = "down" => next = Log!None /\ last # Log!None /\ true = c1 - last
                        /\ \A k \in LogKeyers : c2'[k] = next
        PROVE  Log!IInv'
    <3>1. PICK e : e = [type |-> type, ts |-> c1, true |-> true]
      OBVIOUS
    <3>2. e \in [type : Log!Types, ts : 0 .. LogMaxTime, true : 0 .. Log!None] /\ e.type = type /\ e.true = true
      BY <2>0, <3>1 DEF Log!Typed
    <3>3. c3' = Append(c3, e) /\ UNCHANGED <<c1, c4, c5, c6, c8, c9>>
      BY <2>2, <3>1 DEF Log!Publishes
    <3>4. c7' \in [published : Nat, handled : Nat, dropped : Nat, errors : Nat] /\ c7'.handled = c7.handled
      <4>1. c7 \in [published : Nat, handled : Nat, dropped : Nat, errors : Nat]
        BY <2>0 DEF Log!Typed
      <4>2. c7' = [c7 EXCEPT !.published = @ + 1]
        BY <2>2 DEF Log!Publishes
      <4> QED
        BY <4>1, <4>2
    <3>5. c3' \in Seq([type : Log!Types, ts : 0 .. LogMaxTime, true : 0 .. Log!None])
      BY <2>0, <3>2, <3>3, AppendedLast DEF Log!Typed
    <3>6. Log!Typed'
      BY <2>0, <2>2, <3>3, <3>4, <3>5 DEF Log!Typed
    <3>7. Log!HubIsOfNow'
      BY <2>0, <2>2, <3>2, <3>3, HubGrows
    <3> QED
      BY <3>3, <3>4, <3>6, <3>7, RecordsKept DEF Log!IInv
  <2>3. ASSUME NEW k \in LogKeyers, Log!Keys(k)
        PROVE  Log!IInv'
    <3>1. \A j \in LogKeyers : j = k
      BY DEF Log!OneKeyer
    <3>2. c1 \in 0 .. c1 /\ c1 \in 0 .. LogMaxTime /\ Log!None \in 0 .. Log!None /\ c2 \in [LogKeyers -> (0 .. c1) \cup {Log!None}]
      BY <2>0, <1>n DEF Log!Typed
    <3>3. CASE c2[k] = Log!None
      <4>1. c2' = [c2 EXCEPT ![k] = c1] /\ Log!Publishes("up", Log!None)
        BY <2>3, <3>3 DEF Log!Keys
      <4>2. c2' \in [LogKeyers -> (0 .. c1) \cup {Log!None}] /\ \A j \in LogKeyers : c2'[j] = c1
        BY <4>1, <3>1, <3>2
      <4> QED
        BY <4>1, <4>2, <3>2, <2>2 DEF Log!Types
    <3>4. CASE c2[k] # Log!None
      <4>1. c2' = [c2 EXCEPT ![k] = Log!None] /\ Log!Publishes("down", c1 - c2[k])
        BY <2>3, <3>4 DEF Log!Keys
      <4>2. c2' \in [LogKeyers -> (0 .. c1) \cup {Log!None}] /\ \A j \in LogKeyers : c2'[j] = Log!None
        BY <4>1, <3>1, <3>2
      <4>3. PICK t \in 0 .. Log!None : t = c1 - c2[k]
        <5>1. c2[k] \in 0 .. c1
          BY <3>2, <3>4
        <5> QED
          BY <5>1, <3>2, <1>n
      <4>4. Log!Publishes("down", t)
        BY <4>1, <4>3
      <4>5. \A last : (\A j \in LogKeyers : c2[j] = last) => last = c2[k]
        OBVIOUS
      <4> QED
        BY <4>2, <4>3, <4>4, <4>5, <3>4, <2>2 DEF Log!Types
    <3> QED
      BY <3>3, <3>4
  <2>4. ASSUME Log!Else
        PROVE  Log!IInv'
    <3>1. Log!Publishes("else", Log!None) /\ c2' = c2 /\ Log!None \in 0 .. Log!None
      BY <2>4, <1>n DEF Log!Else
    <3>2. c2' \in [LogKeyers -> (0 .. c1) \cup {Log!None}]
      BY <2>0, <3>1 DEF Log!Typed
    <3> QED
      BY <3>1, <3>2, <2>2 DEF Log!Types
  <2>5. ASSUME Log!handle
        PROVE  Log!IInv'
    <3>1. PICK r : r = Log!_record_for(Head(c3))
      OBVIOUS
    <3>2. r \in Log!Records /\ r.id = c7.handled + 1 /\ (r.type = "down" => r.took = r.true)
      BY <2>0, <2>5, <3>1, RecordsFollow
    <3>3. /\ c5' = IF Len(c5) < LogQueueSize THEN Append(c5, r) ELSE c5
          /\ UNCHANGED <<c1, c2, c6, c8, c9>> /\ c9 \in {"up", "draining"}
      BY <2>5, <3>1 DEF Log!handle, Log!write
    <3>4. /\ c7' \in [published : Nat, handled : Nat, dropped : Nat, errors : Nat]
          /\ c7'.handled = c7.handled + 1 /\ c7.handled \in Nat
      <4>1. c7 \in [published : Nat, handled : Nat, dropped : Nat, errors : Nat]
        BY <2>0 DEF Log!Typed
      <4>2. \/ c7' = [c7 EXCEPT !.handled = @ + 1, !.dropped = @]
            \/ c7' = [c7 EXCEPT !.handled = @ + 1, !.dropped = @ + 1]
        BY <2>5 DEF Log!handle, Log!write
      <4>3. c7.handled + 1 \in Nat /\ c7.dropped + 1 \in Nat
        BY <4>1
      <4>4. CASE c7' = [c7 EXCEPT !.handled = @ + 1, !.dropped = @]
        BY <4>1, <4>3, <4>4
      <4>5. CASE c7' = [c7 EXCEPT !.handled = @ + 1, !.dropped = @ + 1]
        BY <4>1, <4>3, <4>5
      <4> QED
        BY <4>2, <4>4, <4>5
    <3>5. c3' \in Seq([type : Log!Types, ts : 0 .. LogMaxTime, true : 0 .. Log!None])
      BY <2>0, <2>5, TakenFirst DEF Log!handle, Log!Typed
    <3>6. Log!HubIsOfNow' /\ c4' \in (0 .. c1) \cup {Log!None}
      BY <2>0, <2>5, HubShrinks
    <3>7. c5' \in Seq(Log!Records)
      BY <2>0, <3>2, <3>3, AppendedLast DEF Log!Typed
    <3>8. Log!Typed'
      BY <2>0, <3>3, <3>4, <3>5, <3>6, <3>7 DEF Log!Typed
    <3>9. \A i \in DOMAIN c5 : c5[i] # Log!Stop
      BY <3>3 DEF Log!IInv, Log!RecordsAreInOrder
    <3>10. Log!Sound(r)' /\ r # Log!Stop
      BY <3>2, <3>4, SoundIsNotStop DEF Log!Sound, Log!Stop
    <3>11. Log!RecordsAreSound' /\ Log!RecordsAreInOrder' /\ Log!FileInOrder'
      <4>1. CASE Len(c5) < LogQueueSize
        <5>1. c5' = Append(c5, r)
          BY <4>1, <3>3
        <5>2. r.id > c7.handled /\ c7'.handled >= c7.handled /\ c7'.handled \in Nat
          BY <3>2, <3>4
        <5> QED
          BY <5>1, <5>2, <3>2, <3>3, <3>9, <3>10, QueueGrows
      <4>2. CASE ~(Len(c5) < LogQueueSize)
        <5>1. UNCHANGED <<c5, c6, c8, c9>>
          BY <4>2, <3>3
        <5>2. ASSUME NEW q, Log!Sound(q)
              PROVE  Log!Sound(q)'
          BY <5>2, <3>4 DEF Log!Sound
        <5>3. Log!RecordsAreSound'
          BY <5>1, <3>4 DEF Log!IInv, Log!RecordsAreSound, Log!Sound, Log!InPen
        <5> QED
          BY <5>1, <5>3 DEF Log!IInv, Log!RecordsAreInOrder, Log!FileInOrder, Log!InPen
      <4> QED
        BY <4>1, <4>2
    <3> QED
      BY <3>6, <3>8, <3>11 DEF Log!IInv
  <2>6. ASSUME Log!Shutdown
        PROVE  Log!IInv'
    <3>1. UNCHANGED <<c1, c2, c3, c4, c5, c6, c7, c8>> /\ c9 = "up"
      BY <2>6 DEF Log!Shutdown
    <3>2. Log!Typed'
      BY <2>0, <3>1 DEF Log!Typed
    <3>3. Log!HubIsOfNow'
      BY <2>0, <3>1, HubKept
    <3> QED
      BY <3>1, <3>2, <3>3, RecordsKept DEF Log!IInv
  <2>7. ASSUME Log!close
        PROVE  Log!IInv'
    <3>1. UNCHANGED <<c1, c2, c3, c4, c6, c7, c8>> /\ c9 = "draining" /\ c9' = "closing"
      BY <2>7 DEF Log!close
    <3>2. c5' = IF Len(c5) < LogQueueSize THEN Append(c5, Log!Stop) ELSE c5
      BY <2>7 DEF Log!close
    <3>3. c5' \in Seq(Log!Records)
      BY <2>0, <3>2, AppendedLast, StopIsARecord DEF Log!Typed
    <3>4. Log!Typed'
      BY <2>0, <3>1, <3>3 DEF Log!Typed
    <3>5. Log!HubIsOfNow'
      BY <2>0, <3>1, HubKept
    <3>6. CASE Len(c5) < LogQueueSize
      <4>1. c5' = Append(c5, Log!Stop)
        BY <3>2, <3>6
      <4>2. \A i \in DOMAIN c5 : c5[i] # Log!Stop
        BY <3>1 DEF Log!IInv, Log!RecordsAreInOrder
      <4>3. c7'.handled \in Nat /\ c7'.handled >= c7.handled
        BY <2>0, <3>1 DEF Log!Typed
      <4> QED
        BY <3>1, <3>4, <3>5, <4>1, <4>2, <4>3, QueueGrows, StopIsARecord DEF Log!IInv
    <3>7. CASE ~(Len(c5) < LogQueueSize)
      BY <3>1, <3>2, <3>4, <3>5, <3>7, RecordsKept DEF Log!IInv
    <3> QED
      BY <3>6, <3>7
  <2>8. ASSUME Log!Joined
        PROVE  Log!IInv'
    <3>1. UNCHANGED <<c1, c2, c3, c4, c5, c6, c8>> /\ c9' = "closed"
      BY <2>8 DEF Log!Joined
    <3>2. Len(c5) \in Nat
      BY <2>0 DEF Log!Typed
    <3>3. c7' \in [published : Nat, handled : Nat, dropped : Nat, errors : Nat] /\ c7'.handled = c7.handled
      <4>1. CASE UNCHANGED c7
        BY <4>1, <2>0 DEF Log!Typed
      <4>2. CASE c7' = [c7 EXCEPT !.dropped = @ + Len(c5)]
        <5>1. c7 \in [published : Nat, handled : Nat, dropped : Nat, errors : Nat]
          BY <2>0 DEF Log!Typed
        <5>2. c7.dropped + Len(c5) \in Nat
          BY <5>1, <3>2
        <5> QED
          BY <4>2, <5>1, <5>2
      <4> QED
        BY <4>1, <4>2, <2>8 DEF Log!Joined
    <3>4. Log!Typed'
      BY <2>0, <3>1, <3>3 DEF Log!Typed
    <3>5. Log!HubIsOfNow'
      BY <2>0, <3>1, HubKept
    <3> QED
      BY <3>1, <3>3, <3>4, <3>5, RecordsKept DEF Log!IInv
  <2>9. ASSUME Log!Takes
        PROVE  Log!IInv'
    <3> DEFINE n == Len(c5)
    <3>1. UNCHANGED <<c1, c2, c3, c4, c7, c8, c9>> /\ c6.at = "get" /\ c5 # << >> /\ c5' = Tail(c5)
      BY <2>9 DEF Log!Takes
    <3>2. /\ Head(c5) = c5[1] /\ c5[1] \in Log!Records /\ c5' \in Seq(Log!Records) /\ n \in Nat /\ n >= 1
          /\ DOMAIN c5 = 1 .. n /\ DOMAIN c5' = 1 .. n - 1
          /\ (\A i \in 1 .. n - 1 : c5'[i] = c5[i + 1])
      BY <2>0, <3>1, TakenFirst DEF Log!Typed
    <3>3. c6' \in [at : {"get", "write", "hung", "done"}, record : Log!Records]
      BY <2>0, <2>9, <3>2 DEF Log!Takes, Log!Typed
    <3>4. Log!Typed'
      BY <2>0, <3>1, <3>2, <3>3 DEF Log!Typed
    <3>5. Log!HubIsOfNow'
      BY <2>0, <3>1, HubKept
    <3> HIDE DEF n
    <3>6. ASSUME NEW i \in DOMAIN c5'
          PROVE  i + 1 \in DOMAIN c5 /\ 1 \in DOMAIN c5 /\ 1 < i + 1 /\ c5'[i] = c5[i + 1]
      BY <3>2
    <3>7. c5[1] = Log!Stop => c5' = << >>
      <4>1. ASSUME n # 1, c5[1] = Log!Stop
            PROVE  FALSE
        <5>1. 1 \in DOMAIN c5 /\ 2 \in DOMAIN c5 /\ 1 < 2
          BY <4>1, <3>2
        <5> QED
          BY <4>1, <5>1 DEF Log!IInv, Log!RecordsAreInOrder
      <4>2. n = 1 => Len(Tail(c5)) = 0
        BY <3>2, <3>1, <2>0 DEF n, Log!Typed
      <4> QED
        BY <4>1, <4>2, <3>1, <3>2
    <3>8. Log!RecordsAreSound' /\ Log!RecordsAreInOrder' /\ Log!FileInOrder'
      <4>1. CASE c5[1] = Log!Stop
        <5>1. ~Log!InPen' /\ DOMAIN c5' = {} /\ c8' = c8 /\ c7' = c7
          BY <4>1, <3>1, <3>2, <3>7, <2>9 DEF Log!Takes, Log!InPen
        <5>2. \A q : Log!Sound(q)' <=> Log!Sound(q)
          BY <3>1 DEF Log!Sound
        <5> QED
          BY <5>1, <5>2 DEF Log!IInv, Log!RecordsAreSound, Log!RecordsAreInOrder, Log!FileInOrder, Log!Sound
      <4>2. CASE c5[1] # Log!Stop
        <5>1. c6' = [at |-> "write", record |-> c5[1]]
          BY <4>2, <3>2, <2>9 DEF Log!Takes
        <5>2. c6'.at = "write" /\ c6'.record = c5[1] /\ Log!InPen' /\ 1 \in DOMAIN c5
          BY <5>1, <3>2 DEF Log!InPen
        <5>3. Log!RecordsAreSound'
          <6>1. \A i \in DOMAIN c5' : c5'[i] = Log!Stop \/ Log!Sound(c5'[i])
            BY <3>6 DEF Log!IInv, Log!RecordsAreSound
          <6>2. Log!Sound(c6'.record) /\ \A i \in DOMAIN c8 : Log!Sound(c8[i])
            BY <4>2, <5>2 DEF Log!IInv, Log!RecordsAreSound
          <6> QED
            BY <6>1, <6>2, <3>1 DEF Log!RecordsAreSound, Log!Sound
        <5>4. Log!RecordsAreInOrder'
          <6>1. ASSUME NEW i \in DOMAIN c5', NEW j \in DOMAIN c5', i < j
                PROVE  c5'[i] # Log!Stop /\ (c5'[j] = Log!Stop \/ c5'[i].id < c5'[j].id)
            <7>1. i + 1 < j + 1
              BY <6>1, <3>2
            <7> QED
              BY <7>1, <3>6 DEF Log!IInv, Log!RecordsAreInOrder
          <6>2. ASSUME NEW j \in DOMAIN c5'
                PROVE  /\ c5'[j] = Log!Stop => c9 \in {"closing", "closed"}
                       /\ c5'[j] # Log!Stop => /\ c5[1].id < c5'[j].id
                                               /\ \A i \in DOMAIN c8 : c8[i].id < c5'[j].id
            BY <3>6 DEF Log!IInv, Log!RecordsAreInOrder
          <6>3. \A i \in DOMAIN c8 : c8[i].id < c5[1].id
            BY <4>2, <5>2 DEF Log!IInv, Log!RecordsAreInOrder
          <6> QED
            BY <6>1, <6>2, <6>3, <5>2, <3>1 DEF Log!RecordsAreInOrder
        <5> QED
          BY <5>3, <5>4, <3>1 DEF Log!IInv, Log!FileInOrder
      <4> QED
        BY <4>1, <4>2
    <3> QED
      BY <3>4, <3>5, <3>8 DEF Log!IInv
  <2>10. ASSUME Log!Writes
         PROVE  Log!IInv'
    <3>1. /\ UNCHANGED <<c1, c2, c3, c4, c5, c9>> /\ c6.at = "write" /\ c6' = [c6 EXCEPT !.at = "get"]
          /\ \/ c8' = Append(c8, c6.record) /\ UNCHANGED c7
             \/ c7' = [c7 EXCEPT !.errors = @ + 1] /\ UNCHANGED c8
      BY <2>10 DEF Log!Writes
    <3>2. /\ c6' \in [at : {"get", "write", "hung", "done"}, record : Log!Records] /\ c6'.at = "get" /\ ~Log!InPen' /\ Log!InPen
          /\ c6.record \in Log!Records
      BY <2>0, <3>1 DEF Log!Typed, Log!InPen
    <3>3. c7' \in [published : Nat, handled : Nat, dropped : Nat, errors : Nat] /\ c7'.handled = c7.handled
      BY <2>0, <3>1 DEF Log!Typed
    <3>4. Log!HubIsOfNow'
      BY <2>0, <3>1, HubKept
    <3>5. \A q : Log!Sound(q)' <=> Log!Sound(q)
      BY <3>3 DEF Log!Sound
    <3>6. CASE UNCHANGED c8
      <4>1. Log!Typed'
        BY <2>0, <3>1, <3>2, <3>3, <3>6 DEF Log!Typed
      <4>2. Log!RecordsAreSound' /\ Log!RecordsAreInOrder' /\ Log!FileInOrder'
        BY <3>1, <3>2, <3>3, <3>6 DEF Log!IInv, Log!RecordsAreSound, Log!RecordsAreInOrder, Log!FileInOrder, Log!Sound
      <4> QED
        BY <3>4, <4>1, <4>2 DEF Log!IInv
    <3>7. CASE c8' = Append(c8, c6.record)
      <4> DEFINE n == Len(c8)
      <4>1. /\ n \in Nat /\ DOMAIN c8 = 1 .. n /\ DOMAIN c8' = 1 .. n + 1 /\ c8' \in Seq(Log!Records)
            /\ (\A i \in 1 .. n : c8'[i] = c8[i]) /\ c8'[n + 1] = c6.record
        BY <2>0, <3>2, <3>7, AppendedLast DEF Log!Typed
      <4> HIDE DEF n
      <4>2. \A i \in 1 .. n + 1 : i \in 1 .. n \/ i = n + 1
        BY <4>1
      <4>3. Log!Typed'
        BY <2>0, <3>1, <3>2, <3>3, <4>1 DEF Log!Typed
      <4>4. \A i \in 1 .. n : Log!Sound(c8[i]) /\ c8[i].id < c6.record.id
        BY <3>2, <4>1 DEF Log!IInv, Log!RecordsAreSound, Log!RecordsAreInOrder
      <4>5. Log!Sound(c6.record)
        BY <3>2 DEF Log!IInv, Log!RecordsAreSound
      <4>6. \A i \in DOMAIN c8' : Log!Sound(c8'[i])
        BY <4>1, <4>2, <4>4, <4>5
      <4>7. Log!RecordsAreSound'
        BY <3>1, <3>2, <3>3, <4>6 DEF Log!IInv, Log!RecordsAreSound, Log!Sound
      <4>8. ASSUME NEW j \in DOMAIN c5, c5[j] # Log!Stop
            PROVE  \A i \in DOMAIN c8' : c8'[i].id < c5[j].id
        <5>1. c6.record.id < c5[j].id /\ \A i \in DOMAIN c8 : c8[i].id < c5[j].id
          BY <3>2, <4>8 DEF Log!IInv, Log!RecordsAreInOrder
        <5> QED
          BY <5>1, <4>1, <4>2
      <4>9. Log!RecordsAreInOrder'
        BY <3>1, <3>2, <4>8 DEF Log!IInv, Log!RecordsAreInOrder
      <4>10. ASSUME NEW i \in DOMAIN c8', NEW j \in DOMAIN c8', i < j
             PROVE  c8'[i].id < c8'[j].id
        <5>1. i \in 1 .. n /\ c8'[i] = c8[i]
          BY <4>1, <4>10
        <5>2. CASE j \in 1 .. n
          BY <5>1, <5>2, <4>1, <4>10 DEF Log!IInv, Log!FileInOrder
        <5>3. CASE j = n + 1
          BY <5>1, <5>3, <4>1, <4>4
        <5> QED
          BY <5>2, <5>3, <4>1, <4>2
      <4> QED
        BY <3>4, <4>3, <4>7, <4>9, <4>10 DEF Log!IInv, Log!FileInOrder
    <3> QED
      BY <3>1, <3>6, <3>7
  <2>11. ASSUME Log!Hangs
         PROVE  Log!IInv'
    <3>1. /\ UNCHANGED <<c1, c2, c3, c4, c5, c7, c8, c9>> /\ c6.at = "write"
          /\ c6' = [c6 EXCEPT !.at = "hung"]
      BY <2>11 DEF Log!Hangs
    <3>2. /\ c6' \in [at : {"get", "write", "hung", "done"}, record : Log!Records] /\ c6'.record = c6.record
          /\ Log!InPen' /\ Log!InPen
      BY <2>0, <3>1 DEF Log!Typed, Log!InPen
    <3>3. Log!Typed'
      BY <2>0, <3>1, <3>2 DEF Log!Typed
    <3>4. Log!HubIsOfNow'
      BY <2>0, <3>1, HubKept
    <3>5. Log!RecordsAreSound' /\ Log!RecordsAreInOrder' /\ Log!FileInOrder'
      BY <3>1, <3>2 DEF Log!IInv, Log!RecordsAreSound, Log!RecordsAreInOrder, Log!FileInOrder, Log!Sound
    <3> QED
      BY <3>3, <3>4, <3>5 DEF Log!IInv
  <2>12. CASE UNCHANGED Log!vars
    <3>1. UNCHANGED <<c1, c2, c3, c4, c5, c6, c7, c8, c9>>
      BY <2>12 DEF Log!vars
    <3>2. Log!Typed'
      BY <2>0, <3>1 DEF Log!Typed
    <3>3. Log!HubIsOfNow'
      BY <2>0, <3>1, HubKept
    <3> QED
      BY <3>1, <3>2, <3>3, RecordsKept DEF Log!IInv
  <2> QED
    BY <2>1, <2>3, <2>4, <2>5, <2>6, <2>7, <2>8, <2>9, <2>10, <2>11, <2>12 DEF Log!Next
<1>3. Log!IInv => Log!FileInOrder /\ Log!DurationIsTrue
  BY DEF Log!IInv, Log!RecordsAreSound, Log!Sound, Log!DurationIsTrue
<1> QED
  BY <1>1, <1>2, <1>3, PTL DEF Log!Spec

-----------------------------------------------------------------------------
(* EventStream: the status events and their sockets. *)

CONSTANTS
    EventsClients, EventsDrains, EventsRoutes, EventsQueueSize, EventsMaxChanges,
    EventsMaxDeaths

Events == INSTANCE EventStream WITH
    Clients <- EventsClients, Drains <- EventsDrains, Routes <- EventsRoutes,
    QueueSize <- EventsQueueSize, MaxChanges <- EventsMaxChanges,
    MaxDeaths <- EventsMaxDeaths, Overlaps <- FALSE,
    radio <- c1, sub <- c2, pub <- c3, reader <- c4, alarms <- c5, raised <- c6

\* A queue ends in the status last put into it, and its alarms count up.
LEMMA KindsDiffer ==
    /\ Events!Alarm \in Events!Deliverable /\ Events!Overflow \notin Events!Deliverable
    /\ \A v \in Nat : Events!Status(v) \in Events!Deliverable /\ Events!Status(v) # Events!Alarm /\ Events!Status(v) # Events!Overflow /\ Events!Status(v).v = v
    /\ \A e \in Events!Deliverable : e # Events!Alarm => e.v \in Nat /\ e = Events!Status(e.v)
<1>1. \A v \in Nat : Events!Status(v) # Events!Alarm /\ Events!Status(v) # Events!Overflow /\ Events!Status(v).v = v
  <2> TAKE v \in Nat
  <2>1. Events!Status(v).kind = "status" /\ Events!Alarm.kind = "alarm" /\ Events!Overflow.kind = "overflow"
    BY DEF Events!Alarm, Events!Overflow, Events!Status
  <2>2. Events!Status(v).v = v
    BY DEF Events!Status
  <2> QED
    BY <2>1, <2>2
<1>2. Events!Alarm # Events!Overflow
  <2>1. Events!Alarm.kind = "alarm" /\ Events!Overflow.kind = "overflow"
    BY DEF Events!Alarm, Events!Overflow
  <2> QED
    BY <2>1
<1> HIDE DEF Events!Alarm, Events!Overflow, Events!Status
<1>3. \A v \in Nat : Events!Status(v) \in Events!Deliverable
  BY DEF Events!Deliverable, Events!Statuses
<1>4. \A e \in Events!Deliverable : e = Events!Alarm \/ \E v \in Nat : e = Events!Status(v)
  BY DEF Events!Deliverable, Events!Statuses
<1>5. Events!Overflow \notin Events!Deliverable /\ Events!Alarm \in Events!Deliverable
  BY <1>1, <1>2 DEF Events!Deliverable, Events!Statuses
<1>6. \A e \in Events!Deliverable : e # Events!Alarm => e.v \in Nat /\ e = Events!Status(e.v)
  BY <1>1, <1>4
<1> QED
  BY <1>1, <1>3, <1>5, <1>6

LEMMA NothingQueued ==
    ASSUME NEW shown, NEW v, NEW heard \in Int, NEW n
    PROVE  /\ Events!Ends(<< >>, shown, v) <=> shown = v
           /\ Events!Sums(<< >>, heard, n) <=> heard = n
<1>1. DOMAIN << >> = {} /\ Len(<< >>) = 0 /\ 1 .. 0 = {} /\ 0 .. 0 = {0}
  OBVIOUS
<1>2. Events!Ends(<< >>, shown, v) <=> shown = v
  BY <1>1 DEF Events!Ends
<1>3. ASSUME heard = n
      PROVE  Events!Sums(<< >>, heard, n)
  <2> DEFINE f == [i \in 0 .. 0 |-> heard]
  <2>1. f \in [0 .. 0 -> Int] /\ f[0] = heard
    OBVIOUS
  <2> QED
    BY <1>1, <1>3, <2>1 DEF Events!Sums
<1>4. Events!Sums(<< >>, heard, n) => heard = n
  BY <1>1 DEF Events!Sums
<1> QED
  BY <1>2, <1>3, <1>4

LEMMA EndsAppended ==
    ASSUME NEW q \in Seq(Events!Deliverable), NEW e \in Events!Deliverable, NEW shown, NEW v \in Nat,
           e = Events!Status(v) \/ (e = Events!Alarm /\ Events!Ends(q, shown, v))
    PROVE  Events!Ends(Append(q, e), shown, v)
<1> DEFINE a == Append(q, e)
<1>1. /\ DOMAIN a = 1 .. Len(q) + 1 /\ DOMAIN q = 1 .. Len(q) /\ Len(q) \in Nat
      /\ a[Len(q) + 1] = e /\ \A i \in 1 .. Len(q) : a[i] = q[i]
  OBVIOUS
<1> HIDE DEF a
<1>2. CASE e = Events!Status(v)
  <2>1. Len(q) + 1 \in DOMAIN a /\ \A j \in DOMAIN a : ~(j > Len(q) + 1)
    BY <1>1
  <2> QED
    BY <1>1, <1>2, <2>1 DEF Events!Ends, a
<1>3. CASE e = Events!Alarm /\ Events!Ends(q, shown, v)
  <2>1. CASE (\A i \in DOMAIN q : q[i] = Events!Alarm) /\ shown = v
    <3>1. \A i \in DOMAIN a : a[i] = Events!Alarm
      BY <1>1, <1>3, <2>1
    <3> QED
      BY <2>1, <3>1 DEF Events!Ends, a
  <2>2. CASE \E i \in DOMAIN q : q[i] = Events!Status(v) /\ \A j \in DOMAIN q : j > i => q[j] = Events!Alarm
    <3>1. PICK i \in DOMAIN q : q[i] = Events!Status(v) /\ \A j \in DOMAIN q : j > i => q[j] = Events!Alarm
      BY <2>2
    <3>2. i \in DOMAIN a /\ a[i] = Events!Status(v)
      BY <1>1, <3>1
    <3>3. \A j \in DOMAIN a : j > i => a[j] = Events!Alarm
      BY <1>1, <1>3, <3>1
    <3> QED
      BY <3>2, <3>3 DEF Events!Ends, a
  <2> QED
    BY <1>3, <2>1, <2>2 DEF Events!Ends
<1> QED
  BY <1>2, <1>3

LEMMA EndsTaken ==
    ASSUME NEW q \in Seq(Events!Deliverable), q # << >>, NEW shown, NEW v \in Nat, Events!Ends(q, shown, v)
    PROVE  Events!Ends(Tail(q), IF Head(q) = Events!Alarm THEN shown ELSE Head(q).v, v)
<1> DEFINE t == Tail(q)
           sh == IF Head(q) = Events!Alarm THEN shown ELSE Head(q).v
<1>1. /\ DOMAIN t = 1 .. Len(q) - 1 /\ DOMAIN q = 1 .. Len(q) /\ Len(q) \in Nat \ {0}
      /\ Head(q) = q[1] /\ \A i \in 1 .. Len(q) - 1 : t[i] = q[i + 1]
  OBVIOUS
<1> HIDE DEF t
<1>2. CASE (\A i \in DOMAIN q : q[i] = Events!Alarm) /\ shown = v
  <2>1. \A i \in DOMAIN t : t[i] = Events!Alarm
    BY <1>1, <1>2
  <2>2. sh = v
    BY <1>1, <1>2
  <2> QED
    BY <2>1, <2>2 DEF Events!Ends, t
<1>3. CASE \E i \in DOMAIN q : q[i] = Events!Status(v) /\ \A j \in DOMAIN q : j > i => q[j] = Events!Alarm
  <2>1. PICK i \in DOMAIN q : q[i] = Events!Status(v) /\ \A j \in DOMAIN q : j > i => q[j] = Events!Alarm
    BY <1>3
  <2>2. CASE i = 1
    <3>1. \A j \in DOMAIN t : t[j] = Events!Alarm
      BY <1>1, <2>1, <2>2
    <3>2. sh = v
      BY <1>1, <2>1, <2>2, KindsDiffer
    <3> QED
      BY <3>1, <3>2 DEF Events!Ends, t
  <2>3. CASE i # 1
    <3>1. i - 1 \in DOMAIN t /\ t[i - 1] = Events!Status(v)
      BY <1>1, <2>1, <2>3
    <3>2. \A j \in DOMAIN t : j > i - 1 => t[j] = Events!Alarm
      <4> TAKE j \in DOMAIN t
      <4> HAVE j > i - 1
      <4>1. j \in 1 .. Len(q) - 1 /\ i \in 1 .. Len(q)
        BY <1>1
      <4>2. j + 1 \in DOMAIN q /\ j + 1 > i
        BY <1>1, <4>1
      <4> QED
        BY <1>1, <2>1, <4>1, <4>2
    <3> QED
      BY <3>1, <3>2 DEF Events!Ends, t
  <2> QED
    BY <2>2, <2>3
<1> QED
  BY <1>2, <1>3 DEF Events!Ends

LEMMA SumsAppended ==
    ASSUME NEW q \in Seq(Events!Deliverable), NEW e \in Events!Deliverable, NEW heard \in Int, NEW n \in Int,
           Events!Sums(q, heard, n)
    PROVE  Events!Sums(Append(q, e), heard, IF e = Events!Alarm THEN n + 1 ELSE n)
<1> DEFINE a == Append(q, e)
           m == IF e = Events!Alarm THEN n + 1 ELSE n
<1>1. /\ Len(a) = Len(q) + 1 /\ Len(q) \in Nat
      /\ a[Len(q) + 1] = e /\ \A i \in 1 .. Len(q) : a[i] = q[i]
  OBVIOUS
<1>2. PICK f \in [0 .. Len(q) -> Int] :
         /\ f[0] = heard /\ f[Len(q)] = n
         /\ \A i \in 1 .. Len(q) : f[i] = IF q[i] = Events!Alarm THEN f[i - 1] + 1 ELSE f[i - 1]
  BY DEF Events!Sums
<1> HIDE DEF a
<1> DEFINE g == [i \in 0 .. Len(a) |-> IF i <= Len(q) THEN f[i] ELSE m]
<1>3. g \in [0 .. Len(a) -> Int] /\ (\A i \in 0 .. Len(q) : g[i] = f[i]) /\ g[Len(a)] = m
  BY <1>1, <1>2
<1> HIDE DEF g
<1>4. \A i \in 1 .. Len(a) : g[i] = IF a[i] = Events!Alarm THEN g[i - 1] + 1 ELSE g[i - 1]
  <2> TAKE i \in 1 .. Len(a)
  <2>1. CASE i <= Len(q)
    <3>1. i \in 1 .. Len(q) /\ i \in 0 .. Len(q) /\ i - 1 \in 0 .. Len(q)
      BY <1>1, <2>1
    <3>2. a[i] = q[i] /\ g[i] = f[i] /\ g[i - 1] = f[i - 1]
      BY <1>1, <1>3, <3>1
    <3> QED
      BY <1>2, <3>1, <3>2
  <2>2. CASE i = Len(q) + 1
    <3>1. i - 1 = Len(q) /\ g[i - 1] = n /\ g[i] = m /\ a[i] = e
      BY <1>1, <1>2, <1>3, <2>2
    <3> QED
      BY <3>1
  <2> QED
    BY <1>1, <2>1, <2>2
<1>5. g[0] = heard
  BY <1>1, <1>2, <1>3
<1> QED
  BY <1>3, <1>4, <1>5 DEF Events!Sums, a

LEMMA SumsTaken ==
    ASSUME NEW q \in Seq(Events!Deliverable), q # << >>, NEW heard \in Int, NEW n \in Int,
           Events!Sums(q, heard, n)
    PROVE  Events!Sums(Tail(q), IF Head(q) = Events!Alarm THEN heard + 1 ELSE heard, n)
<1> DEFINE t == Tail(q)
<1>1. /\ Len(t) = Len(q) - 1 /\ Len(q) \in Nat \ {0}
      /\ Head(q) = q[1] /\ \A i \in 1 .. Len(q) - 1 : t[i] = q[i + 1]
  OBVIOUS
<1>2. PICK f \in [0 .. Len(q) -> Int] :
         /\ f[0] = heard /\ f[Len(q)] = n
         /\ \A i \in 1 .. Len(q) : f[i] = IF q[i] = Events!Alarm THEN f[i - 1] + 1 ELSE f[i - 1]
  BY DEF Events!Sums
<1> HIDE DEF t
<1> DEFINE g == [i \in 0 .. Len(t) |-> f[i + 1]]
<1>3. g \in [0 .. Len(t) -> Int] /\ \A i \in 0 .. Len(t) : g[i] = f[i + 1]
  BY <1>1, <1>2
<1> HIDE DEF g
<1>4. \A i \in 1 .. Len(t) : g[i] = IF t[i] = Events!Alarm THEN g[i - 1] + 1 ELSE g[i - 1]
  <2> TAKE i \in 1 .. Len(t)
  <2>1. g[i] = f[i + 1] /\ g[i - 1] = f[i] /\ t[i] = q[i + 1] /\ i + 1 \in 1 .. Len(q)
    BY <1>1, <1>3
  <2>2. (i + 1) - 1 = i
    OBVIOUS
  <2> QED
    BY <1>2, <2>1, <2>2
<1>5. g[Len(t)] = n
  BY <1>1, <1>2, <1>3
<1>6. g[0] = IF Head(q) = Events!Alarm THEN heard + 1 ELSE heard
  <2>1. g[0] = f[1] /\ 1 \in 1 .. Len(q) /\ 1 - 1 = 0
    BY <1>1, <1>3
  <2> QED
    BY <1>1, <1>2, <2>1
<1> QED
  BY <1>3, <1>4, <1>5, <1>6 DEF Events!Sums, t

LEMMA IdleIs ==
    /\ Events!Idle \in Events!Publishings
    /\ Events!Idle.at = "idle" /\ Events!Idle.event = Events!Status(0) /\ Events!Idle.todo = {} /\ Events!Idle.who = {}
    /\ [Events!Idle EXCEPT !.at = "changed"] \in Events!Publishings
    /\ [Events!Idle EXCEPT !.at = "changed"].at = "changed" /\ [Events!Idle EXCEPT !.at = "changed"].event = Events!Status(0)
    /\ [Events!Idle EXCEPT !.at = "changed"].todo = {} /\ [Events!Idle EXCEPT !.at = "changed"].who = {}
<1>1. Events!Status(0) \in Events!Deliverable
  BY KindsDiffer
<1> QED
  BY <1>1 DEF Events!Idle, Events!Publishings

LEMMA OffIs ==
    Events!Off \in Events!Subscriptions /\ Events!Off.at = "off" /\ Events!Off.queue = << >>
<1>1. << >> \in Seq(Events!Statuses \cup {Events!Alarm, Events!Overflow}) /\ 0 \in Nat /\ 0 \in Int
  OBVIOUS
<1> QED
  BY <1>1 DEF Events!Off, Events!Subscriptions

\* While one publishes, what is still to come is what it has in hand.
LEMMA OnePublisher ==
    ASSUME NEW P, NEW p \in Events!Publishers, \A r \in Events!Publishers : r # p => P[r] = Events!Idle, NEW c, NEW v
    PROVE  /\ (\E r \in Events!Publishers : P[r].at = "changed" \/ (P[r].event = Events!Status(v) /\ c \in P[r].todo \cup P[r].who))
                <=> P[p].at = "changed" \/ (P[p].event = Events!Status(v) /\ c \in P[p].todo \cup P[p].who)
           /\ (\E r \in Events!Publishers : P[r].event = Events!Alarm /\ c \in P[r].todo \cup P[r].who)
                <=> P[p].event = Events!Alarm /\ c \in P[p].todo \cup P[p].who
<1>1. \A r \in Events!Publishers : r # p => P[r].at # "changed" /\ P[r].todo \cup P[r].who = {}
  BY IdleIs
<1> QED
  BY <1>1

LEMMA OthersAreIdle ==
    ASSUME Events!OneAtATime, NEW p \in Events!Publishers, c3[p] # Events!Idle
    PROVE  /\ \A r \in Events!Publishers : r # p => c3[r] = Events!Idle
           /\ \A c : Events!ToCome(c) <=> c3[p].at = "changed" \/ (c3[p].event = Events!Status(c1) /\ c \in c3[p].todo \cup c3[p].who)
           /\ \A c : Events!OnItsWay(c) <=> c3[p].event = Events!Alarm /\ c \in c3[p].todo \cup c3[p].who
<1>1. \A r \in Events!Publishers : r # p => c3[r] = Events!Idle
  BY DEF Events!OneAtATime
<1>2. \A r \in Events!Publishers : r # p => c3[r].at # "changed" /\ c3[r].todo \cup c3[r].who = {}
  BY <1>1, IdleIs
<1>3. \A c : Events!ToCome(c) <=> c3[p].at = "changed" \/ (c3[p].event = Events!Status(c1) /\ c \in c3[p].todo \cup c3[p].who)
  BY <1>2 DEF Events!ToCome
<1>4. \A c : Events!OnItsWay(c) <=> c3[p].event = Events!Alarm /\ c \in c3[p].todo \cup c3[p].who
  BY <1>2 DEF Events!OnItsWay
<1> QED
  BY <1>1, <1>3, <1>4

LEMMA SameServed ==
    ASSUME NEW c, Events!Served(c), c2'[c] = c2[c], UNCHANGED <<c1, c5>>,
           Events!ToCome(c) => Events!ToCome(c)', Events!OnItsWay(c)' <=> Events!OnItsWay(c)
    PROVE  Events!Served(c)'
BY DEF Events!Served

LEMMA AllIdle ==
    ASSUME \A p \in Events!Publishers : c3[p] = Events!Idle, NEW c
    PROVE  ~Events!ToCome(c) /\ ~Events!OnItsWay(c)
BY IdleIs, KindsDiffer DEF Events!ToCome, Events!OnItsWay

LEMMA ChangesKeeps ==
    ASSUME Events!IInv, NEW r \in EventsRoutes, Events!Changes(r)
    PROVE  Events!IInv'
<1>1. r \in Events!Publishers /\ \A p \in Events!Publishers : c3[p] = Events!Idle
  BY DEF Events!Changes, Events!Alone, Events!Publishers
<1>2. \A p \in Events!Publishers : c3'[p] = IF p = r THEN [Events!Idle EXCEPT !.at = "changed"] ELSE Events!Idle
  BY <1>1 DEF Events!Changes, Events!IInv, Events!Typed
<1>3. Events!Typed'
  <2>1. c3' \in [Events!Publishers -> Events!Publishings]
    BY <1>1, <1>2, IdleIs DEF Events!Changes, Events!IInv, Events!Typed
  <2> QED
    BY <2>1 DEF Events!Changes, Events!IInv, Events!Typed
<1>4. Events!OneAtATime'
  BY <1>1, <1>2, IdleIs DEF Events!OneAtATime, Events!Live
<1>5. ASSUME NEW c \in EventsClients, ~c6', c \in Events!Live'
      PROVE  Events!Served(c)'
  <2>1. Events!Served(c) /\ ~Events!OnItsWay(c)
    BY <1>5, <1>1, AllIdle DEF Events!Changes, Events!IInv, Events!Live
  <2>2. Events!ToCome(c)'
    BY <1>1, <1>2, IdleIs DEF Events!ToCome
  <2>3. ~Events!OnItsWay(c)'
    BY <1>1, <1>2, IdleIs, KindsDiffer DEF Events!OnItsWay
  <2> QED
    BY <2>1, <2>2, <2>3 DEF Events!Served, Events!Changes
<1> QED
  BY <1>3, <1>4, <1>5 DEF Events!IInv

LEMMA StatusKeeps ==
    ASSUME Events!IInv, NEW r \in EventsRoutes, Events!status_event(r)
    PROVE  Events!IInv'
<1> DEFINE X == [at |-> "put", event |-> Events!Status(c1), todo |-> Events!Live, who |-> {}]
<1>1. r \in Events!Publishers /\ c3[r] # Events!Idle
  BY IdleIs DEF Events!status_event, Events!Publishers
<1>2. X \in Events!Publishings /\ X.at = "put" /\ X.event = Events!Status(c1) /\ X.todo = Events!Live /\ X.who = {}
  <2>1. Events!Live \in SUBSET Events!Subscribers /\ Events!Status(c1) \in Events!Deliverable
    BY KindsDiffer DEF Events!Live, Events!IInv, Events!Typed
  <2> QED
    BY <2>1 DEF Events!Publishings
<1>3. c3' = [c3 EXCEPT ![r] = X]
  BY DEF Events!status_event
<1> HIDE DEF X
<1>4. c3' \in [Events!Publishers -> Events!Publishings] /\ \A p \in Events!Publishers : c3'[p] = IF p = r THEN X ELSE c3[p]
  BY <1>1, <1>2, <1>3 DEF Events!IInv, Events!Typed
<1>5. \A p \in Events!Publishers : p # r => c3[p] = Events!Idle /\ c3'[p] = Events!Idle
  BY <1>1, <1>4, OthersAreIdle DEF Events!IInv
<1>6. Events!Typed'
  BY <1>4 DEF Events!status_event, Events!IInv, Events!Typed
<1>7. Events!Live' = Events!Live
  BY DEF Events!Live, Events!status_event
<1>8. Events!OneAtATime'
  BY <1>1, <1>2, <1>4, <1>5, <1>7, IdleIs DEF Events!OneAtATime, Events!status_event
<1>9. ASSUME NEW c \in EventsClients, ~c6', c \in Events!Live'
      PROVE  Events!Served(c)'
  <2>1. Events!Served(c) /\ c3[r].at = "changed"
    BY <1>7, <1>9 DEF Events!status_event, Events!IInv
  <2>2. ~Events!OnItsWay(c)
    <3>1. c3[r].event = Events!Status(0)
      BY <1>1, <2>1, IdleIs DEF Events!IInv, Events!OneAtATime
    <3> QED
      BY <1>1, <3>1, OthersAreIdle, KindsDiffer DEF Events!IInv
  <2>3. Events!ToCome(c)' /\ ~Events!OnItsWay(c)'
    <3>1. c3'[r] = X /\ c \in Events!Live
      BY <1>1, <1>4, <1>7, <1>9
    <3>2. c1' = c1 /\ Events!Status(c1) # Events!Alarm
      BY KindsDiffer DEF Events!status_event, Events!IInv, Events!Typed
    <3> QED
      BY <1>1, <1>2, <1>5, <3>1, <3>2, OnePublisher DEF Events!ToCome, Events!OnItsWay
  <2> QED
    BY <2>1, <2>2, <2>3, SameServed DEF Events!status_event
<1> QED
  BY <1>6, <1>8, <1>9 DEF Events!IInv

LEMMA PublishKeeps ==
    ASSUME Events!IInv, NEW p \in Events!Publishers, Events!publish(p)
    PROVE  Events!IInv'
<1>1. c3[p] # Events!Idle /\ c3[p].at = "put" /\ c3[p].who = {} /\ c3[p] \in Events!Publishings
      /\ c3[p].event \in {Events!Alarm, Events!Status(c1)} /\ c3[p].event \in Events!Deliverable
  BY IdleIs DEF Events!publish, Events!IInv, Events!Typed, Events!OneAtATime, Events!Publishings
<1>2. PICK s \in c3[p].todo :
         \/ /\ c2' = [c2 EXCEPT ![s].queue = Append(@, c3[p].event)]
            /\ c3' = [c3 EXCEPT ![p].todo = @ \ {s}]
         \/ /\ c3' = [c3 EXCEPT ![p].who = {s}, ![p].todo = @ \ {s}]
            /\ UNCHANGED c2
  BY DEF Events!publish
<1>3. UNCHANGED <<c1, c5, c6>>
  BY DEF Events!publish
<1>4. s \in Events!Live /\ s \in Events!Subscribers /\ c2[s] \in Events!Subscriptions
      /\ c2[s].queue \in Seq(Events!Statuses \cup {Events!Alarm, Events!Overflow}) /\ c2[s].at = "live"
  BY <1>1, <1>2 DEF Events!IInv, Events!Typed, Events!OneAtATime, Events!Live, Events!Subscriptions
<1>5. \A r \in Events!Publishers : r # p => c3[r] = Events!Idle
  BY <1>1, OthersAreIdle DEF Events!IInv
<1>6. /\ c3' \in [Events!Publishers -> Events!Publishings] /\ \A r \in Events!Publishers : r # p => c3'[r] = Events!Idle
      /\ c3'[p].at = "put" /\ c3'[p].event = c3[p].event /\ c3'[p].todo = c3[p].todo \ {s}
      /\ c3'[p].who \in {{}, {s}}
      /\ c3'[p].who = {} \/ UNCHANGED c2
  <2>1. CASE c3' = [c3 EXCEPT ![p].todo = @ \ {s}]
    BY <1>1, <1>2, <1>5, <2>1 DEF Events!IInv, Events!Typed, Events!Publishings
  <2>2. CASE c3' = [c3 EXCEPT ![p].who = {s}, ![p].todo = @ \ {s}] /\ UNCHANGED c2
    BY <1>1, <1>2, <1>4, <1>5, <2>2 DEF Events!IInv, Events!Typed, Events!Publishings
  <2> QED
    BY <1>2, <2>1, <2>2
<1>7. \/ UNCHANGED c2 /\ c3'[p].who = {s}
      \/ /\ c3'[p].who = {} /\ c2' \in [Events!Subscribers -> Events!Subscriptions]
         /\ c2'[s].queue = Append(c2[s].queue, c3[p].event)
         /\ c2'[s].at = "live" /\ c2'[s].shown = c2[s].shown /\ c2'[s].heard = c2[s].heard
         /\ c2'[s].base = c2[s].base
         /\ \A c \in Events!Subscribers : c # s => c2'[c] = c2[c]
  <2>1. CASE c2' = [c2 EXCEPT ![s].queue = Append(@, c3[p].event)]
             /\ c3' = [c3 EXCEPT ![p].todo = @ \ {s}]
    <3>1. Append(c2[s].queue, c3[p].event) \in Seq(Events!Statuses \cup {Events!Alarm, Events!Overflow})
      BY <1>1, <1>4 DEF Events!Deliverable
    <3>2. c2' \in [Events!Subscribers -> Events!Subscriptions]
      BY <1>4, <2>1, <3>1 DEF Events!IInv, Events!Typed, Events!Subscriptions
    <3>3. c3'[p].who = {}
      BY <1>1, <2>1 DEF Events!IInv, Events!Typed
    <3> QED
      BY <1>4, <2>1, <3>2, <3>3 DEF Events!IInv, Events!Typed, Events!Subscriptions
  <2>2. CASE c3' = [c3 EXCEPT ![p].who = {s}, ![p].todo = @ \ {s}] /\ UNCHANGED c2
    BY <1>1, <2>2 DEF Events!IInv, Events!Typed, Events!Publishings
  <2> QED
    BY <1>2, <2>1, <2>2
<1>8. Events!Typed'
  BY <1>3, <1>6, <1>7 DEF Events!IInv, Events!Typed
<1>9. Events!Live' = Events!Live
  BY <1>4, <1>7 DEF Events!Live, Events!IInv, Events!Typed
<1>10. Events!OneAtATime'
  <2>1. c3'[p].todo \cup c3'[p].who \subseteq Events!Live'
    BY <1>1, <1>4, <1>6, <1>9 DEF Events!IInv, Events!OneAtATime
  <2>2. \A c \in c3'[p].who : c3'[p].who = {c} /\ c \notin c3'[p].todo
    BY <1>6
  <2> QED
    BY <1>1, <1>3, <1>6, <2>1, <2>2, IdleIs DEF Events!OneAtATime
<1>11. ASSUME NEW c \in EventsClients, ~c6', c \in Events!Live'
       PROVE  Events!Served(c)'
  <2>1. Events!Served(c) /\ c \in Events!Subscribers
    BY <1>3, <1>9, <1>11 DEF Events!IInv, Events!Subscribers
  <2>2. /\ Events!ToCome(c) <=> c3[p].event = Events!Status(c1) /\ c \in c3[p].todo
        /\ Events!OnItsWay(c) <=> c3[p].event = Events!Alarm /\ c \in c3[p].todo
    BY <1>1, OthersAreIdle DEF Events!IInv
  <2>3. /\ Events!ToCome(c)' <=> c3[p].event = Events!Status(c1) /\ c \in c3'[p].todo \cup c3'[p].who
        /\ Events!OnItsWay(c)' <=> c3[p].event = Events!Alarm /\ c \in c3'[p].todo \cup c3'[p].who
    <3>1. \A r \in Events!Publishers : r # p => c3'[r].at # "changed" /\ c3'[r].todo \cup c3'[r].who = {}
      BY <1>6, IdleIs
    <3>2. c3'[p].at # "changed" /\ c3'[p].event = c3[p].event
      BY <1>6
    <3> QED
      BY <1>3, <3>1, <3>2 DEF Events!ToCome, Events!OnItsWay
  <2>4. CASE c # s \/ UNCHANGED c2
    <3>1. c2'[c] = c2[c]
      BY <1>7, <2>1, <2>4
    <3>2. c \in c3'[p].todo \cup c3'[p].who <=> c \in c3[p].todo
      BY <1>1, <1>2, <1>6, <1>7, <2>4
    <3> QED
      BY <1>3, <2>1, <2>2, <2>3, <3>1, <3>2, SameServed
  <2>5. CASE c = s /\ c3'[p].who = {} /\ c2'[s].queue = Append(c2[s].queue, c3[p].event)
             /\ c2'[s].shown = c2[s].shown /\ c2'[s].heard = c2[s].heard /\ c2'[s].base = c2[s].base
    <3> DEFINE q == c2[c].queue
               e == c3[p].event
               n == c5 - c2[c].base - (IF Events!OnItsWay(c) THEN 1 ELSE 0)
    <3>1. q \in Seq(Events!Deliverable) /\ e \in Events!Deliverable /\ c2[c].heard \in Int /\ n \in Int /\ c1 \in Nat
          /\ c5 \in Int /\ c2[c].base \in Int
      <4>1. \A i \in DOMAIN q : q[i] \in Events!Deliverable
        BY <2>1 DEF Events!Served
      <4>2. q \in Seq(Events!Statuses \cup {Events!Alarm, Events!Overflow}) /\ c2[c].heard \in Int /\ c5 \in Int
            /\ c2[c].base \in Int /\ c1 \in Nat
        BY <2>1 DEF Events!IInv, Events!Typed, Events!Subscriptions
      <4> QED
        BY <1>1, <4>1, <4>2
    <3>2. c2'[c].queue = Append(q, e) /\ \A i \in DOMAIN Append(q, e) : Append(q, e)[i] \in Events!Deliverable
      BY <2>5, <3>1
    <3>3. Events!Sums(Append(q, e), c2[c].heard, IF e = Events!Alarm THEN n + 1 ELSE n)
      BY <2>1, <3>1, SumsAppended DEF Events!Served
    <3>4. ~Events!OnItsWay(c)' /\ ~Events!ToCome(c)' /\ (Events!OnItsWay(c) <=> e = Events!Alarm) /\ (Events!ToCome(c) <=> e = Events!Status(c1))
      BY <1>2, <1>6, <2>2, <2>3, <2>5
    <3>5. (IF e = Events!Alarm THEN n + 1 ELSE n) = c5 - c2[c].base
      BY <3>1, <3>4
    <3>6. Events!Ends(Append(q, e), c2[c].shown, c1)
      <4>1. e = Events!Status(c1) \/ (e = Events!Alarm /\ Events!Ends(q, c2[c].shown, c1))
        BY <1>1, <2>1, <3>1, <3>4, KindsDiffer DEF Events!Served
      <4> QED
        BY <3>1, <4>1, EndsAppended
    <3>7. Events!Sums(Append(q, e), c2[c].heard, c5 - c2[c].base)
      BY <3>3, <3>5
    <3>8. c5' - c2'[c].base - (IF Events!OnItsWay(c)' THEN 1 ELSE 0) = c5 - c2[c].base
      BY <1>3, <2>5, <3>1, <3>4
    <3> HIDE DEF q, e, n
    <3> QED
      BY <1>3, <2>5, <3>2, <3>6, <3>7, <3>8 DEF Events!Served
  <2> QED
    BY <1>7, <2>4, <2>5
<1> QED
  BY <1>8, <1>10, <1>11 DEF Events!IInv

LEMMA DropKeeps ==
    ASSUME Events!IInv, EventsClients \cap EventsDrains = {}, NEW p \in Events!Publishers, Events!DropsSubscriber(p) \/ Events!DropsOldest(p)
    PROVE  Events!IInv'
<1>1. c3[p] # Events!Idle /\ c3[p].at = "put" /\ c3[p] \in Events!Publishings
      /\ c3[p].event \in {Events!Alarm, Events!Status(c1)} /\ c3[p].event \in Events!Deliverable
  <2>1. c3[p].who # {} /\ c3[p] \in Events!Publishings
    BY DEF Events!DropsSubscriber, Events!DropsOldest, Events!IInv, Events!Typed
  <2>2. c3[p].at = "put"
    BY <2>1, IdleIs DEF Events!IInv, Events!OneAtATime
  <2> QED
    BY <2>1, <2>2, IdleIs DEF Events!IInv, Events!OneAtATime, Events!Publishings
<1>2. UNCHANGED <<c1, c5>>
  BY DEF Events!DropsSubscriber, Events!DropsOldest
<1>3. PICK s \in c3[p].who : c3[p].who = {s} /\ s \in Events!Live /\ s \in Events!Subscribers /\ s \notin c3[p].todo
         /\ c2[s] \in Events!Subscriptions
  <2>1. PICK s \in c3[p].who : TRUE
    BY DEF Events!DropsSubscriber, Events!DropsOldest
  <2> QED
    BY <2>1 DEF Events!IInv, Events!Typed, Events!OneAtATime, Events!Live
<1>4. \A r \in Events!Publishers : r # p => c3[r] = Events!Idle
  BY <1>1, OthersAreIdle DEF Events!IInv
<1>5. CASE Events!DropsSubscriber(p) \/ (Events!DropsOldest(p) /\ ~(c6' /\ UNCHANGED c2))
  <2>1. /\ c3' \in [Events!Publishers -> Events!Publishings] /\ \A r \in Events!Publishers : r # p => c3'[r] = Events!Idle
        /\ c3'[p].at = "put" /\ c3'[p].event = c3[p].event /\ c3'[p].todo = c3[p].todo
        /\ c3'[p].who = {}
    <3>1. c3' = [c3 EXCEPT ![p].who = {}]
      BY <1>5 DEF Events!DropsSubscriber, Events!DropsOldest
    <3> QED
      <4>1. c3 \in [Events!Publishers -> Events!Publishings] /\ c3[p] \in Events!Publishings
        BY <1>1 DEF Events!IInv, Events!Typed
      <4>2. /\ [c3[p] EXCEPT !.who = {}] \in Events!Publishings /\ [c3[p] EXCEPT !.who = {}].at = c3[p].at
            /\ [c3[p] EXCEPT !.who = {}].event = c3[p].event /\ [c3[p] EXCEPT !.who = {}].todo = c3[p].todo
            /\ [c3[p] EXCEPT !.who = {}].who = {}
        BY <4>1 DEF Events!Publishings
      <4>3. /\ c3' = [c3 EXCEPT ![p] = [c3[p] EXCEPT !.who = {}]]
            /\ c3'[p] = [c3[p] EXCEPT !.who = {}] /\ \A r \in Events!Publishers : r # p => c3'[r] = c3[r]
        BY <3>1, <4>1
      <4>4. c3' \in [Events!Publishers -> Events!Publishings]
        BY SMTT(30), <4>1, <4>2, <4>3
      <4> QED
        BY <1>1, <1>4, <4>2, <4>3, <4>4
  <2>2. UNCHANGED c6 /\ c2' \in [Events!Subscribers -> Events!Subscriptions] /\ \A c \in Events!Subscribers : c # s => c2'[c] = c2[c]
    <3>1. CASE Events!DropsSubscriber(p)
      <4>1. <<Events!Overflow>> \in Seq(Events!Statuses \cup {Events!Alarm, Events!Overflow})
        OBVIOUS
      <4>2. [c2[s] EXCEPT !.at = "cut", !.queue = <<Events!Overflow>>] \in Events!Subscriptions
        BY <1>3, <4>1 DEF Events!Subscriptions
      <4> QED
        BY <1>3, <3>1, <4>2 DEF Events!DropsSubscriber, Events!IInv, Events!Typed
    <3>2. CASE Events!DropsOldest(p) /\ ~(c6' /\ UNCHANGED c2)
      <4>1. UNCHANGED c6 /\ c2[s].queue # << >>
            /\ c2' = [c2 EXCEPT ![s].queue = Append(Tail(@), c3[p].event)]
        BY <1>3, <3>2 DEF Events!DropsOldest
      <4>2. c2[s].queue \in Seq(Events!Statuses \cup {Events!Alarm, Events!Overflow})
        BY <1>3 DEF Events!Subscriptions
      <4>3. Append(Tail(c2[s].queue), c3[p].event) \in Seq(Events!Statuses \cup {Events!Alarm, Events!Overflow})
        BY <1>1, <4>1, <4>2 DEF Events!Deliverable
      <4> QED
        BY <1>3, <4>1, <4>3 DEF Events!IInv, Events!Typed, Events!Subscriptions
    <3> QED
      BY <1>5, <3>1, <3>2
  <2>3. s \in Events!Live' => s \in EventsDrains
    <3>1. CASE Events!DropsSubscriber(p)
      <4>1. c2'[s] = [c2[s] EXCEPT !.at = "cut", !.queue = <<Events!Overflow>>]
        BY <1>3, <3>1 DEF Events!DropsSubscriber
      <4>2. c2'[s].at = "cut"
        BY <1>3, <4>1 DEF Events!Subscriptions
      <4> QED
        BY <4>2 DEF Events!Live
    <3>2. CASE Events!DropsOldest(p)
      BY <1>3, <3>2 DEF Events!DropsOldest
    <3> QED
      BY <1>5, <3>1, <3>2
  <2>4. \A c \in Events!Subscribers : c # s => (c \in Events!Live' <=> c \in Events!Live)
    BY <2>2 DEF Events!Live
  <2>5. Events!Typed'
    BY <1>2, <2>1, <2>2 DEF Events!IInv, Events!Typed
  <2>6. Events!OneAtATime'
    <3>1. c3'[p].todo \subseteq Events!Live'
      BY <1>1, <1>3, <2>1, <2>4 DEF Events!IInv, Events!OneAtATime, Events!Live
    <3> QED
      BY <1>1, <1>2, <2>1, <3>1, IdleIs DEF Events!OneAtATime
  <2>7. ASSUME NEW c \in EventsClients, ~c6', c \in Events!Live'
        PROVE  Events!Served(c)'
    <3>1. c # s /\ c \in Events!Subscribers
      BY <2>3, <2>7 DEF Events!Subscribers
    <3>2. Events!Served(c) /\ c2'[c] = c2[c]
      BY <2>2, <2>4, <2>7, <3>1 DEF Events!IInv
    <3>3. /\ Events!ToCome(c) <=> c3[p].event = Events!Status(c1) /\ c \in c3[p].todo
          /\ Events!OnItsWay(c) <=> c3[p].event = Events!Alarm /\ c \in c3[p].todo
      BY <1>1, <1>3, <3>1, OthersAreIdle DEF Events!IInv
    <3>4. /\ Events!ToCome(c)' <=> c3[p].event = Events!Status(c1) /\ c \in c3[p].todo
          /\ Events!OnItsWay(c)' <=> c3[p].event = Events!Alarm /\ c \in c3[p].todo
      <4>1. \A r \in Events!Publishers : r # p => c3'[r].at # "changed" /\ c3'[r].todo \cup c3'[r].who = {}
        BY <2>1, IdleIs
      <4> QED
        BY <1>2, <2>1, <4>1 DEF Events!ToCome, Events!OnItsWay
    <3> QED
      BY <1>2, <3>2, <3>3, <3>4, SameServed
  <2> QED
    BY <2>5, <2>6, <2>7 DEF Events!IInv
<1>6. CASE Events!DropsOldest(p) /\ c6' /\ UNCHANGED c2
  <2>1. c3' = [c3 EXCEPT ![p] = Events!Idle] \/ c3' = [c3 EXCEPT ![p].who = {}]
    BY <1>6 DEF Events!DropsOldest
  <2>2. Events!Live' = Events!Live
    BY <1>6 DEF Events!Live
  <2>3. CASE c3' = [c3 EXCEPT ![p] = Events!Idle]
    <3>1. c3' \in [Events!Publishers -> Events!Publishings] /\ \A r \in Events!Publishers : c3'[r] = Events!Idle
      BY <1>4, <2>3, IdleIs DEF Events!IInv, Events!Typed
    <3>2. Events!Typed' /\ Events!OneAtATime'
      BY <1>2, <1>6, <3>1, IdleIs DEF Events!IInv, Events!Typed, Events!OneAtATime
    <3> QED
      BY <1>6, <3>2 DEF Events!IInv
  <2>4. CASE c3' = [c3 EXCEPT ![p].who = {}]
    <3>1. /\ c3' \in [Events!Publishers -> Events!Publishings] /\ \A r \in Events!Publishers : r # p => c3'[r] = Events!Idle
          /\ c3'[p].at = "put" /\ c3'[p].event = c3[p].event /\ c3'[p].todo = c3[p].todo
          /\ c3'[p].who = {}
      BY <1>1, <1>4, <2>4 DEF Events!IInv, Events!Typed, Events!Publishings
    <3>2. Events!Typed'
      BY <1>2, <1>6, <3>1 DEF Events!IInv, Events!Typed
    <3>3. c3'[p].todo \subseteq Events!Live'
      BY <1>1, <2>2, <3>1 DEF Events!IInv, Events!OneAtATime
    <3>4. Events!OneAtATime'
      BY <1>1, <1>2, <3>1, <3>3, IdleIs DEF Events!OneAtATime
    <3> QED
      BY <1>6, <3>2, <3>4 DEF Events!IInv
  <2> QED
    BY <2>1, <2>3, <2>4
<1> QED
  BY <1>5, <1>6


LEMMA PublishedKeeps ==
    ASSUME Events!IInv, NEW p \in Events!Publishers, Events!Published(p)
    PROVE  Events!IInv'
<1> DEFINE X == [at |-> "put", event |-> Events!Status(c1), todo |-> Events!Live, who |-> {}]
<1>1. c3[p] # Events!Idle /\ c3[p].at = "put" /\ c3[p].todo = {} /\ c3[p].who = {}
  BY IdleIs DEF Events!Published
<1>2. UNCHANGED <<c1, c2, c4, c5, c6>> /\ Events!Live' = Events!Live
  BY DEF Events!Published, Events!Live
<1>3. X \in Events!Publishings /\ X.at = "put" /\ X.event = Events!Status(c1) /\ X.todo = Events!Live /\ X.who = {}
  <2>1. Events!Live \in SUBSET Events!Subscribers /\ Events!Status(c1) \in Events!Deliverable
    BY KindsDiffer DEF Events!Live, Events!IInv, Events!Typed
  <2> QED
    BY <2>1 DEF Events!Publishings
<1>4. \/ c3[p].event = Events!Alarm /\ c3' = [c3 EXCEPT ![p] = X]
      \/ c3[p].event # Events!Alarm /\ c3' = [c3 EXCEPT ![p] = Events!Idle]
  BY DEF Events!Published, Events!IInv, Events!Typed
<1> HIDE DEF X
<1>5. \A r \in Events!Publishers : r # p => c3[r] = Events!Idle
  BY <1>1, OthersAreIdle DEF Events!IInv
<1>6. /\ c3' \in [Events!Publishers -> Events!Publishings] /\ \A r \in Events!Publishers : r # p => c3'[r] = Events!Idle
      /\ \/ c3[p].event = Events!Alarm /\ c3'[p] = X
         \/ c3[p].event # Events!Alarm /\ c3'[p] = Events!Idle
  BY <1>3, <1>4, <1>5, IdleIs DEF Events!IInv, Events!Typed
<1>7. Events!Typed'
  BY <1>2, <1>6 DEF Events!IInv, Events!Typed
<1>8. Events!OneAtATime'
  BY <1>2, <1>3, <1>6, IdleIs DEF Events!OneAtATime
<1>9. ASSUME NEW c \in EventsClients, ~c6', c \in Events!Live'
      PROVE  Events!Served(c)'
  <2>1. Events!Served(c) /\ ~Events!OnItsWay(c) /\ ~Events!ToCome(c)
    BY <1>1, <1>2, <1>9, OthersAreIdle DEF Events!IInv
  <2>2. ~Events!OnItsWay(c)'
    <3>1. CASE c3'[p] = X
      BY <1>2, <1>3, <1>6, <3>1, OnePublisher, KindsDiffer DEF Events!OnItsWay, Events!IInv, Events!Typed
    <3>2. CASE c3'[p] = Events!Idle
      BY <1>6, <3>2, OnePublisher, IdleIs DEF Events!OnItsWay
    <3> QED
      BY <1>6, <3>1, <3>2
  <2> QED
    BY <1>2, <2>1, <2>2, SameServed
<1> QED
  BY <1>7, <1>8, <1>9 DEF Events!IInv

LEMMA TickKeeps ==
    ASSUME Events!IInv, Events!tick
    PROVE  Events!IInv'
<1> DEFINE X == [at |-> "put", event |-> Events!Alarm, todo |-> Events!Live, who |-> {}]
<1>1. "watch" \in Events!Publishers /\ \A p \in Events!Publishers : c3[p] = Events!Idle
  BY DEF Events!tick, Events!Alone, Events!Publishers
<1>2. UNCHANGED <<c1, c2, c6>> /\ c5' = c5 + 1 /\ Events!Live' = Events!Live
  BY DEF Events!tick, Events!Live
<1>3. X \in Events!Publishings /\ X.at = "put" /\ X.event = Events!Alarm /\ X.todo = Events!Live /\ X.who = {}
  <2>1. Events!Live \in SUBSET Events!Subscribers /\ Events!Alarm \in Events!Deliverable
    BY KindsDiffer DEF Events!Live
  <2> QED
    BY <2>1 DEF Events!Publishings
<1>4. c3' = [c3 EXCEPT !["watch"] = X]
  BY DEF Events!tick
<1> HIDE DEF X
<1>5. /\ c3' \in [Events!Publishers -> Events!Publishings] /\ c3'["watch"] = X
      /\ \A r \in Events!Publishers : r # "watch" => c3'[r] = Events!Idle
  BY <1>1, <1>3, <1>4 DEF Events!IInv, Events!Typed
<1>6. Events!Typed'
  BY <1>2, <1>5 DEF Events!IInv, Events!Typed
<1>7. Events!OneAtATime'
  BY <1>1, <1>2, <1>3, <1>5, IdleIs DEF Events!OneAtATime
<1>8. ASSUME NEW c \in EventsClients, ~c6', c \in Events!Live'
      PROVE  Events!Served(c)'
  <2>1. Events!Served(c) /\ ~Events!OnItsWay(c) /\ ~Events!ToCome(c)
    BY <1>1, <1>2, <1>8, AllIdle DEF Events!IInv
  <2>2. Events!OnItsWay(c)'
    BY <1>1, <1>2, <1>3, <1>5, <1>8 DEF Events!OnItsWay
  <2>3. c5' - c2'[c].base - (IF Events!OnItsWay(c)' THEN 1 ELSE 0) = c5 - c2[c].base - (IF Events!OnItsWay(c) THEN 1 ELSE 0)
    <3>1. c5 \in Int /\ c2[c].base \in Int
      BY <1>8 DEF Events!IInv, Events!Typed, Events!Subscribers, Events!Subscriptions
    <3> QED
      BY <1>2, <2>1, <2>2, <3>1
  <2> QED
    BY <1>2, <2>1, <2>3 DEF Events!Served
<1> QED
  BY <1>6, <1>7, <1>8 DEF Events!IInv

\* Forgotten: a socket that goes is in no publisher's hands any more.
LEMMA ForgottenIs ==
    ASSUME Events!IInv, NEW c, Events!Forgotten(c)
    PROVE  /\ c3' \in [Events!Publishers -> Events!Publishings]
           /\ \A p \in Events!Publishers : /\ c3'[p].at = c3[p].at /\ c3'[p].event = c3[p].event
                                           /\ c3'[p].todo = c3[p].todo \ {c} /\ c3'[p].who = c3[p].who \ {c}
                                           /\ c3[p] \in {Events!Idle, [Events!Idle EXCEPT !.at = "changed"]} => c3'[p] = c3[p]
<1>1. \A p \in Events!Publishers : c3[p] \in Events!Publishings /\ c3'[p] = [c3[p] EXCEPT !.todo = @ \ {c}, !.who = @ \ {c}]
  BY DEF Events!Forgotten, Events!IInv, Events!Typed
<1>2. \A p \in Events!Publishers : c3'[p] \in Events!Publishings
  <2> TAKE p \in Events!Publishers
  <2>1. c3[p].todo \ {c} \in SUBSET Events!Subscribers /\ c3[p].who \ {c} \in SUBSET Events!Subscribers
    BY <1>1 DEF Events!Publishings
  <2>2. [c3[p] EXCEPT !.todo = c3[p].todo \ {c}, !.who = c3[p].who \ {c}] \in Events!Publishings
    BY <1>1, <2>1 DEF Events!Publishings
  <2> QED
    BY ZenonT(40), <1>1, <2>2
<1>3. c3' = [p \in Events!Publishers |-> [c3[p] EXCEPT !.todo = @ \ {c}, !.who = @ \ {c}]]
  BY DEF Events!Forgotten
<1>4. c3' \in [Events!Publishers -> Events!Publishings]
  BY <1>2, <1>3
<1>5. \A p \in Events!Publishers : c3[p] \in {Events!Idle, [Events!Idle EXCEPT !.at = "changed"]} => c3'[p] = c3[p]
  <2> TAKE p \in Events!Publishers
  <2> HAVE c3[p] \in {Events!Idle, [Events!Idle EXCEPT !.at = "changed"]}
  <2>1. c3[p].todo \ {c} = c3[p].todo /\ c3[p].who \ {c} = c3[p].who
    BY IdleIs
  <2>2. \A o \in Events!Publishings : [o EXCEPT !.todo = o.todo, !.who = o.who] = o
    BY ZenonT(30) DEF Events!Publishings
  <2> QED
    BY ZenonT(40), <1>1, <2>1, <2>2
<1>6. \A p \in Events!Publishers : /\ c3'[p].at = c3[p].at /\ c3'[p].event = c3[p].event
                                   /\ c3'[p].todo = c3[p].todo \ {c} /\ c3'[p].who = c3[p].who \ {c}
  BY <1>1 DEF Events!Publishings
<1> QED
  BY <1>4, <1>5, <1>6

LEMMA LeavingKeeps ==
    ASSUME Events!IInv, NEW s \in Events!Subscribers, c2' = [c2 EXCEPT ![s] = Events!Off], Events!Forgotten(s),
           UNCHANGED <<c1, c5, c6>>
    PROVE  Events!IInv'
<1>1. /\ c2' \in [Events!Subscribers -> Events!Subscriptions] /\ c2'[s] = Events!Off
      /\ \A c \in Events!Subscribers : c # s => c2'[c] = c2[c]
  BY OffIs DEF Events!IInv, Events!Typed
<1>2. Events!Typed'
  BY <1>1, ForgottenIs DEF Events!IInv, Events!Typed
<1>3. s \notin Events!Live' /\ \A c \in Events!Subscribers : c # s => (c \in Events!Live' <=> c \in Events!Live)
  BY <1>1, OffIs DEF Events!Live
<1>4. Events!OneAtATime'
  <2>1. \A p \in Events!Publishers : c3[p] = Events!Idle => c3'[p] = Events!Idle
    BY ForgottenIs
  <2>2. \A p, r \in Events!Publishers : c3'[p] # Events!Idle /\ c3'[r] # Events!Idle => p = r
    BY <2>1 DEF Events!IInv, Events!OneAtATime
  <2>3. \A p \in Events!Publishers : c3'[p].todo \cup c3'[p].who \subseteq Events!Live'
    BY <1>3, ForgottenIs DEF Events!IInv, Events!OneAtATime, Events!Live
  <2>4. \A p \in Events!Publishers : \A c \in c3'[p].who : c3'[p].who = {c} /\ c \notin c3'[p].todo
    BY ForgottenIs DEF Events!IInv, Events!OneAtATime
  <2>5. \A p \in Events!Publishers : /\ c3'[p].at = "put" => c3'[p].event \in {Events!Alarm, Events!Status(c1)}
                                     /\ c3'[p].at # "put" => c3'[p] \in {Events!Idle, [Events!Idle EXCEPT !.at = "changed"]}
    BY ForgottenIs DEF Events!IInv, Events!OneAtATime
  <2> QED
    BY <2>2, <2>3, <2>4, <2>5 DEF Events!OneAtATime
<1>5. ASSUME NEW c \in EventsClients, ~c6', c \in Events!Live'
      PROVE  Events!Served(c)'
  <2>1. c # s /\ c \in Events!Subscribers
    BY <1>3, <1>5 DEF Events!Subscribers
  <2>2. Events!Served(c) /\ c2'[c] = c2[c]
    BY <1>1, <1>3, <1>5, <2>1 DEF Events!IInv
  <2>3. (Events!ToCome(c)' <=> Events!ToCome(c)) /\ (Events!OnItsWay(c)' <=> Events!OnItsWay(c))
    BY <2>1, ForgottenIs DEF Events!ToCome, Events!OnItsWay
  <2> QED
    BY <2>2, <2>3, SameServed
<1> QED
  BY <1>2, <1>4, <1>5 DEF Events!IInv

LEMMA SendKeeps ==
    ASSUME Events!IInv, NEW s \in Events!Subscribers, Events!_send(s)
    PROVE  Events!IInv'
<1>1. CASE c2' = [c2 EXCEPT ![s] = Events!Off] /\ Events!Forgotten(s)
  BY <1>1, LeavingKeeps DEF Events!_send
<1>2. CASE Head(c2[s].queue) # Events!Overflow
  <2> DEFINE q == c2[s].queue
             e == Head(q)
  <2>1. UNCHANGED <<c1, c5, c6, c3>> /\ q # << >> /\ c2[s] \in Events!Subscriptions
        /\ c2' = [c2 EXCEPT ![s].queue = Tail(@),
                              ![s].shown = IF e = Events!Alarm THEN @ ELSE e.v,
                              ![s].heard = IF e = Events!Alarm THEN @ + 1 ELSE @]
    BY <1>2 DEF Events!_send, Events!IInv, Events!Typed
  <2>2. q \in Seq(Events!Statuses \cup {Events!Alarm, Events!Overflow}) /\ c2[s].heard \in Int /\ c2[s].shown \in Nat
        /\ c2[s].base \in Int
    BY <2>1 DEF Events!Subscriptions
  <2>3. e \in Events!Deliverable /\ Tail(q) \in Seq(Events!Statuses \cup {Events!Alarm, Events!Overflow})
    BY <1>2, <2>1, <2>2 DEF Events!Deliverable
  <2> HIDE DEF q, e
  <2>4. e # Events!Alarm => e.v \in Nat
    BY <2>3, KindsDiffer
  <2> DEFINE shown == IF e = Events!Alarm THEN c2[s].shown ELSE e.v
             heard == IF e = Events!Alarm THEN c2[s].heard + 1 ELSE c2[s].heard
  <2>5. shown \in Nat /\ heard \in Int
    BY <2>2, <2>4
  <2>6. /\ c2'[s] = [c2[s] EXCEPT !.queue = Tail(q), !.shown = shown, !.heard = heard]
        /\ \A c \in Events!Subscribers : c # s => c2'[c] = c2[c]
    BY <2>1 DEF q, Events!IInv, Events!Typed, Events!Subscriptions
  <2> HIDE DEF shown, heard
  <2>7. c2' \in [Events!Subscribers -> Events!Subscriptions]
    <3>1. [c2[s] EXCEPT !.queue = Tail(q), !.shown = shown, !.heard = heard] \in Events!Subscriptions
      BY <2>1, <2>3, <2>5 DEF Events!Subscriptions
    <3> QED
      BY <2>1, <2>6, <3>1 DEF Events!IInv, Events!Typed
  <2>8. c2'[s].queue = Tail(q) /\ c2'[s].shown = shown /\ c2'[s].heard = heard /\ c2'[s].base = c2[s].base
        /\ c2'[s].at = c2[s].at
    <3>1. \A o \in Events!Subscriptions : LET n == [o EXCEPT !.queue = Tail(q), !.shown = shown, !.heard = heard] IN
             n.queue = Tail(q) /\ n.shown = shown /\ n.heard = heard /\ n.base = o.base /\ n.at = o.at
      BY DEF Events!Subscriptions
    <3> QED
      BY <2>1, <2>6, <3>1
  <2>9. Events!Live' = Events!Live
    BY <2>6, <2>8 DEF Events!Live
  <2>10. Events!Typed'
    BY <2>1, <2>7 DEF Events!IInv, Events!Typed
  <2>11. Events!OneAtATime'
    BY <2>1, <2>9 DEF Events!IInv, Events!OneAtATime
  <2>12. ASSUME NEW c \in EventsClients, ~c6', c \in Events!Live'
         PROVE  Events!Served(c)'
    <3>1. Events!Served(c) /\ c \in Events!Subscribers
      BY <2>1, <2>9, <2>12 DEF Events!IInv, Events!Subscribers
    <3>2. (Events!ToCome(c)' <=> Events!ToCome(c)) /\ (Events!OnItsWay(c)' <=> Events!OnItsWay(c))
      BY <2>1 DEF Events!ToCome, Events!OnItsWay
    <3>3. CASE c # s
      BY <2>1, <2>6, <3>1, <3>2, <3>3, SameServed
    <3>4. CASE c = s
      <4> DEFINE n == c5 - c2[c].base - (IF Events!OnItsWay(c) THEN 1 ELSE 0)
      <4>1. q \in Seq(Events!Deliverable) /\ n \in Int /\ c1 \in Nat
        <5>1. \A i \in DOMAIN q : q[i] \in Events!Deliverable
          BY <3>1, <3>4 DEF Events!Served, q
        <5> QED
          BY <2>2, <3>4, <5>1 DEF Events!IInv, Events!Typed
      <4>2. n = c5' - c2'[c].base - (IF Events!OnItsWay(c)' THEN 1 ELSE 0)
        BY <2>1, <2>8, <3>2, <3>4
      <4>3. Events!Sums(Tail(q), heard, n)
        BY <2>1, <2>2, <3>1, <3>4, <4>1, SumsTaken DEF Events!Served, q, e, heard
      <4>4. Events!ToCome(c)' \/ Events!Ends(Tail(q), shown, c1')
        <5>1. CASE Events!Ends(q, c2[c].shown, c1)
          BY <2>1, <3>4, <4>1, <5>1, EndsTaken DEF q, e, shown
        <5> QED
          BY <3>1, <3>2, <3>4, <5>1 DEF Events!Served, q
      <4>5. \A i \in DOMAIN Tail(q) : Tail(q)[i] \in Events!Deliverable
        <5>1. Tail(q) \in Seq(Events!Deliverable)
          BY <2>1, <4>1 DEF q
        <5> QED
          BY <5>1
      <4> HIDE DEF n
      <4> QED
        BY <2>8, <3>4, <4>2, <4>3, <4>4, <4>5 DEF Events!Served
    <3> QED
      BY <3>3, <3>4
  <2> QED
    BY <2>10, <2>11, <2>12 DEF Events!IInv
<1> QED
  BY <1>1, <1>2 DEF Events!_send

LEMMA EventsKeeps ==
    ASSUME Events!IInv, NEW c \in EventsClients, Events!events(c)
    PROVE  Events!IInv'
<1> DEFINE on == [Events!Off EXCEPT !.at = "live", !.shown = c1, !.base = c5]
<1>0. on = [Events!Off EXCEPT !.at = "live", !.shown = c1, !.base = c5]
  OBVIOUS
<1>1. UNCHANGED <<c1, c5, c6, c3>> /\ c2[c].at = "off" /\ c2' = [c2 EXCEPT ![c] = on] /\ c \in Events!Subscribers
  BY DEF Events!events, Events!Subscribers
<1> HIDE DEF on
<1>2. /\ on \in Events!Subscriptions /\ on.at = "live" /\ on.queue = << >> /\ on.shown = c1 /\ on.heard = 0
      /\ on.base = c5 /\ c1 \in Nat /\ c5 \in Int
  <2>1. c1 \in Nat /\ c5 \in Int
    BY DEF Events!IInv, Events!Typed
  <2>2. << >> \in Seq(Events!Statuses \cup {Events!Alarm, Events!Overflow}) /\ 0 \in Int
    OBVIOUS
  <2> QED
    BY <1>0, <2>1, <2>2 DEF Events!Off, Events!Subscriptions
<1>3. c2' \in [Events!Subscribers -> Events!Subscriptions] /\ c2'[c] = on /\ \A d \in Events!Subscribers : d # c => c2'[d] = c2[d]
  BY <1>1, <1>2 DEF Events!IInv, Events!Typed
<1>4. Events!Live \subseteq Events!Live' /\ c \notin Events!Live /\ Events!Live' \subseteq Events!Live \cup {c}
  BY <1>1, <1>2, <1>3 DEF Events!Live
<1>5. Events!Typed'
  BY <1>1, <1>3 DEF Events!IInv, Events!Typed
<1>6. Events!OneAtATime'
  BY <1>1, <1>4 DEF Events!IInv, Events!OneAtATime
<1>7. ASSUME NEW d \in EventsClients, ~c6', d \in Events!Live'
      PROVE  Events!Served(d)'
  <2>1. (Events!ToCome(d)' <=> Events!ToCome(d)) /\ (Events!OnItsWay(d)' <=> Events!OnItsWay(d))
    BY <1>1 DEF Events!ToCome, Events!OnItsWay
  <2>2. CASE d # c
    BY <1>1, <1>3, <1>4, <1>7, <2>1, <2>2, SameServed DEF Events!IInv, Events!Subscribers
  <2>3. CASE d = c
    <3>1. ~Events!OnItsWay(c)
      BY <1>4 DEF Events!OnItsWay, Events!IInv, Events!OneAtATime
    <3>2. Events!Ends(<< >>, c1, c1) /\ Events!Sums(<< >>, 0, 0)
      BY NothingQueued
    <3>3. c5' - c2'[c].base - (IF Events!OnItsWay(c)' THEN 1 ELSE 0) = 0
      BY <1>1, <1>2, <1>3, <2>1, <2>3, <3>1
    <3>4. DOMAIN << >> = {}
      OBVIOUS
    <3> QED
      BY <1>1, <1>2, <1>3, <2>3, <3>2, <3>3, <3>4 DEF Events!Served
  <2> QED
    BY <2>2, <2>3
<1> QED
  BY <1>5, <1>6, <1>7 DEF Events!IInv

\* While one publishes at a time, whatever is queued, full, cut off or replaced: a
\* socket that has taken in what was queued for it shows the radio as it is and has
\* heard every alarm.
THEOREM SocketsAreServed ==
    ASSUME EventsClients \cap EventsDrains = {}
    PROVE  Events!Spec => [](Events!ShownIsCurrent /\ Events!AlarmsAreHeard)
<1>1. Events!Init => Events!IInv
  <2> SUFFICES ASSUME Events!Init
               PROVE  Events!IInv
    OBVIOUS
  <2>1. [Events!Off EXCEPT !.at = "live"] \in Events!Subscriptions
    BY OffIs DEF Events!Subscriptions
  <2>2. Events!Typed
    <3>1. c2 \in [Events!Subscribers -> Events!Subscriptions]
      BY <2>1, OffIs DEF Events!Init
    <3>2. c3 \in [Events!Publishers -> Events!Publishings]
      BY IdleIs DEF Events!Init
    <3> QED
      BY <3>1, <3>2 DEF Events!Init, Events!Typed
  <2>3. Events!OneAtATime
    BY IdleIs DEF Events!Init, Events!OneAtATime
  <2>4. \A c \in EventsClients : c \notin Events!Live
    BY OffIs DEF Events!Init, Events!Live, Events!Subscribers
  <2> QED
    BY <2>2, <2>3, <2>4 DEF Events!IInv
<1>2. Events!IInv /\ [Events!Next]_(Events!vars) => Events!IInv'
  <2> SUFFICES ASSUME Events!IInv, [Events!Next]_(Events!vars)
               PROVE  Events!IInv'
    OBVIOUS
  <2>1. ASSUME NEW r \in EventsRoutes, Events!Changes(r) \/ Events!status_event(r)
        PROVE  Events!IInv'
    BY <2>1, ChangesKeeps, StatusKeeps
  <2>2. ASSUME NEW p \in Events!Publishers, Events!publish(p) \/ Events!DropsSubscriber(p) \/ Events!DropsOldest(p) \/ Events!Published(p)
        PROVE  Events!IInv'
    BY <2>2, PublishKeeps, DropKeeps, PublishedKeeps
  <2>3. CASE Events!tick
    BY <2>3, TickKeeps
  <2>4. CASE Events!ReaderTurns \/ UNCHANGED Events!vars
    <3>1. UNCHANGED <<c1, c2, c3, c5, c6>>
      BY <2>4 DEF Events!ReaderTurns, Events!vars
    <3> QED
      BY <3>1 DEF Events!IInv, Events!Typed, Events!OneAtATime, Events!Live, Events!Served, Events!ToCome, Events!OnItsWay
  <2>5. ASSUME NEW s \in Events!Subscribers, Events!_send(s)
        PROVE  Events!IInv'
    BY <2>5, SendKeeps
  <2>6. ASSUME NEW c \in EventsClients, Events!events(c)
        PROVE  Events!IInv'
    BY <2>6, EventsKeeps
  <2>7. ASSUME NEW c \in EventsClients, Events!Disconnects(c)
        PROVE  Events!IInv'
    <3>1. c \in Events!Subscribers
      BY DEF Events!Subscribers
    <3> QED
      BY <2>7, <3>1, LeavingKeeps DEF Events!Disconnects
  <2> QED
    BY <2>1, <2>2, <2>3, <2>4, <2>5, <2>6, <2>7 DEF Events!Next
<1>3. Events!IInv => Events!ShownIsCurrent /\ Events!AlarmsAreHeard
  <2> SUFFICES ASSUME Events!IInv, NEW c \in EventsClients, Events!TakenIn(c)
               PROVE  c2[c].shown = c1 /\ c2[c].heard = c5 - c2[c].base
    BY DEF Events!ShownIsCurrent, Events!AlarmsAreHeard
  <2>1. c \in Events!Live /\ Events!Served(c) /\ c2[c].queue = << >>
    BY DEF Events!TakenIn, Events!IInv, Events!Live, Events!Subscribers
  <2>2. ~Events!ToCome(c) /\ ~Events!OnItsWay(c)
    BY AllIdle DEF Events!TakenIn
  <2>3. c2[c].heard \in Int /\ c5 \in Int /\ c2[c].base \in Int
    BY DEF Events!IInv, Events!Typed, Events!Subscribers, Events!Subscriptions
  <2>4. Events!Ends(<< >>, c2[c].shown, c1) /\ Events!Sums(<< >>, c2[c].heard, c5 - c2[c].base - 0)
    BY <2>1, <2>2 DEF Events!Served
  <2> QED
    BY <2>3, <2>4, NothingQueued
<1> QED
  BY <1>1, <1>2, <1>3, PTL DEF Events!Spec

-----------------------------------------------------------------------------
(* GatewayClient: the registration with the D-STAR gateway. *)

CONSTANTS
    GatewayInterval, GatewayMaxInFlight, GatewayMaxStarts, GatewayClientFaults

Gateway == INSTANCE GatewayClient WITH
    Interval <- GatewayInterval, MaxInFlight <- GatewayMaxInFlight,
    MaxStarts <- GatewayMaxStarts, ClientFaults <- GatewayClientFaults,
    sock <- c1, reader <- c2, inHand <- c3, stop <- c4, registered <- c5,
    sincePoll <- c6, polls <- c7, inbox <- c8, known <- c9, answered <- c10,
    starts <- c11

\* An empty buffer holds nothing, and a packet put into it is the last.
LEMMA EmptyInbox ==
    << >> \in Seq(Gateway!Kinds) /\ (\A i \in DOMAIN << >> : FALSE)
OBVIOUS

LEMMA AppendedPacket ==
    ASSUME c8 \in Seq(Gateway!Kinds), NEW k \in Gateway!Kinds
    PROVE  /\ Append(c8, k) \in Seq(Gateway!Kinds)
           /\ \A i \in DOMAIN Append(c8, k) :
                 \/ Append(c8, k)[i] = k
                 \/ i \in DOMAIN c8 /\ Append(c8, k)[i] = c8[i]
OBVIOUS

\* What the client shows is of this start of it, and its thread lives: whatever
\* polls are lost, gateways restart and sinks raise.
THEOREM RegistrationIsAnswered ==
    Gateway!Spec => [](Gateway!RegisteredIsAnswered /\ Gateway!ReaderLives)
<1> DEFINE Empty == << >>
<1>0. Empty \in Seq(Gateway!Kinds) /\ (\A i \in DOMAIN Empty : FALSE)
  BY EmptyInbox
<1>1. Gateway!Init => Gateway!IInv
  <2> SUFFICES ASSUME Gateway!Init
               PROVE  Gateway!IInv
    OBVIOUS
  <2>1. c8 = Empty
    BY DEF Gateway!Init
  <2>2. c8 \in Seq(Gateway!Kinds) /\ (\A i \in DOMAIN c8 : FALSE)
    BY <1>0, <2>1
  <2> HIDE DEF Empty
  <2> QED
    BY <2>2 DEF Gateway!Init, Gateway!IInv, Gateway!OfThisStart, Gateway!ReaderLives
<1>2. Gateway!IInv /\ [Gateway!Next]_(Gateway!vars) => Gateway!IInv'
  <2> SUFFICES ASSUME Gateway!IInv, [Gateway!Next]_(Gateway!vars)
               PROVE  Gateway!IInv'
    OBVIOUS
  <2>0. c8' = Empty => c8' \in Seq(Gateway!Kinds) /\ (\A i \in DOMAIN c8' : FALSE)
    BY <1>0
  <2> HIDE DEF Empty
  <2> USE DEF Gateway!IInv, Gateway!OfThisStart, Gateway!ReaderLives
  <2>1. CASE Gateway!Start \/ Gateway!Close
    <3>1. c8' = Empty
      BY <2>1 DEF Gateway!Start, Gateway!Close, Empty
    <3>2. CASE Gateway!Start
      <4>1. ~c5 /\ c5' = c5 /\ ~c10' /\ c10' \in BOOLEAN
        BY <3>2 DEF Gateway!Start
      <4>2. c2' # "handling" /\ (c2' = "none" => ~c1') /\ c2' # "ended"
        BY <3>2 DEF Gateway!Start, Gateway!Opened
      <4>3. c4' => ~c1'
        BY <3>2 DEF Gateway!Start, Gateway!Opened
      <4> QED
        BY <2>0, <3>1, <4>1, <4>2, <4>3
    <3>3. CASE Gateway!Close
      BY <2>0, <3>1, <3>3 DEF Gateway!Close
    <3> QED
      BY <2>1, <3>2, <3>3
  <2>2. CASE Gateway!CloseReturns
    BY <2>2 DEF Gateway!CloseReturns, Gateway!Forgotten, Gateway!net
  <2>3. CASE Gateway!Receive
    <3>1. CASE UNCHANGED c8
      BY <2>3, <3>1 DEF Gateway!Receive
    <3>2. CASE c8 # << >> /\ c8' = Tail(c8) /\ c3' = Head(c8)
               /\ c2 = "receiving" /\ c2' = "handling"
               /\ UNCHANGED <<c1, c4, c5, c10>>
      <4>1. c8' \in Seq(Gateway!Kinds) /\ Head(c8) = c8[1] /\ 1 \in DOMAIN c8
        BY <3>2
      <4>2. \A i \in DOMAIN c8' : i + 1 \in DOMAIN c8 /\ c8'[i] = c8[i + 1]
        BY <3>2
      <4> QED
        BY <3>2, <4>1, <4>2
    <3> QED
      BY <2>3, <3>1, <3>2 DEF Gateway!Receive
  <2>4. CASE Gateway!HandlePacket
    BY <2>4 DEF Gateway!HandlePacket, Gateway!AfterSink, Gateway!net
  <2>5. CASE Gateway!TickPoll \/ Gateway!Tick \/ UNCHANGED Gateway!vars
    BY <2>5 DEF Gateway!TickPoll, Gateway!Tick, Gateway!net, Gateway!vars
  <2>6. ASSUME NEW k \in Gateway!Kinds, Gateway!Sent(k), k # "noise" => c10',
               c10 => c10', c10' \in BOOLEAN, UNCHANGED Gateway!client
        PROVE  Gateway!IInv'
    <3>1. CASE UNCHANGED c8
      BY <2>6, <3>1 DEF Gateway!client
    <3>2. CASE c8' = Append(c8, k)
      <4>1. /\ c8' \in Seq(Gateway!Kinds)
            /\ \A i \in DOMAIN c8' :
                  c8'[i] = k \/ (i \in DOMAIN c8 /\ c8'[i] = c8[i])
        BY <3>2, AppendedPacket
      <4> QED
        BY <2>6, <4>1 DEF Gateway!client
    <3> QED
      BY <2>6, <3>1, <3>2 DEF Gateway!Sent
  <2>7. CASE Gateway!PollArrives
    <3>1. "register" \in Gateway!Kinds
      BY DEF Gateway!Kinds
    <3> QED
      BY <2>6, <2>7, <3>1 DEF Gateway!PollArrives
  <2>8. CASE Gateway!GatewaySends
    <3>1. PICK k \in {"data", "noise"} : Gateway!Sent(k) /\ c10' = (c10 \/ k = "data")
      BY <2>8 DEF Gateway!GatewaySends
    <3>2. k \in Gateway!Kinds
      BY DEF Gateway!Kinds
    <3>3. k # "noise" => c10'
      BY <3>1
    <3>4. UNCHANGED Gateway!client
      BY <2>8 DEF Gateway!GatewaySends
    <3> QED
      BY <2>6, <3>1, <3>2, <3>3, <3>4
  <2>9. CASE Gateway!PollIsLost \/ Gateway!GatewayRestarts
    BY <2>9 DEF Gateway!PollIsLost, Gateway!GatewayRestarts, Gateway!client
  <2> QED
    BY <2>1, <2>2, <2>3, <2>4, <2>5, <2>7, <2>8, <2>9 DEF Gateway!Next
<1> QED
  BY <1>1, <1>2, PTL DEF Gateway!Spec, Gateway!IInv, Gateway!OfThisStart, Gateway!RegisteredIsAnswered

-----------------------------------------------------------------------------
(* DvapControl: the DVAP modules' links, over the gateway's remote control. *)

CONSTANTS
    DvapModules, DvapReflectors, DvapRetries, DvapMaxJobs, DvapMaxFaults,
    DvapNetFaults

Dvap == INSTANCE DvapControl WITH
    Modules <- DvapModules, Reflectors <- DvapReflectors, Retries <- DvapRetries,
    MaxJobs <- DvapMaxJobs, MaxFaults <- DvapMaxFaults, NetFaults <- DvapNetFaults,
    gate <- c1, net <- c2, replies <- c3, client <- c4, job <- c5, cache <- c6,
    count <- c7

\* Sequences of datagrams, by their kinds.
LEMMA EmptyOrNot ==
    ASSUME NEW S, NEW s \in Seq(S)
    PROVE  /\ Len(s) \in Nat /\ DOMAIN s = 1 .. Len(s) /\ (s = << >> <=> Len(s) = 0)
           /\ \A i \in 1 .. Len(s) : s[i] \in S
OBVIOUS

LEMMA TailIs ==
    ASSUME NEW S, NEW s \in Seq(S), s # << >>
    PROVE  /\ Tail(s) \in Seq(S) /\ Len(Tail(s)) = Len(s) - 1 /\ Head(s) = s[1] /\ Head(s) \in S
           /\ \A i \in 1 .. Len(s) - 1 : Tail(s)[i] = s[i + 1]
           /\ 1 \in DOMAIN s /\ (Tail(s) = << >> <=> Len(s) = 1)
<1>1. /\ Tail(s) \in Seq(S) /\ Len(Tail(s)) = Len(s) - 1 /\ Head(s) = s[1] /\ Head(s) \in S
      /\ \A i \in 1 .. Len(s) - 1 : Tail(s)[i] = s[i + 1]
  OBVIOUS
<1>2. Len(s) \in Nat /\ DOMAIN s = 1 .. Len(s) /\ Len(s) # 0
  BY EmptyOrNot
<1>3. Tail(s) = << >> <=> Len(Tail(s)) = 0
  BY <1>1, EmptyOrNot
<1> QED
  BY <1>1, <1>2, <1>3

LEMMA AppendIs ==
    ASSUME NEW S, NEW s \in Seq(S), NEW e \in S
    PROVE  /\ Append(s, e) \in Seq(S) /\ Len(Append(s, e)) = Len(s) + 1 /\ Append(s, e)[Len(s) + 1] = e
           /\ \A i \in 1 .. Len(s) : Append(s, e)[i] = s[i]
           /\ Append(s, e) # << >>
OBVIOUS

LEMMA KindsAre ==
    ASSUME NEW s \in Seq(Dvap!Datagrams), NEW j, NEW k
    PROVE  /\ Dvap!Kinds(s, <<j>>) <=> Len(s) = 1 /\ s[1].kind = j
           /\ Dvap!Kinds(s, <<j, k>>) <=> Len(s) = 2 /\ s[1].kind = j /\ s[2].kind = k
<1>1. DOMAIN s = 1 .. Len(s) /\ Len(s) \in Nat
  BY EmptyOrNot
<1>2. Len(<<j>>) = 1 /\ <<j>>[1] = j /\ Len(<<j, k>>) = 2 /\ <<j, k>>[1] = j /\ <<j, k>>[2] = k
  OBVIOUS
<1>3. 1 .. 1 = {1} /\ 1 .. 2 = {1, 2}
  OBVIOUS
<1> QED
  BY <1>1, <1>2, <1>3 DEF Dvap!Kinds

LEMMA MsgIs ==
    ASSUME NEW kind, NEW m, NEW to
    PROVE  /\ Dvap!Msg(kind, m, to).kind = kind /\ Dvap!Msg(kind, m, to).module = m /\ Dvap!Msg(kind, m, to).to = to
           /\ /\ kind \in {"login", "hash", "status", "link", "random", "ack", "nak", "repeater"}
              /\ m \in Dvap!Letters /\ to \in Dvap!Targets
              => Dvap!Msg(kind, m, to) \in Dvap!Datagrams
BY DEF Dvap!Msg, Dvap!Datagrams

LEMMA NotLinkedIs == Dvap!NotLinked \in Dvap!Targets
BY ZenonT(40) DEF Dvap!Targets

\* The conditions of an invariant state, in terms of lengths and kinds.
LEMMA PhasesAre ==
    ASSUME c2 \in Seq(Dvap!Datagrams), c3 \in Seq(Dvap!Datagrams)
    PROVE  /\ Dvap!AtRest <=>
                /\ c4.at \in Dvap!Resting /\ c4.authed
                /\ \/ Len(c2) = 0 /\ Len(c3) = 0
                   \/ Len(c2) = 1 /\ c2[1].kind = "link" /\ Len(c3) = 0 /\ Dvap!Ordered
                   \/ Len(c2) = 0 /\ Len(c3) = 1 /\ c3[1].kind = "nak" /\ ~c1.authed /\ Dvap!Ordered
           /\ Dvap!LoggedOut <=>
                /\ c4.at \in Dvap!Resting \cup {"login"} /\ ~c4.authed
                /\ \A i \in 1 .. Len(c2) : \/ c2[i].kind = "login"
                                           \/ i = 1 /\ c2[1].kind = "status" /\ Len(c3) = 0 /\ ~c1.authed
                /\ \A i \in 1 .. Len(c3) : c3[i].kind = "random" \/ (i = 1 /\ c3[1].kind = "nak")
           /\ Dvap!AtHash <=>
                /\ c4.at = "hash" /\ ~c4.authed
                /\ \A i \in 1 .. Len(c2) : c2[i].kind = "login" \/ (i = Len(c2) /\ c2[i].kind = "hash")
                /\ \A i \in 1 .. Len(c3) : \/ c3[i].kind = "random"
                                           \/ i = Len(c3) /\ c3[i].kind = "ack" /\ Len(c2) = 0
           /\ Dvap!AtStatus <=>
                /\ c4.at = "status" /\ c4.authed /\ c5.op # "link" /\ c5.asks # << >>
                /\ \/ /\ Len(c2) = 2 /\ c2[1].kind = "link" /\ c2[2].kind = "status" /\ c2[2].module = Dvap!Asked
                      /\ Len(c3) = 0 /\ Dvap!Ordered
                   \/ Len(c2) = 1 /\ c2[1].kind = "status" /\ c2[1].module = Dvap!Asked /\ Len(c3) = 0
                   \/ /\ Len(c2) = 1 /\ c2[1].kind = "status" /\ c2[1].module = Dvap!Asked
                      /\ Len(c3) = 1 /\ c3[1].kind = "nak"
                      /\ ~c1.authed /\ ~c4.relogged
                   \/ Len(c2) = 0 /\ Len(c3) = 0
                   \/ Len(c2) = 0 /\ Len(c3) = 1 /\ c3[1].kind = "nak" /\ ~c1.authed
                   \/ /\ Len(c2) = 0 /\ Len(c3) = 2 /\ c3[1].kind = "nak" /\ c3[2].kind = "nak"
                      /\ ~c1.authed /\ ~c4.relogged
                   \/ /\ Len(c2) = 0 /\ Len(c3) = 1 /\ c3[1].kind = "repeater"
                      /\ c3[1].to = c1.link[Dvap!Asked]
<1>1. /\ DOMAIN c2 = 1 .. Len(c2) /\ (c2 = << >> <=> Len(c2) = 0)
      /\ DOMAIN c3 = 1 .. Len(c3) /\ (c3 = << >> <=> Len(c3) = 0)
  BY EmptyOrNot
<1>2. /\ Dvap!Kinds(c2, <<"link">>) <=> Len(c2) = 1 /\ c2[1].kind = "link"
      /\ Dvap!Kinds(c2, <<"status">>) <=> Len(c2) = 1 /\ c2[1].kind = "status"
      /\ Dvap!Kinds(c2, <<"link", "status">>) <=> Len(c2) = 2 /\ c2[1].kind = "link" /\ c2[2].kind = "status"
      /\ Dvap!Kinds(c3, <<"nak">>) <=> Len(c3) = 1 /\ c3[1].kind = "nak"
      /\ Dvap!Kinds(c3, <<"repeater">>) <=> Len(c3) = 1 /\ c3[1].kind = "repeater"
      /\ Dvap!Kinds(c3, <<"nak", "nak">>) <=> Len(c3) = 2 /\ c3[1].kind = "nak" /\ c3[2].kind = "nak"
  BY KindsAre
<1> HIDE DEF Dvap!Resting, Dvap!Ordered, Dvap!Asked
<1>3. Dvap!AtRest <=>
                /\ c4.at \in Dvap!Resting /\ c4.authed
                /\ \/ Len(c2) = 0 /\ Len(c3) = 0
                   \/ Len(c2) = 1 /\ c2[1].kind = "link" /\ Len(c3) = 0 /\ Dvap!Ordered
                   \/ Len(c2) = 0 /\ Len(c3) = 1 /\ c3[1].kind = "nak" /\ ~c1.authed /\ Dvap!Ordered
  BY <1>1, <1>2 DEF Dvap!AtRest
<1>4. Dvap!LoggedOut <=>
                /\ c4.at \in Dvap!Resting \cup {"login"} /\ ~c4.authed
                /\ \A i \in 1 .. Len(c2) : \/ c2[i].kind = "login"
                                           \/ i = 1 /\ c2[1].kind = "status" /\ Len(c3) = 0 /\ ~c1.authed
                /\ \A i \in 1 .. Len(c3) : c3[i].kind = "random" \/ (i = 1 /\ c3[1].kind = "nak")
  BY ZenonT(40), <1>1 DEF Dvap!LoggedOut
<1>5. Dvap!AtHash <=>
                /\ c4.at = "hash" /\ ~c4.authed
                /\ \A i \in 1 .. Len(c2) : c2[i].kind = "login" \/ (i = Len(c2) /\ c2[i].kind = "hash")
                /\ \A i \in 1 .. Len(c3) : \/ c3[i].kind = "random"
                                           \/ i = Len(c3) /\ c3[i].kind = "ack" /\ Len(c2) = 0
  BY <1>1 DEF Dvap!AtHash
<1> QED
  BY ZenonT(40), <1>1, <1>2, <1>3, <1>4, <1>5 DEF Dvap!AtStatus

\* The work keeps its type; the operations of a refresh are the modules still to ask.
LEMMA JobsAre ==
    ASSUME DvapModules \in Seq(Dvap!Letters), DvapModules # << >>
    PROVE  /\ Dvap!NoJob \in Dvap!Jobs /\ Dvap!NoJob.op = "none" /\ Dvap!NoJob.asks = << >>
           /\ \A j \in Dvap!Jobs : /\ [j EXCEPT !.op = "refresh", !.asks = DvapModules] \in Dvap!Jobs
                                   /\ j.asks # << >> =>
                                        /\ [j EXCEPT !.asks = Tail(@)] \in Dvap!Jobs
                                        /\ [j EXCEPT !.asks = Tail(@)].op = j.op
                                        /\ [j EXCEPT !.asks = Tail(@)].asks = Tail(j.asks)
<1>1. 1 \in DOMAIN DvapModules /\ DvapModules[1] \in Dvap!Letters
  BY EmptyOrNot DEF Dvap!Letters
<1>2. << >> \in Seq(Dvap!Letters)
  OBVIOUS
<1>3. Dvap!NoJob \in Dvap!Jobs /\ Dvap!NoJob.op = "none" /\ Dvap!NoJob.asks = << >>
  BY <1>1, <1>2, NotLinkedIs DEF Dvap!NoJob, Dvap!Jobs
<1>4. ASSUME NEW j \in Dvap!Jobs
      PROVE  [j EXCEPT !.op = "refresh", !.asks = DvapModules] \in Dvap!Jobs
  BY DEF Dvap!Jobs
<1>5. ASSUME NEW j \in Dvap!Jobs, j.asks # << >>
      PROVE  /\ [j EXCEPT !.asks = Tail(@)] \in Dvap!Jobs
             /\ [j EXCEPT !.asks = Tail(@)].op = j.op
             /\ [j EXCEPT !.asks = Tail(@)].asks = Tail(j.asks)
  <2>1. j.asks \in Seq(Dvap!Letters)
    BY DEF Dvap!Jobs
  <2>2. Tail(j.asks) \in Seq(Dvap!Letters)
    BY <2>1, <1>5, TailIs
  <2> QED
    BY <2>2 DEF Dvap!Jobs
<1> QED
  BY <1>3, <1>4, <1>5

\* What is about to be asked, when a refresh starts and when it has asked one.
LEMMA AsksAre ==
    ASSUME NEW s \in Seq(Dvap!Letters), s # << >>
    PROVE  {s[i] : i \in DOMAIN s} \ {Head(s)} \subseteq {Tail(s)[i] : i \in DOMAIN Tail(s)}
<1>1. /\ Tail(s) \in Seq(Dvap!Letters) /\ Len(Tail(s)) = Len(s) - 1 /\ Head(s) = s[1]
      /\ \A i \in 1 .. Len(s) - 1 : Tail(s)[i] = s[i + 1]
  BY TailIs
<1>2. DOMAIN s = 1 .. Len(s) /\ Len(s) \in Nat
  BY EmptyOrNot
<1>3. DOMAIN Tail(s) = 1 .. Len(Tail(s))
  BY <1>1, EmptyOrNot
<1>4. ASSUME NEW i \in DOMAIN s, s[i] # Head(s)
      PROVE  \E j \in DOMAIN Tail(s) : Tail(s)[j] = s[i]
  <2>1. i \in 1 .. Len(s) /\ i # 1
    BY <1>1, <1>2, <1>4
  <2>2. i - 1 \in 1 .. Len(s) - 1 /\ (i - 1) + 1 = i
    BY <2>1, <1>2
  <2>3. Tail(s)[i - 1] = s[i]
    BY <2>2, <1>1
  <2> QED
    BY <2>2, <2>3, <1>1, <1>3
<1> QED
  BY <1>4

\* The whole of the configured modules is to be asked when a refresh begins.
LEMMA RefreshAsksAll ==
    ASSUME c5'.op = "refresh", c5'.asks = DvapModules
    PROVE  Dvap!ToBeAsked' = Dvap!Letters
BY DEF Dvap!ToBeAsked, Dvap!Letters

\* A request that failed, or was refused, leaves the work typed and the cache true.
LEMMA FailsIs ==
    ASSUME DvapModules \in Seq(Dvap!Letters), DvapModules # << >>, Dvap!IInv, Dvap!Fails, UNCHANGED c1,
           c4.at \in {"login", "hash", "status"}
    PROVE  /\ c4' \in Dvap!Clients /\ c5' \in Dvap!Jobs /\ c6' \in [Dvap!Letters -> [reachable : BOOLEAN, link : Dvap!Targets]]
           /\ c4'.at \in {"next", "answered"} /\ Dvap!HasWork' /\ Dvap!CacheIsTrue'
           /\ c4'.authed = (c4.authed /\ ~(c4.at = "status" /\ ~c4.relogged))
<1> USE DEF Dvap!Typed
<1>t. Dvap!Typed /\ Dvap!HasWork /\ Dvap!CacheIsTrue
  BY DEF Dvap!IInv
<1>0. c5.op = "link" \/ c5.asks # << >>
  BY <1>t DEF Dvap!HasWork
<1>1. CASE c4.at = "status" /\ ~c4.relogged
  <2>1. c4' = [at |-> "next", tries |-> 0, authed |-> FALSE, relogged |-> TRUE] /\ UNCHANGED <<c5, c6>>
    BY <1>1 DEF Dvap!Fails
  <2>2. c4' \in Dvap!Clients
    BY <2>1 DEF Dvap!Clients, Dvap!Resting
  <2>3. Dvap!HasWork'
    BY <2>1, <1>0 DEF Dvap!HasWork
  <2>4. Dvap!CacheIsTrue'
    BY <2>1, <1>t DEF Dvap!CacheIsTrue, Dvap!ToBeAsked
  <2> QED
    BY <2>1, <2>2, <2>3, <2>4, <1>t, <1>1
<1>2. ASSUME NEW j \in Dvap!Jobs, Dvap!Proceeds(j, c4.authed)
      PROVE  /\ c4' \in Dvap!Clients /\ c5' \in Dvap!Jobs /\ c5' = j
             /\ c4'.at \in {"next", "answered"} /\ c4'.authed = c4.authed
             /\ (c4'.at = "answered" <=> j.asks = << >> /\ j.op # "link") /\ Dvap!HasWork'
  <2>1. c4.authed \in BOOLEAN
    BY <1>t DEF Dvap!Clients
  <2> QED
    BY <1>2, <2>1 DEF Dvap!Proceeds, Dvap!Clients, Dvap!Resting, Dvap!HasWork
<1>3. CASE ~(c4.at = "status" /\ ~c4.relogged) /\ c5.op = "refresh"
  <2>1. c6' = [c6 EXCEPT ![Dvap!Asked].reachable = FALSE] /\ Dvap!Proceeds([c5 EXCEPT !.asks = Tail(@)], c4.authed)
    BY <1>3 DEF Dvap!Fails
  <2>2. c5 \in Dvap!Jobs /\ c5.asks # << >> /\ c5.asks \in Seq(Dvap!Letters)
    BY <1>t, <1>0, <1>3 DEF Dvap!Jobs
  <2> DEFINE j == [c5 EXCEPT !.asks = Tail(@)]
  <2>3. j \in Dvap!Jobs /\ j.op = "refresh" /\ j.asks = Tail(c5.asks)
    BY <2>2, <1>3, JobsAre
  <2>4. /\ c4' \in Dvap!Clients /\ c5' \in Dvap!Jobs /\ c5' = j
        /\ c4'.at \in {"next", "answered"} /\ c4'.authed = c4.authed /\ Dvap!HasWork'
    BY <2>1, <2>3, <1>2
  <2> HIDE DEF j
  <2>5. Dvap!Asked = Head(c5.asks) /\ Dvap!Asked \in Dvap!Letters
    BY <2>2, <1>3, TailIs DEF Dvap!Asked
  <2>6. c6' \in [Dvap!Letters -> [reachable : BOOLEAN, link : Dvap!Targets]] /\ ~c6'[Dvap!Asked].reachable
        /\ \A m \in Dvap!Letters \ {Dvap!Asked} : c6'[m] = c6[m]
    BY <2>1, <2>5, <1>t
  <2>7. Dvap!ToBeAsked \ {Dvap!Asked} \subseteq Dvap!ToBeAsked'
    <3>1. {c5.asks[i] : i \in DOMAIN c5.asks} \ {Dvap!Asked} \subseteq {Tail(c5.asks)[i] : i \in DOMAIN Tail(c5.asks)}
      BY <2>2, <2>5, AsksAre
    <3>2. Dvap!ToBeAsked' = {Tail(c5.asks)[i] : i \in DOMAIN Tail(c5.asks)}
      BY <2>3, <2>4 DEF Dvap!ToBeAsked
    <3> QED
      BY <3>1, <3>2, <1>3 DEF Dvap!ToBeAsked
  <2>8. Dvap!CacheIsTrue'
    BY <2>6, <2>7, <1>t DEF Dvap!CacheIsTrue
  <2> QED
    BY <2>4, <2>6, <2>8, <1>3, <1>t DEF Dvap!Clients
<1>4. CASE ~(c4.at = "status" /\ ~c4.relogged) /\ c5.op # "refresh"
  <2>1. Dvap!Proceeds(Dvap!NoJob, c4.authed) /\ UNCHANGED c6
    BY <1>4 DEF Dvap!Fails
  <2>2. /\ c4' \in Dvap!Clients /\ c5' \in Dvap!Jobs /\ c5' = Dvap!NoJob
        /\ c4'.at \in {"next", "answered"} /\ c4'.authed = c4.authed /\ Dvap!HasWork'
    BY <2>1, <1>2, JobsAre
  <2>3. Dvap!ToBeAsked = {}
    BY <1>4 DEF Dvap!ToBeAsked
  <2>4. Dvap!CacheIsTrue'
    BY <2>1, <2>3, <1>t DEF Dvap!CacheIsTrue
  <2> QED
    BY <2>1, <2>2, <2>4, <1>4, <1>t DEF Dvap!Clients
<1> QED
  BY <1>1, <1>3, <1>4

\* Nothing is on its way to or from a client that rests.
LEMMA QuietIs ==
    ASSUME c2' = << >>, c3' = << >>, c4' \in Dvap!Clients, c4'.at \in Dvap!Resting
    PROVE  Dvap!AtRest' \/ Dvap!LoggedOut'
<1>1. c4'.authed \in BOOLEAN /\ DOMAIN << >> = {}
  BY DEF Dvap!Clients
<1> QED
  BY <1>1 DEF Dvap!AtRest, Dvap!LoggedOut

LEMMA GatewayServes ==
    ASSUME Dvap!IInv, Dvap!Gateway
    PROVE  Dvap!IInv'
<1>t. Dvap!Typed /\ Dvap!HasWork /\ Dvap!CacheIsTrue
  BY DEF Dvap!IInv
<1>n. c2 \in Seq(Dvap!Datagrams) /\ c3 \in Seq(Dvap!Datagrams) /\ c2 # << >> /\ c1.link \in [Dvap!Letters -> Dvap!Targets]
      /\ c1.authed \in BOOLEAN
  BY <1>t DEF Dvap!Typed, Dvap!Gateway
<1>u. UNCHANGED <<c4, c5, c6, c7>> /\ c2' = Tail(c2)
  BY DEF Dvap!Gateway
<1> DEFINE d == c2[1]
<1>d. /\ Head(c2) = d /\ d \in Dvap!Datagrams /\ Len(c2) \in Nat \ {0} /\ Len(c3) \in Nat
      /\ c2' \in Seq(Dvap!Datagrams) /\ Len(c2') = Len(c2) - 1 /\ \A i \in 1 .. Len(c2) - 1 : c2'[i] = c2[i + 1]
  BY <1>n, <1>u, TailIs, EmptyOrNot
<1>e. d.module \in Dvap!Letters /\ d.to \in Dvap!Targets
  BY <1>d DEF Dvap!Datagrams
<1> HIDE DEF d
<1>b. \/ /\ d.kind = "login"
         /\ c3' = Append(c3, Dvap!Msg("random", d.module, Dvap!NotLinked)) /\ UNCHANGED c1
      \/ /\ d.kind = "hash" /\ c1' = [c1 EXCEPT !.authed = TRUE]
         /\ c3' = Append(c3, Dvap!Msg("ack", d.module, Dvap!NotLinked))
      \/ /\ d.kind \in {"status", "link"} /\ ~c1.authed
         /\ c3' = Append(c3, Dvap!Msg("nak", d.module, Dvap!NotLinked)) /\ UNCHANGED c1
      \/ /\ d.kind = "status" /\ c1.authed
         /\ c3' = Append(c3, Dvap!Msg("repeater", d.module, c1.link[d.module])) /\ UNCHANGED c1
      \/ /\ d.kind \notin {"login", "hash", "status"}
         /\ c1' = [c1 EXCEPT !.link[d.module] = d.to] /\ UNCHANGED c3
  <2>1. CASE d.kind = "login"
    BY <1>d, <2>1 DEF Dvap!Gateway
  <2>2. CASE d.kind = "hash"
    BY <1>d, <2>2 DEF Dvap!Gateway
  <2>3. CASE d.kind \in {"status", "link"} /\ ~c1.authed
    <3>1. CASE d.kind = "status"
      <4>1. d.kind # "login" /\ d.kind # "hash"
        BY <3>1
      <4> QED
        BY <1>d, <2>3, <3>1, <4>1 DEF Dvap!Gateway
    <3>2. CASE d.kind = "link"
      <4>1. d.kind # "login" /\ d.kind # "hash"
        BY <3>2
      <4> QED
        BY <1>d, <2>3, <3>2, <4>1 DEF Dvap!Gateway
    <3> QED
      BY <2>3, <3>1, <3>2
  <2>4. CASE d.kind = "status" /\ c1.authed
    <3>1. d.kind # "login" /\ d.kind # "hash"
      BY <2>4
    <3> QED
      BY <1>d, <2>4, <3>1 DEF Dvap!Gateway
  <2>5. CASE d.kind \notin {"login", "hash", "status"} /\ ~(d.kind = "link" /\ ~c1.authed)
    <3>1. d.kind # "login" /\ d.kind # "hash" /\ d.kind # "status"
      BY <2>5
    <3>2. c1' = [c1 EXCEPT !.link[d.module] = d.to] /\ UNCHANGED c3
      BY <1>d, <2>5, <3>1 DEF Dvap!Gateway
    <3> QED
      BY <3>1, <3>2
  <2> QED
    BY <2>1, <2>2, <2>3, <2>4, <2>5
<1>a. ASSUME NEW kind \in {"random", "ack", "nak", "repeater"}, NEW to \in Dvap!Targets,
             c3' = Append(c3, Dvap!Msg(kind, d.module, to))
      PROVE  /\ c3' \in Seq(Dvap!Datagrams) /\ Len(c3') = Len(c3) + 1
             /\ c3'[Len(c3) + 1].kind = kind /\ c3'[Len(c3) + 1].to = to
             /\ \A i \in 1 .. Len(c3) : c3'[i] = c3[i]
  BY <1>a, <1>e, <1>n, MsgIs, AppendIs
<1>w. c1.link[d.module] \in Dvap!Targets
  BY <1>e, <1>n
<1>r. c3' \in Seq(Dvap!Datagrams)
  BY <1>b, <1>a, <1>n, <1>w, NotLinkedIs
<1>g. c1' \in [link : [Dvap!Letters -> Dvap!Targets], authed : BOOLEAN]
  <2>1. c1 \in [link : [Dvap!Letters -> Dvap!Targets], authed : BOOLEAN]
    BY <1>t DEF Dvap!Typed
  <2>2. [c1 EXCEPT !.authed = TRUE] \in [link : [Dvap!Letters -> Dvap!Targets], authed : BOOLEAN]
    BY <2>1
  <2>3. [c1 EXCEPT !.link[d.module] = d.to] \in [link : [Dvap!Letters -> Dvap!Targets], authed : BOOLEAN]
    BY <2>1, <1>e
  <2>4. c1' = c1 \/ c1' = [c1 EXCEPT !.authed = TRUE] \/ c1' = [c1 EXCEPT !.link[d.module] = d.to]
    BY <1>b
  <2> QED
    BY <2>1, <2>2, <2>3, <2>4
<1>1. Dvap!Typed'
  BY <1>g, <1>r, <1>d, <1>u, <1>t DEF Dvap!Typed
<1>2. Dvap!HasWork'
  BY <1>u, <1>t DEF Dvap!HasWork
<1>s. DOMAIN c2' = 1 .. Len(c2') /\ DOMAIN c3' = 1 .. Len(c3')
      /\ (c2' = << >> <=> Len(c2') = 0) /\ (c3' = << >> <=> Len(c3') = 0)
  BY <1>1, EmptyOrNot DEF Dvap!Typed
<1>o. (Dvap!Ordered' <=> Dvap!Ordered) /\ Dvap!Asked' = Dvap!Asked
  BY <1>u DEF Dvap!Ordered, Dvap!Asked
<1>k. UNCHANGED c1.link => Dvap!CacheIsTrue'
  BY <1>u, <1>t DEF Dvap!CacheIsTrue, Dvap!ToBeAsked
<1>l. Dvap!Ordered => Dvap!CacheIsTrue'
  BY <1>u, <1>o DEF Dvap!CacheIsTrue, Dvap!ToBeAsked, Dvap!Ordered, Dvap!Letters
<1>3. CASE Dvap!AtRest
  <2>1. Len(c2) = 1 /\ d.kind = "link" /\ Len(c3) = 0 /\ Dvap!Ordered /\ c4.at \in Dvap!Resting /\ c4.authed
    BY <1>3, <1>n, <1>d, PhasesAre DEF d
  <2>2. c2' = << >>
    BY <2>1, <1>d, <1>s
  <2>3. CASE c1.authed
    <3>1. c3' = c3
      BY <2>1, <2>3, <1>b
    <3>2. c3' = << >>
      BY <3>1, <2>1, <1>s
    <3>3. Dvap!AtRest'
      BY <2>1, <2>2, <3>2, <1>u DEF Dvap!AtRest
    <3> QED
      BY <3>3, <1>1, <1>2, <1>l, <2>1 DEF Dvap!IInv
  <2>4. CASE ~c1.authed
    <3>2. Dvap!Kinds(c3', <<"nak">>) /\ ~c1'.authed
      <4>1. c3' = Append(c3, Dvap!Msg("nak", d.module, Dvap!NotLinked)) /\ UNCHANGED c1
        <5>1. d.kind # "login" /\ d.kind # "hash" /\ d.kind # "status" /\ d.kind = "link"
          BY <2>1
        <5> QED
          BY <1>d, <2>4, <5>1 DEF Dvap!Gateway
      <4>2. Len(c3') = 1 /\ c3'[1].kind = "nak"
        BY <4>1, <1>a, NotLinkedIs, <2>1
      <4> QED
        BY <4>1, <4>2, <2>4, <1>r, KindsAre
    <3>3. Dvap!AtRest'
      BY <2>1, <2>2, <3>2, <1>u, <1>o DEF Dvap!AtRest
    <3> QED
      BY <3>3, <1>1, <1>2, <1>l, <2>1 DEF Dvap!IInv
  <2> QED
    BY <2>3, <2>4
<1>4. CASE Dvap!LoggedOut
  <2>1. /\ c4.at \in Dvap!Resting \cup {"login"} /\ ~c4.authed
        /\ \A i \in 1 .. Len(c2) : \/ c2[i].kind = "login"
                                   \/ i = 1 /\ c2[1].kind = "status" /\ Len(c3) = 0 /\ ~c1.authed
        /\ \A i \in 1 .. Len(c3) : c3[i].kind = "random" \/ (i = 1 /\ c3[1].kind = "nak")
    BY <1>4, <1>n, PhasesAre
  <2>2. \A i \in 1 .. Len(c2') : c2'[i].kind = "login"
    BY <2>1, <1>d
  <2>3. d.kind = "login" \/ (d.kind = "status" /\ Len(c3) = 0 /\ ~c1.authed)
    BY <2>1, <1>d DEF d
  <2>4. UNCHANGED c1 /\ \A i \in 1 .. Len(c3') : c3'[i].kind = "random" \/ (i = 1 /\ c3'[1].kind = "nak")
    <3>1. CASE d.kind = "login"
      <4>1. c3' = Append(c3, Dvap!Msg("random", d.module, Dvap!NotLinked)) /\ UNCHANGED c1
        BY <3>1, <1>b
      <4>2. /\ Len(c3') = Len(c3) + 1 /\ c3'[Len(c3) + 1].kind = "random"
            /\ \A i \in 1 .. Len(c3) : c3'[i] = c3[i]
        BY <4>1, <1>a, NotLinkedIs
      <4> QED
        BY <4>1, <4>2, <2>1, <1>d
    <3>2. CASE d.kind = "status" /\ Len(c3) = 0 /\ ~c1.authed
      <4>1. c3' = Append(c3, Dvap!Msg("nak", d.module, Dvap!NotLinked)) /\ UNCHANGED c1
        BY <3>2, <1>b
      <4>2. Len(c3') = 1 /\ c3'[1].kind = "nak"
        BY <4>1, <1>a, NotLinkedIs, <3>2
      <4> QED
        BY <4>1, <4>2
    <3> QED
      BY <2>3, <3>1, <3>2
  <2>5. Dvap!LoggedOut'
    BY <2>1, <2>2, <2>4, <1>s, <1>u DEF Dvap!LoggedOut
  <2> QED
    BY <2>4, <2>5, <1>1, <1>2, <1>k DEF Dvap!IInv
<1>5. CASE Dvap!AtHash
  <2>1. /\ c4.at = "hash" /\ ~c4.authed
        /\ \A i \in 1 .. Len(c2) : c2[i].kind = "login" \/ (i = Len(c2) /\ c2[i].kind = "hash")
        /\ \A i \in 1 .. Len(c3) : c3[i].kind = "random"
    BY <1>5, <1>n, <1>d, PhasesAre
  <2>2. \A i \in 1 .. Len(c2') : c2'[i].kind = "login" \/ (i = Len(c2') /\ c2'[i].kind = "hash")
    BY <2>1, <1>d
  <2>3. d.kind = "login" \/ (d.kind = "hash" /\ Len(c2) = 1)
    BY <2>1, <1>d DEF d
  <2>4. /\ c1'.link = c1.link
        /\ \A i \in 1 .. Len(c3') : \/ c3'[i].kind = "random"
                                    \/ i = Len(c3') /\ c3'[i].kind = "ack" /\ c2' = << >>
    <3>1. CASE d.kind = "login"
      <4>1. c3' = Append(c3, Dvap!Msg("random", d.module, Dvap!NotLinked)) /\ UNCHANGED c1
        BY <3>1, <1>b
      <4>2. /\ Len(c3') = Len(c3) + 1 /\ c3'[Len(c3) + 1].kind = "random"
            /\ \A i \in 1 .. Len(c3) : c3'[i] = c3[i]
        BY <4>1, <1>a, NotLinkedIs
      <4> QED
        BY <4>1, <4>2, <2>1, <1>d
    <3>2. CASE d.kind = "hash" /\ Len(c2) = 1
      <4>1. c3' = Append(c3, Dvap!Msg("ack", d.module, Dvap!NotLinked)) /\ c1' = [c1 EXCEPT !.authed = TRUE]
        BY <3>2, <1>b
      <4>2. /\ Len(c3') = Len(c3) + 1 /\ c3'[Len(c3) + 1].kind = "ack"
            /\ \A i \in 1 .. Len(c3) : c3'[i] = c3[i]
        BY <4>1, <1>a, NotLinkedIs
      <4>3. c2' = << >> /\ c1'.link = c1.link
        BY SMTT(30), <4>1, <3>2, <1>d, <1>s, <1>t DEF Dvap!Typed
      <4> QED
        BY <4>2, <4>3, <2>1, <1>d
    <3> QED
      BY <2>3, <3>1, <3>2
  <2>5. Dvap!AtHash'
    BY <2>1, <2>2, <2>4, <1>s, <1>u DEF Dvap!AtHash
  <2> QED
    BY <2>4, <2>5, <1>1, <1>2, <1>k DEF Dvap!IInv
<1>6. CASE Dvap!AtStatus
  <2>0. c4.at = "status" /\ c4.authed /\ c5.op # "link" /\ c5.asks # << >>
    BY <1>6 DEF Dvap!AtStatus
  <2>1. \/ /\ Len(c2) = 2 /\ d.kind = "link" /\ c2[2].kind = "status" /\ c2[2].module = Dvap!Asked
           /\ Len(c3) = 0 /\ Dvap!Ordered
        \/ Len(c2) = 1 /\ d.kind = "status" /\ d.module = Dvap!Asked /\ Len(c3) = 0
        \/ /\ Len(c2) = 1 /\ d.kind = "status" /\ Len(c3) = 1 /\ c3[1].kind = "nak"
           /\ ~c1.authed /\ ~c4.relogged
    BY <1>6, <1>n, <1>d, PhasesAre DEF d
  <2>2. CASE /\ Len(c2) = 2 /\ d.kind = "link" /\ c2[2].kind = "status" /\ c2[2].module = Dvap!Asked
             /\ Len(c3) = 0 /\ Dvap!Ordered
    <3>1. Dvap!Kinds(c2', <<"status">>) /\ c2'[1].module = Dvap!Asked'
      <4>1. Len(c2') = 1 /\ c2'[1] = c2[2]
        BY <2>2, <1>d
      <4> QED
        BY <4>1, <2>2, <1>d, <1>o, KindsAre
    <3>2. c3' = << >> \/ (Dvap!Kinds(c3', <<"nak">>) /\ ~c1'.authed)
      <4>1. CASE c1.authed
        <5>1. c3' = c3
          BY <2>2, <4>1, <1>b
        <5> QED
          BY <5>1, <2>2, <1>s
      <4>2. CASE ~c1.authed
        <5>1. c3' = Append(c3, Dvap!Msg("nak", d.module, Dvap!NotLinked)) /\ UNCHANGED c1
          <6>1. d.kind # "login" /\ d.kind # "hash" /\ d.kind # "status" /\ d.kind = "link"
            BY <2>2
          <6> QED
            BY <1>d, <4>2, <6>1 DEF Dvap!Gateway
        <5>2. Len(c3') = 1 /\ c3'[1].kind = "nak"
          BY <5>1, <1>a, NotLinkedIs, <2>2
        <5> QED
          BY <5>1, <5>2, <4>2, <1>r, KindsAre
      <4> QED
        BY <4>1, <4>2
    <3>3. ~c4'.relogged
      BY <2>2, <1>u DEF Dvap!Ordered
    <3>4. Dvap!AtStatus'
      BY <3>1, <3>2, <3>3, <2>0, <1>u DEF Dvap!AtStatus
    <3> QED
      BY <3>4, <2>2, <1>1, <1>2, <1>l DEF Dvap!IInv
  <2>3. CASE Len(c2) = 1 /\ d.kind = "status" /\ d.module = Dvap!Asked /\ Len(c3) = 0
    <3>1. c2' = << >> /\ UNCHANGED c1
      BY <2>3, <1>d, <1>s, <1>b
    <3>2. \/ Dvap!Kinds(c3', <<"nak">>) /\ ~c1'.authed
          \/ Dvap!Kinds(c3', <<"repeater">>) /\ c3'[1].to = c1'.link[Dvap!Asked']
      <4>1. CASE c1.authed
        <5>1. c3' = Append(c3, Dvap!Msg("repeater", d.module, c1.link[d.module]))
          BY <4>1, <2>3, <1>b
        <5>2. Len(c3') = 1 /\ c3'[1].kind = "repeater" /\ c3'[1].to = c1.link[d.module]
          BY <5>1, <1>a, <1>w, <2>3
        <5> QED
          BY <5>2, <3>1, <2>3, <1>o, <1>r, KindsAre
      <4>2. CASE ~c1.authed
        <5>1. c3' = Append(c3, Dvap!Msg("nak", d.module, Dvap!NotLinked))
          BY <4>2, <2>3, <1>b
        <5>2. Len(c3') = 1 /\ c3'[1].kind = "nak"
          BY <5>1, <1>a, NotLinkedIs, <2>3
        <5> QED
          BY <5>2, <3>1, <4>2, <1>r, KindsAre
      <4> QED
        BY <4>1, <4>2
    <3>3. Dvap!AtStatus'
      BY <3>1, <3>2, <2>0, <1>u DEF Dvap!AtStatus
    <3> QED
      BY <3>1, <3>3, <1>1, <1>2, <1>k DEF Dvap!IInv
  <2>4. CASE /\ Len(c2) = 1 /\ d.kind = "status" /\ Len(c3) = 1 /\ c3[1].kind = "nak"
             /\ ~c1.authed /\ ~c4.relogged
    <3>1. c2' = << >>
      BY <2>4, <1>d, <1>s
    <3>2. c3' = Append(c3, Dvap!Msg("nak", d.module, Dvap!NotLinked)) /\ UNCHANGED c1
      BY <2>4, <1>b
    <3>3. Len(c3') = 2 /\ c3'[2].kind = "nak" /\ c3'[1] = c3[1]
      BY <3>2, <1>a, NotLinkedIs, <2>4
    <3>4. Dvap!Kinds(c3', <<"nak", "nak">>)
      BY <3>3, <2>4, <1>r, KindsAre
    <3>5. Dvap!AtStatus'
      BY <3>1, <3>2, <3>4, <2>4, <2>0, <1>u DEF Dvap!AtStatus
    <3> QED
      BY <3>2, <3>5, <1>1, <1>2, <1>k DEF Dvap!IInv
  <2> QED
    BY <2>1, <2>2, <2>3, <2>4
<1> QED
  BY <1>3, <1>4, <1>5, <1>6 DEF Dvap!IInv

LEMMA RestartKeeps ==
    ASSUME Dvap!IInv, Dvap!Restarts
    PROVE  Dvap!IInv'
<1>1. /\ c1' = [c1 EXCEPT !.authed = FALSE] /\ UNCHANGED <<c2, c3, c4, c5, c6>>
      /\ c1 \in [link : [Dvap!Letters -> Dvap!Targets], authed : BOOLEAN]
  BY DEF Dvap!Restarts, Dvap!IInv, Dvap!Typed
<1>2. c1' \in [link : [Dvap!Letters -> Dvap!Targets], authed : BOOLEAN] /\ c1'.link = c1.link /\ ~c1'.authed
  BY <1>1
<1>3. Dvap!Typed' /\ Dvap!HasWork' /\ Dvap!CacheIsTrue' /\ (Dvap!Ordered' <=> Dvap!Ordered) /\ Dvap!Asked' = Dvap!Asked
  <2>1. Dvap!Typed'
    BY <1>1, <1>2 DEF Dvap!IInv, Dvap!Typed
  <2>2. Dvap!HasWork' /\ (Dvap!Ordered' <=> Dvap!Ordered) /\ Dvap!Asked' = Dvap!Asked
    BY <1>1 DEF Dvap!IInv, Dvap!HasWork, Dvap!Ordered, Dvap!Asked
  <2>3. Dvap!ToBeAsked' = Dvap!ToBeAsked
    BY <1>1 DEF Dvap!ToBeAsked
  <2>4. Dvap!CacheIsTrue'
    BY <1>1, <1>2, <2>3 DEF Dvap!IInv, Dvap!CacheIsTrue
  <2> QED
    BY <2>1, <2>2, <2>4
<1>4. Dvap!AtRest => Dvap!AtRest'
  BY <1>1, <1>2, <1>3 DEF Dvap!AtRest
<1>5. Dvap!LoggedOut => Dvap!LoggedOut'
  BY <1>1, <1>2 DEF Dvap!LoggedOut
<1>6. Dvap!AtHash => Dvap!AtHash'
  BY <1>1 DEF Dvap!AtHash
<1>7. Dvap!AtStatus => Dvap!AtStatus'
  BY <1>1, <1>2, <1>3 DEF Dvap!AtStatus
<1> QED
  BY <1>3, <1>4, <1>5, <1>6, <1>7 DEF Dvap!IInv

\* What a datagram lost from a queue leaves.
LEMMA LossKeeps ==
    ASSUME Dvap!IInv, Dvap!Loses
    PROVE  Dvap!IInv'
<1>t. Dvap!Typed /\ Dvap!HasWork /\ Dvap!CacheIsTrue /\ c2 \in Seq(Dvap!Datagrams) /\ c3 \in Seq(Dvap!Datagrams)
  BY DEF Dvap!IInv, Dvap!Typed
<1>u. UNCHANGED <<c1, c4, c5, c6>>
  BY DEF Dvap!Loses
<1>o. (Dvap!Ordered' <=> Dvap!Ordered) /\ Dvap!Asked' = Dvap!Asked /\ Dvap!HasWork' /\ Dvap!CacheIsTrue'
  BY <1>u, <1>t DEF Dvap!HasWork, Dvap!CacheIsTrue, Dvap!ToBeAsked, Dvap!Ordered, Dvap!Asked
<1>z. Len(c2) \in Nat /\ Len(c3) \in Nat /\ (c2 = << >> <=> Len(c2) = 0) /\ (c3 = << >> <=> Len(c3) = 0)
  BY <1>t, EmptyOrNot
<1>1. CASE c2 # << >> /\ Head(c2).kind # "link" /\ c2' = Tail(c2) /\ UNCHANGED c3
  <2>1. /\ c2' \in Seq(Dvap!Datagrams) /\ Len(c2') = Len(c2) - 1 /\ Head(c2) = c2[1] /\ Len(c2) # 0
        /\ \A i \in 1 .. Len(c2) - 1 : c2'[i] = c2[i + 1]
    BY <1>1, <1>t, <1>z, TailIs
  <2>2. DOMAIN c2' = 1 .. Len(c2') /\ (c2' = << >> <=> Len(c2') = 0)
    BY <2>1, EmptyOrNot
  <2>3. Dvap!Typed'
    BY ZenonT(40), <2>1, <1>1, <1>u, <1>t DEF Dvap!Typed
  <2>4. ~Dvap!AtRest
    BY <1>1, <1>t, <1>z, <2>1, PhasesAre
  <2>5. CASE Dvap!LoggedOut
    <3>1. \A i \in 1 .. Len(c2') : c2'[i].kind = "login"
      BY <2>5, <2>1, <1>t, <1>z, PhasesAre
    <3>2. Dvap!LoggedOut'
      BY <3>1, <2>2, <2>5, <1>1, <1>u DEF Dvap!LoggedOut
    <3> QED
      BY <3>2, <2>3, <1>o DEF Dvap!IInv
  <2>6. CASE Dvap!AtHash
    <3>1. \A i \in 1 .. Len(c2) : c2[i].kind = "login" \/ (i = Len(c2) /\ c2[i].kind = "hash")
      BY <2>6, <1>t, PhasesAre
    <3>2. \A i \in 1 .. Len(c2') : c2'[i].kind = "login" \/ (i = Len(c2') /\ c2'[i].kind = "hash")
      BY <3>1, <2>1, <1>z
    <3>3. Dvap!AtHash'
      BY <3>2, <2>2, <2>6, <1>1, <1>u DEF Dvap!AtHash
    <3> QED
      BY ZenonT(40), <3>3, <2>3, <1>o DEF Dvap!IInv
  <2>7. CASE Dvap!AtStatus
    <3>1. Len(c2) = 1 /\ (Len(c3) = 0 \/ (Len(c3) = 1 /\ c3[1].kind = "nak" /\ ~c1.authed))
      BY <2>7, <2>1, <1>1, <1>t, PhasesAre
    <3>2. c2' = << >> /\ (c3' = << >> \/ (Dvap!Kinds(c3', <<"nak">>) /\ ~c1'.authed))
      <4>1. c2' = << >>
        BY <3>1, <2>1, <2>2
      <4>2. c3' = c3 /\ c1' = c1
        BY <1>1, <1>u
      <4>3. c3 = << >> \/ (Dvap!Kinds(c3, <<"nak">>) /\ ~c1.authed)
        BY <3>1, <1>t, <1>z, KindsAre
      <4> QED
        BY <4>1, <4>2, <4>3
    <3>3. Dvap!AtStatus'
      BY <3>2, <2>7, <1>u DEF Dvap!AtStatus
    <3> QED
      BY ZenonT(40), <3>3, <2>3, <1>o DEF Dvap!IInv
  <2> QED
    BY <2>4, <2>5, <2>6, <2>7 DEF Dvap!IInv
<1>2. CASE c3 # << >> /\ c3' = Tail(c3) /\ UNCHANGED c2
  <2>1. /\ c3' \in Seq(Dvap!Datagrams) /\ Len(c3') = Len(c3) - 1 /\ Len(c3) # 0
        /\ \A i \in 1 .. Len(c3) - 1 : c3'[i] = c3[i + 1]
    BY <1>2, <1>t, <1>z, TailIs
  <2>2. /\ DOMAIN c3' = 1 .. Len(c3') /\ (c3' = << >> <=> Len(c3') = 0)
        /\ DOMAIN c2 = 1 .. Len(c2)
    BY <2>1, <1>t, EmptyOrNot
  <2>3. Dvap!Typed'
    BY <2>1, <1>2, <1>u, <1>t DEF Dvap!Typed
  <2>4. CASE Dvap!AtRest
    <3>1. c2' = << >> /\ c3' = << >> /\ c4'.at \in Dvap!Resting /\ c4'.authed
      <4>1. Len(c2) = 0 /\ Len(c3) = 1 /\ c4.at \in Dvap!Resting /\ c4.authed
        BY <2>4, <2>1, <1>t, PhasesAre
      <4>2. Len(c3') = 0
        BY <4>1, <2>1
      <4> QED
        BY <4>1, <4>2, <2>2, <1>2, <1>u, <1>z
    <3> QED
      BY <3>1, <2>3, <1>o DEF Dvap!IInv, Dvap!AtRest
  <2>5. CASE Dvap!LoggedOut
    <3>1. /\ \A i \in 1 .. Len(c2) : c2[i].kind = "login"
          /\ \A i \in 1 .. Len(c3') : c3'[i].kind = "random"
      BY <2>5, <2>1, <1>t, <1>z, PhasesAre
    <3>2. Dvap!LoggedOut'
      BY <3>1, <2>2, <2>5, <1>2, <1>u DEF Dvap!LoggedOut
    <3> QED
      BY <3>2, <2>3, <1>o DEF Dvap!IInv
  <2>6. CASE Dvap!AtHash
    <3>1. \A i \in 1 .. Len(c3') : \/ c3'[i].kind = "random"
                                   \/ i = Len(c3') /\ c3'[i].kind = "ack" /\ c2 = << >>
      BY <2>6, <2>1, <1>t, <1>z, PhasesAre
    <3>2. Dvap!AtHash'
      BY <3>1, <2>2, <2>6, <1>2, <1>u DEF Dvap!AtHash
    <3> QED
      BY <3>2, <2>3, <1>o DEF Dvap!IInv
  <2>7. CASE Dvap!AtStatus
    <3>1. \/ Len(c2) = 1 /\ c2[1].kind = "status" /\ c2[1].module = Dvap!Asked /\ Len(c3) = 1
          \/ Len(c2) = 0 /\ Len(c3) = 1
          \/ Len(c2) = 0 /\ Len(c3) = 2 /\ c3[2].kind = "nak" /\ ~c1.authed
      BY <2>7, <2>1, <1>t, PhasesAre
    <3>2. \/ Dvap!Kinds(c2', <<"status">>) /\ c2'[1].module = Dvap!Asked' /\ c3' = << >>
          \/ c2' = << >> /\ c3' = << >>
          \/ c2' = << >> /\ Dvap!Kinds(c3', <<"nak">>) /\ ~c1'.authed
      <4>1. CASE Len(c3) = 1
        <5>1. Len(c3') = 0
          BY <4>1, <2>1
        <5>2. c3' = << >> /\ c2' = c2 /\ Dvap!Asked' = Dvap!Asked
          BY <5>1, <2>2, <1>2, <1>o
        <5>3. Len(c2) = 0 \/ (Len(c2) = 1 /\ c2[1].kind = "status" /\ c2[1].module = Dvap!Asked)
          BY <4>1, <3>1
        <5>4. c2 = << >> \/ (Dvap!Kinds(c2, <<"status">>) /\ c2[1].module = Dvap!Asked)
          BY <5>3, <1>t, <1>z, KindsAre
        <5> QED
          BY <5>2, <5>4
      <4>2. CASE Len(c3) = 2
        <5>1. Len(c3') = 1 /\ c3'[1] = c3[2]
          BY <4>2, <2>1
        <5> QED
          <6>1. Len(c2) = 0 /\ c3'[1].kind = "nak" /\ ~c1.authed
            BY <4>2, <5>1, <3>1
          <6>2. Dvap!Kinds(c3', <<"nak">>)
            BY <5>1, <6>1, <2>1, KindsAre
          <6> QED
            BY <6>1, <6>2, <1>2, <1>u, <1>z
      <4> QED
        BY <3>1, <4>1, <4>2
    <3>3. Dvap!AtStatus'
      BY <3>2, <2>7, <1>u DEF Dvap!AtStatus
    <3> QED
      BY ZenonT(40), <3>3, <2>3, <1>o DEF Dvap!IInv
  <2> QED
    BY <2>4, <2>5, <2>6, <2>7 DEF Dvap!IInv
<1> QED
  BY <1>1, <1>2 DEF Dvap!Loses

LEMMA StartKeeps ==
    ASSUME DvapModules \in Seq(Dvap!Letters), DvapModules # << >>, Dvap!IInv, NEW j \in Dvap!Jobs, Dvap!Starts(j),
           j.asks # << >> \/ j.op = "link"
    PROVE  Dvap!IInv'
<1>t. Dvap!Typed /\ Dvap!HasWork /\ Dvap!CacheIsTrue
  BY DEF Dvap!IInv
<1>1. /\ c4.at = "idle" /\ c5' = j /\ c4' = [c4 EXCEPT !.at = "next"]
      /\ UNCHANGED <<c1, c2, c3, c6>> /\ c4 \in Dvap!Clients
  BY <1>t DEF Dvap!Starts, Dvap!Typed
<1>2. /\ c4' \in Dvap!Clients /\ c4'.at = "next" /\ c4'.authed = c4.authed
      /\ c4'.relogged = c4.relogged
  BY <1>1 DEF Dvap!Clients, Dvap!Resting
<1>3. Dvap!Typed' /\ Dvap!HasWork'
  BY <1>1, <1>2, <1>t DEF Dvap!Typed, Dvap!HasWork
<1>4. c5.asks = << >>
  BY <1>1, <1>t DEF Dvap!HasWork
<1>5. Dvap!ToBeAsked = {} /\ ~Dvap!Ordered
  <2>1. DOMAIN << >> = {}
    OBVIOUS
  <2> QED
    BY <1>4, <2>1 DEF Dvap!ToBeAsked, Dvap!Ordered
<1>6. Dvap!CacheIsTrue'
  BY <1>1, <1>5, <1>t DEF Dvap!CacheIsTrue
<1>7. Dvap!AtRest \/ Dvap!LoggedOut
  BY <1>1 DEF Dvap!IInv, Dvap!AtHash, Dvap!AtStatus
<1>8. CASE Dvap!AtRest
  <2>1. c2' = << >> /\ c3' = << >> /\ c4'.authed /\ c4'.at \in Dvap!Resting
    BY <1>8, <1>1, <1>2, <1>5 DEF Dvap!AtRest, Dvap!Resting
  <2> QED
    BY <2>1, <1>3, <1>6 DEF Dvap!IInv, Dvap!AtRest
<1>9. CASE Dvap!LoggedOut
  <2>1. Dvap!LoggedOut'
    BY <1>9, <1>1, <1>2 DEF Dvap!LoggedOut, Dvap!Resting
  <2> QED
    BY <2>1, <1>3, <1>6 DEF Dvap!IInv
<1> QED
  BY <1>7, <1>8, <1>9

\* A request goes out: a login, a link order, or a question.
LEMMA RequestKeeps ==
    ASSUME DvapModules \in Seq(Dvap!Letters), DvapModules # << >>, Dvap!IInv, Dvap!_request
    PROVE  Dvap!IInv'
<1>t. /\ Dvap!Typed /\ Dvap!HasWork /\ Dvap!CacheIsTrue /\ c2 \in Seq(Dvap!Datagrams) /\ c4 \in Dvap!Clients /\ c5 \in Dvap!Jobs
      /\ c3 \in Seq(Dvap!Datagrams)
  BY DEF Dvap!IInv, Dvap!Typed
<1>j. c5.module \in Dvap!Letters /\ c5.to \in Dvap!Targets /\ c5.asks \in Seq(Dvap!Letters)
  BY <1>t DEF Dvap!Jobs
<1>c. c4.at = "next" /\ c4.authed \in BOOLEAN /\ c4.tries \in Nat
  BY <1>t DEF Dvap!_request, Dvap!Clients
<1>u. UNCHANGED <<c1, c3, c6, c7>>
  BY DEF Dvap!_request
<1>w. c5.asks # << >> \/ c5.op = "link"
  BY DEF Dvap!_request
<1>z. Len(c2) \in Nat /\ (c2 = << >> <=> Len(c2) = 0)
  BY <1>t, EmptyOrNot
<1>a. ASSUME NEW d \in Dvap!Datagrams, c2' = Append(c2, d)
      PROVE  /\ c2' \in Seq(Dvap!Datagrams) /\ Len(c2') = Len(c2) + 1 /\ c2'[Len(c2) + 1] = d
             /\ \A i \in 1 .. Len(c2) : c2'[i] = c2[i]
             /\ DOMAIN c2' = 1 .. Len(c2')
  BY <1>a, <1>t, AppendIs, EmptyOrNot
<1>s. ASSUME NEW kind \in {"login", "status"}, NEW d \in Dvap!Datagrams, d.kind = kind, Dvap!Sends(d), UNCHANGED c5
      PROVE  /\ Dvap!Typed' /\ Dvap!HasWork' /\ Dvap!CacheIsTrue'
             /\ c4'.at = kind /\ c4'.authed = c4.authed /\ c4'.relogged = c4.relogged
             /\ c2' = Append(c2, d) /\ (Dvap!Ordered' <=> Dvap!Ordered) /\ Dvap!Asked' = Dvap!Asked
  <2>1. c2' = Append(c2, d) /\ c4' = [c4 EXCEPT !.at = kind, !.tries = @ + 1]
    BY <1>s DEF Dvap!Sends
  <2>2. /\ c4' \in Dvap!Clients /\ c4'.at = kind /\ c4'.authed = c4.authed
        /\ c4'.relogged = c4.relogged
    <3>1. c4.tries + 1 \in Nat /\ kind \in Dvap!Resting \cup {"login", "hash", "status"}
      BY <1>c DEF Dvap!Resting
    <3> QED
      BY <2>1, <3>1, <1>t DEF Dvap!Clients
  <2>3. Dvap!Typed'
    BY <2>1, <2>2, <1>a, <1>s, <1>u, <1>t DEF Dvap!Typed
  <2>4. Dvap!HasWork'
    BY <2>2, <1>w, <1>s DEF Dvap!HasWork
  <2>5. Dvap!ToBeAsked' = Dvap!ToBeAsked
    BY <1>s DEF Dvap!ToBeAsked
  <2>6. Dvap!CacheIsTrue'
    BY <2>5, <1>u, <1>t DEF Dvap!CacheIsTrue
  <2>7. (Dvap!Ordered' <=> Dvap!Ordered) /\ Dvap!Asked' = Dvap!Asked
    BY <2>2, <1>s DEF Dvap!Ordered, Dvap!Asked
  <2> QED
    BY <2>1, <2>2, <2>3, <2>4, <2>6, <2>7
<1>1. CASE ~c4.authed
  <2> DEFINE d == Dvap!Msg("login", c5.module, Dvap!NotLinked)
  <2>1. Dvap!Sends(d) /\ UNCHANGED c5 /\ d \in Dvap!Datagrams /\ d.kind = "login"
    BY <1>1, <1>j, NotLinkedIs, MsgIs DEF Dvap!_request
  <2> HIDE DEF d
  <2>2. /\ Dvap!Typed' /\ Dvap!HasWork' /\ Dvap!CacheIsTrue' /\ c4'.at = "login" /\ ~c4'.authed /\ c2' = Append(c2, d)
    BY <2>1, <1>1, <1>s
  <2>3. Dvap!LoggedOut
    BY <1>1, <1>c DEF Dvap!IInv, Dvap!AtRest, Dvap!AtHash, Dvap!AtStatus
  <2>4. /\ \A i \in 1 .. Len(c2) : \/ c2[i].kind = "login"
                                   \/ i = 1 /\ c2[1].kind = "status" /\ Len(c3) = 0 /\ ~c1.authed
    BY <2>3, <1>t, PhasesAre
  <2>5. \A i \in DOMAIN c2' : \/ c2'[i].kind = "login"
                              \/ i = 1 /\ c2'[1].kind = "status" /\ Len(c3) = 0 /\ ~c1.authed
    BY <2>1, <2>2, <2>4, <1>a, <1>z
  <2>6. Len(c3) = 0 => c3 = << >>
    BY <1>t, EmptyOrNot
  <2>7. Dvap!LoggedOut'
    BY <2>2, <2>3, <2>5, <2>6, <1>u DEF Dvap!LoggedOut
  <2> QED
    BY <2>2, <2>7 DEF Dvap!IInv
<1>r. CASE c4.authed
  <2>1. Dvap!AtRest
    BY <1>r, <1>c DEF Dvap!IInv, Dvap!LoggedOut, Dvap!AtHash, Dvap!AtStatus
  <2>2. \/ Len(c2) = 0 /\ c3 = << >>
        \/ Len(c2) = 1 /\ c2[1].kind = "link" /\ c3 = << >> /\ Dvap!Ordered
        \/ Len(c2) = 0 /\ Dvap!Kinds(c3, <<"nak">>) /\ ~c1.authed /\ Dvap!Ordered
    <3>1. Dvap!Kinds(c2, <<"link">>) => Len(c2) = 1 /\ c2[1].kind = "link"
      BY <1>t, KindsAre
    <3> QED
      BY <2>1, <3>1, <1>z DEF Dvap!AtRest
  <2>3. CASE c5.op = "link"
    <3> DEFINE d == Dvap!Msg("link", c5.module, c5.to)
               j == [c5 EXCEPT !.op = "refresh", !.asks = DvapModules]
    <3>1. c2' = Append(c2, d) /\ Dvap!Proceeds(j, TRUE)
      BY <2>3, <1>r DEF Dvap!_request
    <3>2. d \in Dvap!Datagrams /\ d.kind = "link"
      BY <1>j, MsgIs
    <3>3. j \in Dvap!Jobs /\ j.op = "refresh" /\ j.asks = DvapModules
      BY <1>t, JobsAre DEF Dvap!Jobs
    <3> HIDE DEF d, j
    <3>4. c5' = j /\ c4' = [at |-> "next", tries |-> 0, authed |-> TRUE, relogged |-> FALSE]
      BY <3>1, <3>3 DEF Dvap!Proceeds
    <3>5. c4' \in Dvap!Clients
      BY <3>4 DEF Dvap!Clients, Dvap!Resting
    <3>6. Dvap!Typed'
      BY <3>1, <3>2, <3>3, <3>4, <3>5, <1>a, <1>u, <1>t DEF Dvap!Typed
    <3>7. Dvap!HasWork' /\ Dvap!Ordered' /\ c4'.at \in Dvap!Resting /\ c4'.authed
      BY <3>3, <3>4 DEF Dvap!HasWork, Dvap!Ordered, Dvap!Resting
    <3>8. Dvap!CacheIsTrue'
      BY <3>3, <3>4, RefreshAsksAll DEF Dvap!CacheIsTrue
    <3>9. Len(c2) = 0 /\ c3 = << >>
      BY <2>2, <2>3 DEF Dvap!Ordered
    <3>10. Dvap!Kinds(c2', <<"link">>)
      <4>1. c2' \in Seq(Dvap!Datagrams) /\ Len(c2') = 1 /\ c2'[1] = d
        BY <3>1, <3>2, <3>9, <1>a
      <4> QED
        BY <4>1, <3>2, KindsAre
    <3>11. Dvap!AtRest'
      BY <3>7, <3>9, <3>10, <1>u DEF Dvap!AtRest
    <3> QED
      BY <3>6, <3>7, <3>8, <3>11 DEF Dvap!IInv
  <2>4. CASE c5.op # "link"
    <3> DEFINE d == Dvap!Msg("status", Head(c5.asks), Dvap!NotLinked)
    <3>1. Dvap!Sends(d) /\ UNCHANGED c5
      BY <2>4, <1>r DEF Dvap!_request
    <3>2. c5.asks # << >> /\ Dvap!Asked = Head(c5.asks) /\ Dvap!Asked \in Dvap!Letters
      BY <2>4, <1>w, <1>j, TailIs DEF Dvap!Asked
    <3>3. d \in Dvap!Datagrams /\ d.kind = "status" /\ d.module = Dvap!Asked
      BY <3>2, NotLinkedIs, MsgIs
    <3> HIDE DEF d
    <3>4. /\ Dvap!Typed' /\ Dvap!HasWork' /\ Dvap!CacheIsTrue' /\ c4'.at = "status" /\ c4'.authed
          /\ c4'.relogged = c4.relogged /\ c2' = Append(c2, d) /\ (Dvap!Ordered' <=> Dvap!Ordered) /\ Dvap!Asked' = Dvap!Asked
      BY <3>1, <3>3, <1>r, <1>s
    <3>5. /\ c2' \in Seq(Dvap!Datagrams) /\ Len(c2') = Len(c2) + 1 /\ c2'[Len(c2) + 1] = d
          /\ \A i \in 1 .. Len(c2) : c2'[i] = c2[i]
      BY <3>3, <3>4, <1>a
    <3>6. \/ /\ Dvap!Kinds(c2', <<"link", "status">>) /\ c2'[2].module = Dvap!Asked' /\ c3' = << >> /\ Dvap!Ordered'
          \/ /\ Dvap!Kinds(c2', <<"status">>) /\ c2'[1].module = Dvap!Asked'
             /\ c3' = << >> \/ (Dvap!Kinds(c3', <<"nak">>) /\ ~c1'.authed /\ ~c4'.relogged)
      <4>1. CASE Len(c2) = 0
        <5>1. Len(c2') = 1 /\ c2'[1] = d
          BY <4>1, <3>5
        <5>2. Dvap!Kinds(c2', <<"status">>) /\ c2'[1].module = Dvap!Asked'
          BY <5>1, <3>3, <3>4, <3>5, KindsAre
        <5>3. c3 = << >> \/ (Dvap!Kinds(c3, <<"nak">>) /\ ~c1.authed /\ ~c4.relogged)
          BY <2>2, <4>1 DEF Dvap!Ordered
        <5> QED
          BY <5>2, <5>3, <3>4, <1>u
      <4>2. CASE Len(c2) = 1
        <5>1. Len(c2') = 2 /\ c2'[2] = d /\ c2'[1] = c2[1]
          BY <4>2, <3>5
        <5>2. c2[1].kind = "link" /\ c3 = << >> /\ Dvap!Ordered
          BY <4>2, <2>2
        <5>3. Dvap!Kinds(c2', <<"link", "status">>) /\ c2'[2].module = Dvap!Asked'
          <6>1. Len(c2') = 2 /\ c2'[1].kind = "link" /\ c2'[2].kind = "status" /\ c2'[2].module = Dvap!Asked'
            BY <5>1, <5>2, <3>3, <3>4
          <6> QED
            BY <6>1, <3>5, KindsAre
        <5> QED
          BY <5>2, <5>3, <3>4, <1>u
      <4> QED
        BY <2>2, <4>1, <4>2
    <3>7. Dvap!AtStatus'
      BY <3>1, <3>2, <3>4, <3>6, <2>4 DEF Dvap!AtStatus
    <3> QED
      BY <3>4, <3>7 DEF Dvap!IInv
  <2> QED
    BY <2>3, <2>4
<1> QED
  BY <1>1, <1>r, <1>c

\* A module that was asked about has answered.
LEMMA ConfirmsIs ==
    ASSUME DvapModules \in Seq(Dvap!Letters), DvapModules # << >>, Dvap!IInv, c4.at = "status", c4.authed,
           c2 = << >>, c3' = << >>, c5.op # "link", c5.asks # << >>, UNCHANGED c1,
           Dvap!Confirms(c1.link[Dvap!Asked])
    PROVE  Dvap!IInv'
<1>t. /\ Dvap!Typed /\ Dvap!HasWork /\ Dvap!CacheIsTrue /\ c4 \in Dvap!Clients /\ c5 \in Dvap!Jobs
  BY DEF Dvap!IInv, Dvap!Typed
<1>j. c5.module \in Dvap!Letters /\ c5.asks \in Seq(Dvap!Letters)
  BY <1>t DEF Dvap!Jobs
<1>a. Dvap!Asked = Head(c5.asks) /\ Dvap!Asked \in Dvap!Letters /\ c1.link[Dvap!Asked] \in Dvap!Targets
  <2>1. Dvap!Asked = Head(c5.asks) /\ Dvap!Asked \in Dvap!Letters
    BY <1>j, TailIs DEF Dvap!Asked
  <2> QED
    BY <2>1, <1>t DEF Dvap!Typed
<1>r. << >> \in Seq(Dvap!Datagrams)
  OBVIOUS
<1>p. ASSUME NEW j \in Dvap!Jobs, Dvap!Proceeds(j, TRUE)
      PROVE  /\ c4' \in Dvap!Clients /\ c5' = j /\ c4'.at \in {"next", "answered"} /\ c4'.authed
             /\ ~c4'.relogged /\ Dvap!HasWork' /\ c4'.at \in Dvap!Resting
  BY <1>p DEF Dvap!Proceeds, Dvap!Clients, Dvap!Resting, Dvap!HasWork
<1>1. CASE c5.op = "refresh"
  <2> DEFINE j == [c5 EXCEPT !.asks = Tail(@)]
  <2>1. /\ c6' = [c6 EXCEPT ![Dvap!Asked] = [reachable |-> TRUE, link |-> c1.link[Dvap!Asked]]]
        /\ Dvap!Proceeds(j, TRUE) /\ UNCHANGED c2
    BY <1>1 DEF Dvap!Confirms
  <2>2. j \in Dvap!Jobs /\ j.op = "refresh" /\ j.asks = Tail(c5.asks)
    BY <1>1, <1>t, JobsAre
  <2> HIDE DEF j
  <2>3. c4' \in Dvap!Clients /\ c5' = j /\ c4'.authed /\ Dvap!HasWork' /\ c4'.at \in Dvap!Resting
    BY <2>1, <2>2, <1>p
  <2>4. /\ c6' \in [Dvap!Letters -> [reachable : BOOLEAN, link : Dvap!Targets]] /\ c6'[Dvap!Asked].link = c1.link[Dvap!Asked]
        /\ \A m \in Dvap!Letters \ {Dvap!Asked} : c6'[m] = c6[m]
    BY <2>1, <1>a, <1>t DEF Dvap!Typed
  <2>5. Dvap!ToBeAsked \ {Dvap!Asked} \subseteq Dvap!ToBeAsked'
    <3>1. {c5.asks[i] : i \in DOMAIN c5.asks} \ {Dvap!Asked} \subseteq {Tail(c5.asks)[i] : i \in DOMAIN Tail(c5.asks)}
      BY <1>a, <1>j, AsksAre
    <3>2. Dvap!ToBeAsked' = {Tail(c5.asks)[i] : i \in DOMAIN Tail(c5.asks)}
      BY <2>2, <2>3 DEF Dvap!ToBeAsked
    <3> QED
      BY <3>1, <3>2, <1>1 DEF Dvap!ToBeAsked
  <2>6. Dvap!CacheIsTrue'
    BY <2>4, <2>5, <1>t DEF Dvap!CacheIsTrue
  <2>7. Dvap!Typed'
    BY <2>1, <2>2, <2>3, <2>4, <1>r, <1>t DEF Dvap!Typed
  <2>8. Dvap!AtRest'
    BY <2>1, <2>3 DEF Dvap!AtRest
  <2> QED
    BY <2>3, <2>6, <2>7, <2>8 DEF Dvap!IInv
<1>2. CASE c5.op # "refresh"
  <2> DEFINE j == [c5 EXCEPT !.op = "refresh", !.asks = DvapModules]
             d == Dvap!Msg("link", c5.module, Dvap!NotLinked)
  <2>1. /\ c2' = IF c1.link[Dvap!Asked] = Dvap!NotLinked THEN c2 ELSE Append(c2, d)
        /\ Dvap!Proceeds(j, TRUE) /\ UNCHANGED c6
    BY <1>2 DEF Dvap!Confirms
  <2>2. j \in Dvap!Jobs /\ j.op = "refresh" /\ j.asks = DvapModules
    BY <1>t, JobsAre DEF Dvap!Jobs
  <2>3. d \in Dvap!Datagrams /\ d.kind = "link"
    BY <1>j, NotLinkedIs, MsgIs
  <2> HIDE DEF j, d
  <2>4. c4' \in Dvap!Clients /\ c5' = j /\ c4'.authed /\ Dvap!HasWork' /\ c4'.at \in Dvap!Resting /\ Dvap!Ordered'
    BY <2>1, <2>2, <1>p DEF Dvap!Ordered
  <2>5. c2' \in Seq(Dvap!Datagrams) /\ (c2' = << >> \/ Dvap!Kinds(c2', <<"link">>))
    <3>1. CASE c1.link[Dvap!Asked] = Dvap!NotLinked
      BY <3>1, <2>1, <1>r
    <3>2. CASE c1.link[Dvap!Asked] # Dvap!NotLinked
      <4>1. c2' = Append(<< >>, d) /\ Len(<< >>) = 0
        BY <3>2, <2>1
      <4>2. c2' \in Seq(Dvap!Datagrams) /\ Len(c2') = 1 /\ c2'[1] = d
        BY <4>1, <2>3, <1>r, AppendIs
      <4> QED
        BY <4>2, <2>3, KindsAre
    <3> QED
      BY <3>1, <3>2
  <2>6. Dvap!Typed'
    BY <2>1, <2>2, <2>4, <2>5, <1>r, <1>t DEF Dvap!Typed
  <2>7. Dvap!CacheIsTrue'
    BY <2>2, <2>4, RefreshAsksAll DEF Dvap!CacheIsTrue
  <2>8. Dvap!AtRest'
    BY <2>4, <2>5 DEF Dvap!AtRest
  <2> QED
    BY <2>4, <2>6, <2>7, <2>8 DEF Dvap!IInv
<1> QED
  BY <1>1, <1>2

\* A reply is taken: a refusal, one that is passed over, the one waited for.
LEMMA AwaitKeeps ==
    ASSUME DvapModules \in Seq(Dvap!Letters), DvapModules # << >>, Dvap!IInv, Dvap!_await
    PROVE  Dvap!IInv'
<1>t. /\ Dvap!Typed /\ Dvap!HasWork /\ Dvap!CacheIsTrue /\ c2 \in Seq(Dvap!Datagrams) /\ c4 \in Dvap!Clients /\ c5 \in Dvap!Jobs
      /\ c3 \in Seq(Dvap!Datagrams) /\ c3 # << >> /\ UNCHANGED c1 /\ c3' = Tail(c3)
  BY DEF Dvap!IInv, Dvap!Typed, Dvap!_await
<1> DEFINE r == c3[1]
<1>r. /\ Head(c3) = r /\ c3' \in Seq(Dvap!Datagrams) /\ Len(c3') = Len(c3) - 1 /\ Len(c3) # 0
      /\ \A i \in 1 .. Len(c3) - 1 : c3'[i] = c3[i + 1]
  BY <1>t, TailIs, EmptyOrNot
<1>z. /\ Len(c2) \in Nat /\ Len(c3) \in Nat /\ DOMAIN c2 = 1 .. Len(c2) /\ DOMAIN c3' = 1 .. Len(c3')
      /\ (c2 = << >> <=> Len(c2) = 0) /\ (c3' = << >> <=> Len(c3') = 0)
  BY <1>t, <1>r, EmptyOrNot
<1> HIDE DEF r
<1>i. 1 \in 1 .. Len(c3) /\ (1 = Len(c3) <=> Len(c3) = 1)
  BY <1>r, <1>z
<1>j. ASSUME NEW i \in DOMAIN c3'
      PROVE  \E k \in 1 .. Len(c3) : k # 1 /\ (k = Len(c3) <=> i = Len(c3')) /\ c3'[i] = c3[k]
  <2>1. i \in 1 .. Len(c3) - 1 /\ c3'[i] = c3[i + 1]
    BY <1>r, <1>z
  <2>2. PICK k \in Nat : k = i + 1
    BY <2>1
  <2>3. k \in 1 .. Len(c3) /\ k # 1 /\ (k = Len(c3) <=> i = Len(c3'))
    BY <2>1, <2>2, <1>r, <1>z
  <2> QED
    BY <2>1, <2>2, <2>3
<1>c. c4.at \in {"login", "hash", "status"}
  BY DEF Dvap!_await, Dvap!Expected
<1>e. Dvap!Expected["login"] = "random" /\ Dvap!Expected["hash"] = "ack" /\ Dvap!Expected["status"] = "repeater"
  BY DEF Dvap!Expected
<1>b. \/ r.kind = "nak" /\ Dvap!Fails /\ UNCHANGED c2
      \/ r.kind \notin {"nak", Dvap!Expected[c4.at]} /\ UNCHANGED <<c4, c5, c6, c2>>
      \/ /\ r.kind = "random" /\ c4.at = "login"
         /\ c2' = Append(c2, Dvap!Msg("hash", c5.module, Dvap!NotLinked))
         /\ c4' = [c4 EXCEPT !.at = "hash"] /\ UNCHANGED <<c5, c6>>
      \/ /\ r.kind = "ack" /\ c4.at = "hash"
         /\ c4' = [c4 EXCEPT !.at = "next", !.authed = TRUE, !.tries = 0]
         /\ UNCHANGED <<c5, c6, c2>>
      \/ r.kind = "repeater" /\ c4.at = "status" /\ Dvap!Confirms(r.to)
  BY <1>r DEF Dvap!_await
<1>f. ASSUME Dvap!Fails, UNCHANGED c2
      PROVE  /\ Dvap!Typed' /\ Dvap!HasWork' /\ Dvap!CacheIsTrue' /\ c4'.at \in Dvap!Resting
             /\ c4'.authed = (c4.authed /\ ~(c4.at = "status" /\ ~c4.relogged))
  <2>1. /\ c4' \in Dvap!Clients /\ c5' \in Dvap!Jobs /\ c6' \in [Dvap!Letters -> [reachable : BOOLEAN, link : Dvap!Targets]]
        /\ c4'.at \in {"next", "answered"} /\ Dvap!HasWork' /\ Dvap!CacheIsTrue'
        /\ c4'.authed = (c4.authed /\ ~(c4.at = "status" /\ ~c4.relogged))
    BY <1>f, <1>t, <1>c, FailsIs
  <2> QED
    BY <2>1, <1>t, <1>r, <1>f DEF Dvap!Typed, Dvap!Resting
<1>k. UNCHANGED <<c5, c6>> => Dvap!CacheIsTrue'
  <2>1. UNCHANGED c5 => Dvap!ToBeAsked' = Dvap!ToBeAsked
    BY DEF Dvap!ToBeAsked
  <2> QED
    BY <2>1, <1>t DEF Dvap!CacheIsTrue
<1>w. c5.asks # << >> \/ c5.op = "link"
  BY <1>c, <1>t DEF Dvap!HasWork
<1>1. CASE Dvap!LoggedOut
  <2>1. /\ c4.at = "login" /\ ~c4.authed
        /\ \A i \in 1 .. Len(c2) : c2[i].kind = "login"
        /\ \A i \in 1 .. Len(c3) : c3[i].kind = "random" \/ (i = 1 /\ c3[1].kind = "nak")
    BY <1>1, <1>t, <1>c, <1>r, PhasesAre DEF Dvap!Resting
  <2>2. \A i \in DOMAIN c3' : c3'[i].kind = "random"
    BY <2>1, <1>j
  <2>3. CASE r.kind = "nak" /\ Dvap!Fails /\ UNCHANGED c2
    <3>1. Dvap!Typed' /\ Dvap!HasWork' /\ Dvap!CacheIsTrue' /\ c4'.at \in Dvap!Resting /\ ~c4'.authed
      BY <2>3, <2>1, <1>f
    <3>2. Dvap!LoggedOut'
      BY <3>1, <2>1, <2>2, <2>3, <1>z DEF Dvap!LoggedOut
    <3> QED
      BY <3>1, <3>2 DEF Dvap!IInv
  <2>4. CASE r.kind \notin {"nak", Dvap!Expected[c4.at]} /\ UNCHANGED <<c4, c5, c6, c2>>
    <3>1. r.kind = "random" \/ r.kind = "nak"
      BY <2>1, <1>i DEF r
    <3> QED
      BY <3>1, <2>1, <2>4, <1>e
  <2>5. CASE /\ r.kind = "random" /\ c4.at = "login"
             /\ c2' = Append(c2, Dvap!Msg("hash", c5.module, Dvap!NotLinked))
             /\ c4' = [c4 EXCEPT !.at = "hash"] /\ UNCHANGED <<c5, c6>>
    <3>1. Dvap!Msg("hash", c5.module, Dvap!NotLinked) \in Dvap!Datagrams /\ Dvap!Msg("hash", c5.module, Dvap!NotLinked).kind = "hash"
      BY <1>t, NotLinkedIs, MsgIs DEF Dvap!Jobs
    <3>2. /\ c2' \in Seq(Dvap!Datagrams) /\ Len(c2') = Len(c2) + 1 /\ c2'[Len(c2) + 1].kind = "hash"
          /\ \A i \in 1 .. Len(c2) : c2'[i] = c2[i]
      BY <3>1, <2>5, <1>t, AppendIs
    <3>3. DOMAIN c2' = 1 .. Len(c2')
      BY <3>2, EmptyOrNot
    <3>4. \A i \in DOMAIN c2' : c2'[i].kind = "login" \/ (i = Len(c2') /\ c2'[i].kind = "hash")
      BY <3>2, <3>3, <2>1, <1>z
    <3>5. c4' \in Dvap!Clients /\ c4'.at = "hash" /\ ~c4'.authed
      BY <2>1, <2>5, <1>t DEF Dvap!Clients
    <3>6. Dvap!Typed'
      BY <3>2, <3>5, <2>5, <1>t, <1>r DEF Dvap!Typed
    <3>7. Dvap!HasWork'
      BY <3>5, <2>5, <1>w DEF Dvap!HasWork
    <3>8. Dvap!AtHash'
      BY <3>4, <3>5, <2>2 DEF Dvap!AtHash
    <3> QED
      BY <3>6, <3>7, <3>8, <2>5, <1>k DEF Dvap!IInv
  <2> QED
    BY ZenonT(40), <2>1, <2>3, <2>4, <2>5, <1>b
<1>2. CASE Dvap!AtHash
  <2>1. /\ c4.at = "hash" /\ ~c4.authed
        /\ \A i \in 1 .. Len(c3) : \/ c3[i].kind = "random"
                                   \/ i = Len(c3) /\ c3[i].kind = "ack" /\ Len(c2) = 0
    BY <1>2, <1>t, PhasesAre
  <2>2. \A i \in DOMAIN c3' : \/ c3'[i].kind = "random"
                              \/ i = Len(c3') /\ c3'[i].kind = "ack" /\ c2 = << >>
    BY <2>1, <1>j, <1>z
  <2>3. r.kind = "random" \/ (r.kind = "ack" /\ Len(c3) = 1 /\ Len(c2) = 0)
    BY <2>1, <1>i DEF r
  <2>4. CASE r.kind = "random"
    <3>1. UNCHANGED <<c4, c5, c6, c2>>
      BY <2>1, <2>4, <1>b
    <3>2. Dvap!Typed' /\ Dvap!HasWork'
      BY <3>1, <1>t, <1>r DEF Dvap!Typed, Dvap!HasWork
    <3>3. Dvap!AtHash'
      BY <3>1, <2>2, <1>2 DEF Dvap!AtHash
    <3> QED
      BY <3>1, <3>2, <3>3, <1>k DEF Dvap!IInv
  <2>5. CASE r.kind = "ack" /\ Len(c3) = 1 /\ Len(c2) = 0
    <3>1. c4' = [c4 EXCEPT !.at = "next", !.authed = TRUE, !.tries = 0] /\ UNCHANGED <<c5, c6, c2>>
      BY <2>1, <2>5, <1>b, <1>e
    <3>2. c4' \in Dvap!Clients /\ c4'.at = "next" /\ c4'.authed
      BY <3>1, <1>t DEF Dvap!Clients, Dvap!Resting
    <3>3. c2' = << >> /\ c3' = << >>
      BY <3>1, <2>5, <1>r, <1>z
    <3>4. Dvap!Typed' /\ Dvap!HasWork'
      BY <3>1, <3>2, <1>t, <1>r, <1>w DEF Dvap!Typed, Dvap!HasWork
    <3>5. Dvap!AtRest'
      BY <3>2, <3>3 DEF Dvap!AtRest, Dvap!Resting
    <3> QED
      BY <3>1, <3>4, <3>5, <1>k DEF Dvap!IInv
  <2> QED
    BY <2>3, <2>4, <2>5
<1>3. CASE Dvap!AtStatus
  <2>0. c4.at = "status" /\ c4.authed /\ c5.op # "link" /\ c5.asks # << >>
    BY ZenonT(40), <1>3 DEF Dvap!AtStatus
  <2>1. \/ /\ Len(c2) = 1 /\ c2[1].kind = "status" /\ Len(c3) = 1 /\ r.kind = "nak"
           /\ ~c1.authed /\ ~c4.relogged
        \/ Len(c2) = 0 /\ Len(c3) = 1 /\ r.kind = "nak" /\ ~c1.authed
        \/ /\ Len(c2) = 0 /\ Len(c3) = 2 /\ r.kind = "nak" /\ c3[2].kind = "nak"
           /\ ~c1.authed /\ ~c4.relogged
        \/ Len(c2) = 0 /\ Len(c3) = 1 /\ r.kind = "repeater" /\ r.to = c1.link[Dvap!Asked]
    BY <1>3, <1>t, <1>r, PhasesAre DEF r
  <2>2. CASE r.kind = "nak"
    <3>1. Dvap!Fails /\ UNCHANGED c2
      BY <2>2, <2>0, <1>b
    <3>2. Dvap!Typed' /\ Dvap!HasWork' /\ Dvap!CacheIsTrue' /\ c4'.at \in Dvap!Resting /\ c4'.authed = c4.relogged
      <4>1. c4.relogged \in BOOLEAN
        BY <1>t DEF Dvap!Clients
      <4> QED
        BY <3>1, <2>0, <4>1, <1>f
    <3>3. CASE Len(c2) = 0 /\ Len(c3) = 1
      <4>1. c2' = << >> /\ c3' = << >> /\ c4' \in Dvap!Clients
        BY <3>1, <3>2, <3>3, <1>r, <1>z DEF Dvap!Typed
      <4> QED
        BY <4>1, <3>2, QuietIs DEF Dvap!IInv
    <3>4. CASE Len(c2) = 1 /\ c2[1].kind = "status" /\ Len(c3) = 1 /\ ~c1.authed /\ ~c4.relogged
      <4>1. DOMAIN c2' = {1} /\ c2'[1].kind = "status" /\ c3' = << >> /\ DOMAIN << >> = {}
        BY <3>1, <3>4, <1>r, <1>z
      <4>2. Dvap!LoggedOut'
        BY <4>1, <3>2, <3>4, <1>t DEF Dvap!LoggedOut
      <4> QED
        BY <4>2, <3>2 DEF Dvap!IInv
    <3>5. CASE Len(c2) = 0 /\ Len(c3) = 2 /\ c3[2].kind = "nak" /\ ~c4.relogged
      <4>1. Len(c3') = 1 /\ c3'[1] = c3[2]
        BY <3>5, <1>r
      <4>2. DOMAIN c3' = {1} /\ c3'[1].kind = "nak" /\ DOMAIN c2' = {}
        BY <3>1, <3>5, <4>1, <1>z
      <4>3. Dvap!LoggedOut'
        BY <4>2, <3>2, <3>5 DEF Dvap!LoggedOut
      <4> QED
        BY <4>3, <3>2 DEF Dvap!IInv
    <3> QED
      BY <2>1, <2>2, <3>3, <3>4, <3>5
  <2>3. CASE Len(c2) = 0 /\ Len(c3) = 1 /\ r.kind = "repeater" /\ r.to = c1.link[Dvap!Asked]
    <3>1. Dvap!Confirms(c1.link[Dvap!Asked])
      BY <2>3, <2>0, <1>b, <1>e
    <3>2. c2 = << >> /\ c3' = << >>
      BY <2>3, <1>r, <1>z
    <3> QED
      BY <3>1, <3>2, <2>0, <1>t, ConfirmsIs
  <2> QED
    BY <2>1, <2>2, <2>3
<1>4. ~Dvap!AtRest
  BY <1>c DEF Dvap!AtRest, Dvap!Resting
<1> QED
  BY <1>1, <1>2, <1>3, <1>4 DEF Dvap!IInv

LEMMA TimeoutKeeps ==
    ASSUME DvapModules \in Seq(Dvap!Letters), DvapModules # << >>, "late" \notin DvapNetFaults, Dvap!IInv, Dvap!TimesOut
    PROVE  Dvap!IInv'
<1>t. /\ Dvap!Typed /\ Dvap!HasWork /\ Dvap!CacheIsTrue /\ c4 \in Dvap!Clients
  BY DEF Dvap!IInv, Dvap!Typed
<1>1. c2 = << >> /\ c3 = << >> /\ UNCHANGED <<c1, c2, c3>>
  BY DEF Dvap!TimesOut, Dvap!Fault
<1>c. c4.at \in {"login", "hash", "status"}
  BY DEF Dvap!TimesOut, Dvap!Expected
<1>2. CASE c4' = [c4 EXCEPT !.at = "next"] /\ UNCHANGED <<c5, c6>>
  <2>1. c4' \in Dvap!Clients /\ c4'.at = "next" /\ c4'.at \in Dvap!Resting
    BY <1>2, <1>t DEF Dvap!Clients, Dvap!Resting
  <2>2. c5.asks # << >> \/ c5.op = "link"
    BY <1>c, <1>t DEF Dvap!HasWork
  <2>3. Dvap!Typed' /\ Dvap!HasWork'
    BY <2>1, <2>2, <1>1, <1>2, <1>t DEF Dvap!Typed, Dvap!HasWork
  <2>4. Dvap!ToBeAsked' = Dvap!ToBeAsked
    BY <1>2 DEF Dvap!ToBeAsked
  <2>5. Dvap!CacheIsTrue'
    BY <2>4, <1>1, <1>2, <1>t DEF Dvap!CacheIsTrue
  <2> QED
    BY <2>1, <2>3, <2>5, <1>1, QuietIs DEF Dvap!IInv
<1>3. CASE Dvap!Fails
  <2>1. /\ c4' \in Dvap!Clients /\ c5' \in Dvap!Jobs /\ c6' \in [Dvap!Letters -> [reachable : BOOLEAN, link : Dvap!Targets]]
        /\ c4'.at \in {"next", "answered"} /\ Dvap!HasWork' /\ Dvap!CacheIsTrue'
    BY <1>3, <1>1, <1>c, FailsIs
  <2>2. Dvap!Typed' /\ c4'.at \in Dvap!Resting
    BY <2>1, <1>1, <1>t DEF Dvap!Typed, Dvap!Resting
  <2> QED
    BY <2>1, <2>2, <1>1, QuietIs DEF Dvap!IInv
<1> QED
  BY <1>2, <1>3 DEF Dvap!TimesOut

LEMMA AnswerKeeps ==
    ASSUME DvapModules \in Seq(Dvap!Letters), DvapModules # << >>, Dvap!IInv, Dvap!Answered
    PROVE  Dvap!IInv'
<1>t. Dvap!Typed /\ Dvap!HasWork /\ Dvap!CacheIsTrue
  BY DEF Dvap!IInv
<1>1. /\ c4.at = "answered" /\ c5' = Dvap!NoJob /\ c4' = [c4 EXCEPT !.at = "idle"]
      /\ UNCHANGED <<c1, c2, c3, c6>> /\ c4 \in Dvap!Clients
  BY <1>t DEF Dvap!Answered, Dvap!Typed
<1>2. c4' \in Dvap!Clients /\ c4'.at = "idle" /\ c4'.authed = c4.authed
  BY <1>1 DEF Dvap!Clients, Dvap!Resting
<1>3. Dvap!Typed' /\ Dvap!HasWork'
  BY <1>1, <1>2, <1>t, JobsAre DEF Dvap!Typed, Dvap!HasWork
<1>4. Dvap!ToBeAsked = {} /\ ~Dvap!Ordered
  <2>1. c5.asks = << >> /\ DOMAIN << >> = {}
    BY <1>1, <1>t DEF Dvap!HasWork
  <2> QED
    BY <2>1 DEF Dvap!ToBeAsked, Dvap!Ordered
<1>5. Dvap!CacheIsTrue'
  BY <1>1, <1>4, <1>t DEF Dvap!CacheIsTrue
<1>6. CASE Dvap!AtRest
  <2>1. c2' = << >> /\ c3' = << >> /\ c4'.authed /\ c4'.at \in Dvap!Resting
    BY <1>6, <1>1, <1>2, <1>4 DEF Dvap!AtRest, Dvap!Resting
  <2> QED
    BY <2>1, <1>3, <1>5 DEF Dvap!IInv, Dvap!AtRest
<1>7. CASE Dvap!LoggedOut
  <2>1. Dvap!LoggedOut'
    BY <1>7, <1>1, <1>2 DEF Dvap!LoggedOut, Dvap!Resting
  <2> QED
    BY <2>1, <1>3, <1>5 DEF Dvap!IInv
<1> QED
  BY <1>1, <1>6, <1>7 DEF Dvap!IInv, Dvap!AtHash, Dvap!AtStatus

\* What the panel shows of a module that answered is the link that the gateway
\* has for it, whatever is lost, refused or asked again (dvap_manager.refresh;
\* the datagrams keep their order and a reply does not outlive the wait for it).
THEOREM ConfirmedLinksAreTrue ==
    ASSUME DvapModules \in Seq(Dvap!Letters), DvapModules # << >>, "late" \notin DvapNetFaults
    PROVE  Dvap!Spec => []Dvap!ConfirmedIsTrue
<1>1. Dvap!Init => Dvap!IInv
  <2> SUFFICES ASSUME Dvap!Init PROVE Dvap!IInv
    OBVIOUS
  <2>1. << >> \in Seq(Dvap!Datagrams) /\ Dvap!NotLinked \in Dvap!Targets
    BY NotLinkedIs
  <2>2. Dvap!Typed
    BY <2>1, JobsAre DEF Dvap!Init, Dvap!Typed, Dvap!Clients, Dvap!Resting
  <2>3. Dvap!HasWork /\ Dvap!LoggedOut
    <3>1. c4.at = "idle" /\ ~c4.authed /\ c5.asks = << >>
      BY JobsAre DEF Dvap!Init
    <3>2. c2 = << >> /\ c3 = << >> /\ DOMAIN << >> = {}
      BY DEF Dvap!Init
    <3> QED
      BY <3>1, <3>2 DEF Dvap!HasWork, Dvap!LoggedOut, Dvap!Resting
  <2>4. Dvap!CacheIsTrue
    BY DEF Dvap!Init, Dvap!CacheIsTrue
  <2> QED
    BY <2>2, <2>3, <2>4 DEF Dvap!IInv
<1>2. Dvap!IInv /\ [Dvap!Next]_(Dvap!vars) => Dvap!IInv'
  <2> SUFFICES ASSUME Dvap!IInv, [Dvap!Next]_(Dvap!vars) PROVE Dvap!IInv'
    OBVIOUS
  <2>1. CASE Dvap!refresh
    <3>1. [Dvap!NoJob EXCEPT !.op = "refresh", !.asks = DvapModules] \in Dvap!Jobs
          /\ [Dvap!NoJob EXCEPT !.op = "refresh", !.asks = DvapModules].asks = DvapModules
      BY JobsAre DEF Dvap!Jobs
    <3> QED
      BY <3>1, <2>1, StartKeeps DEF Dvap!refresh
  <2>2. CASE Dvap!link
    <3>1. PICK m \in Dvap!Letters, r \in DvapReflectors : Dvap!Starts([Dvap!NoJob EXCEPT !.op = "link", !.module = m, !.to = r])
      BY <2>2 DEF Dvap!link
    <3>2. [Dvap!NoJob EXCEPT !.op = "link", !.module = m, !.to = r] \in Dvap!Jobs
          /\ [Dvap!NoJob EXCEPT !.op = "link", !.module = m, !.to = r].op = "link"
      BY JobsAre DEF Dvap!Jobs, Dvap!Targets
    <3> QED
      BY <3>1, <3>2, StartKeeps
  <2>3. CASE Dvap!unlink
    <3>1. PICK m \in Dvap!Letters : Dvap!Starts([Dvap!NoJob EXCEPT !.op = "unlink", !.module = m, !.asks = <<m>>])
      BY <2>3 DEF Dvap!unlink
    <3>2. <<m>> \in Seq(Dvap!Letters) /\ <<m>> # << >>
      OBVIOUS
    <3>3. [Dvap!NoJob EXCEPT !.op = "unlink", !.module = m, !.asks = <<m>>] \in Dvap!Jobs
          /\ [Dvap!NoJob EXCEPT !.op = "unlink", !.module = m, !.asks = <<m>>].asks = <<m>>
      BY <3>2, JobsAre DEF Dvap!Jobs
    <3> QED
      BY <3>1, <3>2, <3>3, StartKeeps
  <2>4. CASE Dvap!Gateway \/ Dvap!Restarts \/ Dvap!Loses \/ Dvap!_request \/ Dvap!_await \/ Dvap!TimesOut \/ Dvap!Answered
    BY <2>4, GatewayServes, RestartKeeps, LossKeeps, RequestKeeps, AwaitKeeps, TimeoutKeeps, AnswerKeeps
  <2>5. CASE UNCHANGED Dvap!vars
    <3>1. UNCHANGED <<c1, c2, c3, c4, c5, c6>>
      BY <2>5 DEF Dvap!vars
    <3>2. Dvap!Typed' /\ Dvap!HasWork' /\ (Dvap!Ordered' <=> Dvap!Ordered) /\ Dvap!Asked' = Dvap!Asked /\ Dvap!ToBeAsked' = Dvap!ToBeAsked
      BY <3>1 DEF Dvap!IInv, Dvap!Typed, Dvap!HasWork, Dvap!Ordered, Dvap!Asked, Dvap!ToBeAsked
    <3>3. Dvap!CacheIsTrue'
      BY <3>1, <3>2 DEF Dvap!IInv, Dvap!CacheIsTrue
    <3>4. (Dvap!AtRest => Dvap!AtRest') /\ (Dvap!AtStatus => Dvap!AtStatus')
      BY <3>1, <3>2 DEF Dvap!AtRest, Dvap!AtStatus
    <3>5. (Dvap!LoggedOut => Dvap!LoggedOut') /\ (Dvap!AtHash => Dvap!AtHash')
      BY <3>1 DEF Dvap!LoggedOut, Dvap!AtHash
    <3> QED
      BY <3>2, <3>3, <3>4, <3>5 DEF Dvap!IInv
  <2> QED
    BY <2>1, <2>2, <2>3, <2>4, <2>5 DEF Dvap!Next
<1>3. Dvap!IInv => Dvap!ConfirmedIsTrue
  <2> SUFFICES ASSUME Dvap!IInv, c4.at = "answered" PROVE \A m \in Dvap!Letters : c6[m].reachable => c6[m].link = c1.link[m]
    BY DEF Dvap!ConfirmedIsTrue
  <2>1. c5.asks = << >> /\ DOMAIN << >> = {}
    BY DEF Dvap!IInv, Dvap!HasWork
  <2>2. Dvap!ToBeAsked = {}
    BY <2>1 DEF Dvap!ToBeAsked
  <2> QED
    BY <2>2 DEF Dvap!IInv, Dvap!CacheIsTrue
<1> QED
  BY <1>1, <1>2, <1>3, PTL DEF Dvap!Spec

-----------------------------------------------------------------------------
(* Doctor: the diagnosis. *)

CONSTANTS
    DocFirmwares, DocMaxReads, DoctorFaults

Doc == INSTANCE Doctor WITH
    Firmwares <- DocFirmwares, MaxReads <- DocMaxReads, DoctorFaults <- DoctorFaults,
    world <- c1, run <- c2, radio <- c3, port <- c4, aired <- c5, heard <- c6,
    faulted <- c7

\* What a step of the run makes of it.
LEMMA RunGoesOn ==
    ASSUME c2 \in Doc!Runs, NEW pc \in Doc!Steps, Doc!To(pc)
    PROVE  /\ c2' \in Doc!Runs /\ c2'.mode = c2.mode /\ c2'.backend = c2.backend
           /\ c2'.pc = pc /\ c2'.exit = c2.exit /\ c2'.says = c2.says
BY DEF Doc!To, Doc!Runs

LEMMA RunExits ==
    ASSUME c2 \in Doc!Runs, NEW code \in Doc!Codes, Doc!Exits(code)
    PROVE  /\ c2' \in Doc!Runs /\ c2'.mode = c2.mode /\ c2'.backend = c2.backend
           /\ c2'.pc = "exited" /\ c2'.exit = code /\ c2'.says = c2.says
BY DEF Doc!Exits, Doc!Runs, Doc!Steps

LEMMA RunSays ==
    ASSUME c2 \in Doc!Runs, NEW what \in Doc!Diagnoses, NEW code \in Doc!Codes, Doc!Says(what, code)
    PROVE  /\ c2' \in Doc!Runs /\ c2'.mode = c2.mode /\ c2'.backend = c2.backend
           /\ c2'.pc = "exited" /\ c2'.exit = code /\ c2'.says = what
BY DEF Doc!Says, Doc!Runs, Doc!Steps

LEMMA ModesDiffer ==
    /\ Doc!Keying \cap Doc!Listening = {} /\ "checks" \notin Doc!Keying \cup Doc!Listening /\ "rx_noise" \notin Doc!Keying \cup Doc!Listening
    /\ \A m \in Doc!Modes : m \in Doc!Keying \/ m \in Doc!Listening \/ m \in {"checks", "rx_noise"}
    /\ {"key_test", "tx_tone"} \subseteq Doc!Keying
BY DEF Doc!Keying, Doc!Listening, Doc!Modes

LEMMA CodesAre == {0, 1, 2, 3} \subseteq Doc!Codes /\ Doc!Interrupted = 3 /\ Doc!NoExit = 9 /\ \A c \in Doc!Codes : c # Doc!NoExit
BY DEF Doc!Codes, Doc!Interrupted, Doc!NoExit

LEMMA AnswersIs ==
    ASSUME c2 \in Doc!Runs
    PROVE  /\ c2.backend = "baofeng" => Doc!Answers
           /\ c2.backend = "kv4p" => (Doc!Answers <=> c1.firmware = "kiss")
           /\ c2.backend = "uvk5" => (Doc!Answers <=> c1.firmware \in Doc!Docks)
           /\ (UNCHANGED c1 /\ c2'.backend = c2.backend) => (Doc!Answers' <=> Doc!Answers)
           /\ c2.backend \in {"baofeng", "kv4p", "uvk5"}
           /\ "stock" \notin Doc!Docks
BY DEF Doc!Answers, Doc!Runs, Doc!Backends, Doc!Docks

\* How a run may end.
LEMMA RunEnds ==
    ASSUME Doc!IInv, c2' \in Doc!Runs, c2'.mode = c2.mode, c2'.backend = c2.backend, c2'.pc = "exited",
           UNCHANGED <<c1, c5>>, c3' \in Doc!Radios, ~c3'.keyed, ~c4',
           c6' \in [some : Nat, all : Nat], c6'.some > 0 => c1.hears,
           c2'.exit = 0 => /\ c2.mode \in Doc!Keying => c5
                           /\ c2.mode \in Doc!Listening \cup {"rx_noise"} => c1.hears
                           /\ c2.mode = "checks" => c1.free /\ Doc!Answers,
           c2.mode = "checks" /\ c1.config /\ c1.free =>
               /\ c2.backend = "uvk5" => (c2'.says = "stock" <=> c1.firmware = "stock")
               /\ c2.backend = "kv4p" => (c2'.says = "pre_kiss" <=> c1.firmware = "pre_kiss")
    PROVE  Doc!IInv'
<1>1. Doc!AskedFirst'
  BY DEF Doc!IInv, Doc!AskedFirst
<1>2. Doc!OpensAndKeys' /\ Doc!InItsMode' /\ Doc!Found'
  BY DEF Doc!OpensAndKeys, Doc!InItsMode, Doc!Found
<1>3. Doc!LeavesItQuiet'
  BY DEF Doc!IInv, Doc!LeavesItQuiet
<1>4. Doc!ExitIsHonest'
  <2>1. c2 \in Doc!Runs /\ c2.mode \in Doc!Modes /\ (Doc!Answers' <=> Doc!Answers)
    BY AnswersIs DEF Doc!IInv, Doc!Runs
  <2>2. c2.mode \in Doc!Keying \/ c2.mode \in Doc!Listening \cup {"rx_noise"} \/ c2.mode = "checks"
    BY <2>1, ModesDiffer
  <2>3. c2'.exit = 0 => CASE c2.mode \in Doc!Keying -> c5 /\ ~c3'.keyed
                            [] c2.mode \in Doc!Listening \cup {"rx_noise"} -> c1.hears
                            [] c2.mode = "checks" -> c1.free /\ Doc!Answers
    BY <2>2, ModesDiffer
  <2> QED
    BY <2>1, <2>3 DEF Doc!ExitIsHonest
<1>5. Doc!DiagnosisIsRight'
  BY DEF Doc!DiagnosisIsRight
<1> QED
  BY <1>1, <1>2, <1>3, <1>4, <1>5 DEF Doc!IInv

LEMMA StaysOpen ==
    ASSUME Doc!IInv, c2' \in Doc!Runs, c2'.mode = c2.mode, c2'.backend = c2.backend, c2'.pc # "exited",
           c2'.exit = Doc!NoExit, UNCHANGED c1
    PROVE  Doc!ExitIsHonest' /\ Doc!DiagnosisIsRight'
BY CodesAre DEF Doc!ExitIsHonest, Doc!DiagnosisIsRight, Doc!Exited

\* The doctor keys only whom it asked, leaves the radio off the air and the port
\* free, and ends with the exit code and the diagnosis of what it found: wherever it
\* is interrupted and whatever fails but the command that drops the carrier.
THEOREM DoctorTellsTheTruth ==
    ASSUME "drop_lost" \notin DoctorFaults
    PROVE  Doc!Spec => [](Doc!LeavesItQuiet /\ Doc!ExitIsHonest /\ Doc!DiagnosisIsRight)
<1>1. Doc!Init => Doc!IInv
  <2> SUFFICES ASSUME Doc!Init
               PROVE  Doc!IInv
    OBVIOUS
  <2>1. c2 \in Doc!Runs /\ c2.pc = "main" /\ c2.exit = Doc!NoExit
    BY DEF Doc!Init, Doc!None, Doc!Runs, Doc!Steps, Doc!Diagnoses
  <2>2. /\ c3 \in Doc!Radios /\ ~c3.keyed
        /\ c6 \in [some : Nat, all : Nat] /\ c6.some = 0 /\ ~c4 /\ ~c5
    BY DEF Doc!Init, Doc!Radios
  <2> QED
    BY <2>1, <2>2, CodesAre DEF Doc!IInv, Doc!AskedFirst, Doc!OpensAndKeys, Doc!InItsMode, Doc!Found, Doc!LeavesItQuiet, Doc!ExitIsHonest,
       Doc!DiagnosisIsRight, Doc!Exited
<1>2. Doc!IInv /\ [Doc!Next]_(Doc!vars) => Doc!IInv'
  <2> SUFFICES ASSUME Doc!IInv, [Doc!Next]_(Doc!vars)
               PROVE  Doc!IInv'
    OBVIOUS
  <2>0. /\ c2 \in Doc!Runs /\ c2.mode \in Doc!Modes /\ c3 \in Doc!Radios /\ c6 \in [some : Nat, all : Nat]
        /\ c6.some \in Nat /\ c6.all \in Nat /\ c3.keyed \in BOOLEAN
        /\ Doc!AskedFirst /\ Doc!OpensAndKeys /\ Doc!InItsMode /\ Doc!Found
    BY DEF Doc!IInv, Doc!Runs, Doc!Radios
  <2>f. /\ c2.pc \in {"hold", "unseen"} \/ ~c3.keyed
        /\ c6.some > 0 => c1.hears
        /\ c2.pc \in {"main", "open", "checks", "ask", "exited"} => c4 \notin {TRUE}
        /\ c2.pc \in {"open", "key", "hold", "unseen", "ask", "listen", "cache", "force", "measure"} => c2.mode # "checks"
        /\ c2.pc \in {"checks", "connect", "version"} => c2.mode = "checks"
        /\ c2.pc \in {"key", "hold", "unseen", "ask"} => c2.mode \in Doc!Keying
        /\ c2.pc = "listen" => c2.mode \in Doc!Listening
        /\ c2.pc \in {"cache", "force", "measure"} => c2.mode = "rx_noise"
    BY <2>0, ModesDiffer DEF Doc!OpensAndKeys, Doc!InItsMode, Doc!Found
  <2>m. /\ c2.mode \in Doc!Keying => c2.mode \notin Doc!Listening /\ c2.mode # "rx_noise" /\ c2.mode # "checks"
        /\ c2.mode \in Doc!Listening => c2.mode \notin Doc!Keying /\ c2.mode # "rx_noise" /\ c2.mode # "checks"
        /\ c2.mode \in {"checks", "rx_noise"} => c2.mode \notin Doc!Keying /\ c2.mode \notin Doc!Listening
        /\ c2.mode \in Doc!Keying \/ c2.mode \in Doc!Listening \/ c2.mode = "checks" \/ c2.mode = "rx_noise"
    BY <2>0, ModesDiffer
  <2>p. /\ {0, 1, 2, 3} \subseteq Doc!Codes /\ Doc!Interrupted = 3
        /\ Doc!Diagnoses = {Doc!None, "busy", "ready", "silent", "stock", "pre_kiss", "version", "unread"}
        /\ {"main", "open", "checks", "connect", "version", "key", "hold", "unseen", "ask", "listen", "cache",
            "force", "measure"} \subseteq Doc!Steps
    BY CodesAre DEF Doc!Diagnoses, Doc!Steps
  <2>o. ASSUME NEW pc \in Doc!Steps, Doc!To(pc), c2.pc # "exited", pc # "exited", UNCHANGED c1,
               c3' \in Doc!Radios, c6' \in [some : Nat, all : Nat],
               /\ c2.mode \in Doc!Keying => c1.tty /\ c1.confirms
               /\ c5' => c1.tty /\ c1.confirms /\ c2.mode \in Doc!Keying,
               /\ c3'.keyed => pc \in {"hold", "unseen"}
               /\ c4' => pc \notin {"main", "open", "checks", "ask"}
               /\ pc = "hold" => c5' \/ (c2.backend = "baofeng" /\ c2.mode = "key_test"),
               /\ pc \in {"key", "hold", "unseen", "ask"} => c2.mode \in Doc!Keying
               /\ pc = "listen" => c2.mode \in Doc!Listening
               /\ pc \in {"cache", "force", "measure"} => c2.mode = "rx_noise"
               /\ pc \in {"checks", "connect", "version"} => c2.mode = "checks"
               /\ pc = "open" => c2.mode # "checks",
               /\ pc \in {"connect", "version"} => c1.free
               /\ pc = "version" => c2.backend = "uvk5" /\ Doc!Answers
               /\ c6'.some > 0 => c1.hears
        PROVE  Doc!IInv'
    <3>1. /\ c2' \in Doc!Runs /\ c2'.mode = c2.mode /\ c2'.backend = c2.backend
          /\ c2'.pc = pc /\ c2'.exit = Doc!NoExit
      BY <2>0, <2>o, RunGoesOn DEF Doc!Found
    <3>2. Doc!Answers' <=> Doc!Answers
      BY <2>0, <2>o, <3>1, AnswersIs
    <3>3. Doc!ExitIsHonest' /\ Doc!DiagnosisIsRight'
      BY <2>o, <3>1, StaysOpen
    <3>4. Doc!AskedFirst'
      BY <2>o, <3>1 DEF Doc!AskedFirst
    <3>5. Doc!OpensAndKeys'
      BY <2>o, <3>1 DEF Doc!OpensAndKeys
    <3>6. Doc!InItsMode'
      BY <2>o, <3>1 DEF Doc!InItsMode
    <3>7. Doc!Found'
      BY <2>o, <3>1, <3>2 DEF Doc!Found
    <3>8. Doc!LeavesItQuiet'
      BY <2>o, <3>1 DEF Doc!LeavesItQuiet, Doc!Exited
    <3> QED
      BY <2>o, <3>1, <3>3, <3>4, <3>5, <3>6, <3>7, <3>8 DEF Doc!IInv
  <2>x. ASSUME NEW code \in Doc!Codes, Doc!Exits(code), UNCHANGED <<c1, c5>>, c2.mode # "checks" \/ ~c1.config,
               c3' \in Doc!Radios, ~c3'.keyed, ~c4', c6' \in [some : Nat, all : Nat],
               c6'.some > 0 => c1.hears,
               code = 0 => /\ c2.mode # "checks" /\ (c2.mode \in Doc!Keying => c5)
                           /\ c2.mode \in Doc!Listening \cup {"rx_noise"} => c1.hears
        PROVE  Doc!IInv'
    <3>1. /\ c2' \in Doc!Runs /\ c2'.mode = c2.mode /\ c2'.backend = c2.backend
          /\ c2'.pc = "exited" /\ c2'.exit = code
      BY <2>0, <2>x, RunExits
    <3> QED
      BY <2>x, <3>1, RunEnds
  <2>s. ASSUME NEW what \in Doc!Diagnoses, NEW code \in {0, 1}, Doc!Says(what, code), ~c4',
               UNCHANGED <<c1, c3, c5, c6>>, c2.mode = "checks",
               code = 0 => c1.free /\ Doc!Answers,
               c1.free => /\ c2.backend = "uvk5" => (what = "stock" <=> c1.firmware = "stock")
                          /\ c2.backend = "kv4p" => (what = "pre_kiss" <=> c1.firmware = "pre_kiss")
        PROVE  Doc!IInv'
    <3>1. code \in Doc!Codes
      BY <2>p
    <3>2. /\ c2' \in Doc!Runs /\ c2'.mode = c2.mode /\ c2'.backend = c2.backend
          /\ c2'.pc = "exited" /\ c2'.exit = code /\ c2'.says = what
      BY <2>0, <2>s, <3>1, RunSays
    <3>3. ~c3'.keyed
      <4>1. c2.pc \notin {"hold", "unseen"}
        BY <2>f, <2>s
      <4> QED
        BY <2>f, <2>s, <4>1
    <3>4. c3' \in Doc!Radios /\ c6' \in [some : Nat, all : Nat] /\ (c6'.some > 0 => c1.hears)
      BY <2>0, <2>f, <2>s
    <3>5. c2'.exit = 0 => /\ c2.mode \in Doc!Keying => c5
                          /\ c2.mode \in Doc!Listening \cup {"rx_noise"} => c1.hears
                          /\ c2.mode = "checks" => c1.free /\ Doc!Answers
      BY <2>m, <2>s, <3>2
    <3> QED
      BY <2>s, <3>2, <3>3, <3>4, <3>5, RunEnds
  <2>u. ASSUME NEW what \in Doc!Diagnoses, Doc!Says(what, 1), ~c4',
               UNCHANGED <<c1, c3, c5, c6>>, c2.mode = "checks",
               c1.free => /\ c2.backend = "uvk5" => (what = "stock" <=> c1.firmware = "stock")
                          /\ c2.backend = "kv4p" => (what = "pre_kiss" <=> c1.firmware = "pre_kiss")
        PROVE  Doc!IInv'
    <3>1. ASSUME NEW code \in {1}, Doc!Says(what, code)
          PROVE  Doc!IInv'
      <4>1. code \in {0, 1} /\ code # 0
        OBVIOUS
      <4> QED
        BY <2>s, <2>u, <3>1, <4>1
    <3> QED
      BY <2>u, <3>1
  <2>1. CASE Doc!main
    <3>1. c2.pc = "main" /\ UNCHANGED <<c1, c3, c4, c5, c6>>
      BY <2>1 DEF Doc!main, Doc!At
    <3>2. ~c3.keyed /\ c4' = c4 /\ ~c4
      BY <2>0, <2>f, <3>1 DEF Doc!OpensAndKeys
    <3>3. \/ Doc!Exits(1) /\ ~c1.config
          \/ Doc!Exits(2) /\ c2.mode # "checks"
          \/ Doc!Exits(1) /\ c2.mode # "checks"
          \/ /\ Doc!To(IF c2.mode = "checks" THEN "checks" ELSE "open")
             /\ c2.mode \in Doc!Keying => c1.tty /\ c1.confirms
      BY <2>1, <2>m DEF Doc!main, Doc!Skips
    <3>4. ASSUME NEW code \in {1, 2}, Doc!Exits(code), c2.mode # "checks" \/ ~c1.config
          PROVE  Doc!IInv'
      <4>1. code \in Doc!Codes /\ code # 0
        BY <2>p
      <4>r. c3' \in Doc!Radios /\ c6' \in [some : Nat, all : Nat] /\ ~c3'.keyed /\ (c6'.some > 0 => c1.hears)
        BY <2>0, <2>f, <3>1, <3>2
      <4> QED
        BY <4>r, <2>x, <3>1, <3>2, <3>4, <4>1
    <3>5. ASSUME NEW pc \in {"checks", "open"}, Doc!To(pc), c2.mode \in Doc!Keying => c1.tty /\ c1.confirms,
                 pc = "checks" <=> c2.mode = "checks"
          PROVE  Doc!IInv'
      <4>1. pc \in Doc!Steps
        BY <2>p
      <4>2. c5' => c1.tty /\ c1.confirms /\ c2.mode \in Doc!Keying
        BY <2>0, <3>1 DEF Doc!AskedFirst
      <4> QED
        BY <2>0, <2>f, <2>o, <3>1, <3>2, <3>5, <4>1, <4>2
    <3> QED
      BY <3>3, <3>4, <3>5
  <2>a. c5 => c1.tty /\ c1.confirms /\ c2.mode \in Doc!Keying
    BY <2>0 DEF Doc!AskedFirst
  <2>k. c2.mode \in Doc!Keying /\ c2.pc \notin {"main", "exited"} => c1.tty /\ c1.confirms
    BY <2>0 DEF Doc!AskedFirst
  <2>2. CASE Doc!build_backend
    <3>1. c2.pc = "open" /\ UNCHANGED <<c1, c3, c5, c6>> /\ ~c3'.keyed
      BY <2>2, <2>0, <2>f DEF Doc!build_backend, Doc!At
    <3>2. ~c4
      BY <2>0, <3>1 DEF Doc!OpensAndKeys
    <3>3. c2.mode # "checks"
      BY <2>f, <3>1
    <3>4. \/ Doc!Exits(1) /\ UNCHANGED c4
          \/ c4' /\ \/ c2.mode \in Doc!Keying /\ Doc!To("key")
                    \/ c2.mode \in Doc!Listening /\ Doc!To("listen")
                    \/ c2.mode = "rx_noise" /\ Doc!To("cache")
      BY <2>2, <2>m, <3>3 DEF Doc!build_backend
    <3>5. CASE Doc!Exits(1) /\ UNCHANGED c4
      <4>1. ASSUME NEW code \in {1}, Doc!Exits(code)
            PROVE  Doc!IInv'
        <5>1. code \in Doc!Codes /\ code # 0
          BY <2>p
        <5>r. c3' \in Doc!Radios /\ c6' \in [some : Nat, all : Nat] /\ ~c3'.keyed /\ (c6'.some > 0 => c1.hears)
          BY <2>0, <2>f, <3>1
        <5> QED
          BY <5>r, <2>x, <3>1, <3>2, <3>3, <3>5, <4>1, <5>1
      <4> QED
        BY <3>5, <4>1
    <3>6. ASSUME NEW pc \in {"key", "listen", "cache"}, Doc!To(pc), c4',
                 pc = "key" => c2.mode \in Doc!Keying, pc = "listen" => c2.mode \in Doc!Listening,
                 pc = "cache" => c2.mode = "rx_noise"
          PROVE  Doc!IInv'
      <4>1. pc \in Doc!Steps
        BY <2>p
      <4> QED
        BY <2>0, <2>f, <2>a, <2>k, <2>o, <3>1, <3>6, <4>1
    <3> QED
      BY <3>4, <3>5, <3>6
  <2>3. CASE Doc!check_serial
    <3>1. c2.pc = "checks" /\ UNCHANGED <<c1, c3, c5, c6>> /\ c2.mode = "checks" /\ ~c4 /\ ~c3'.keyed
      BY <2>3, <2>0, <2>f DEF Doc!check_serial, Doc!At, Doc!OpensAndKeys
    <3>2. \/ Doc!Says("busy", 1) /\ ~c1.free /\ c4' = c4
          \/ Doc!Says("ready", 0) /\ c2.backend = "baofeng" /\ c4' = c4 /\ c1.free
          \/ Doc!To("connect") /\ c4' /\ c1.free
      BY <2>3 DEF Doc!check_serial
    <3>3. CASE Doc!Says("busy", 1) /\ ~c1.free /\ c4' = c4
      BY <2>p, <2>u, <3>1, <3>3
    <3>4. CASE Doc!Says("ready", 0) /\ c2.backend = "baofeng" /\ c4' = c4 /\ c1.free
      <4>1. Doc!Answers
        BY <2>0, <3>4, AnswersIs
      <4> QED
        BY <2>p, <2>s, <3>1, <3>4, <4>1
    <3>5. CASE Doc!To("connect") /\ c4' /\ c1.free
      BY <2>0, <2>f, <2>a, <2>k, <2>m, <2>p, <2>o, <3>1, <3>5
    <3> QED
      BY <3>2, <3>3, <3>4, <3>5
  <2>4. CASE Doc!kv4p_connect_probe
    <3>1. /\ c2.pc = "connect" /\ c2.backend = "kv4p" /\ UNCHANGED <<c1, c3, c5, c6>> /\ c4' = FALSE
          /\ c2.mode = "checks"
      BY <2>4, <2>f DEF Doc!kv4p_connect_probe, Doc!At
    <3>2. c1.free /\ (Doc!Answers <=> c1.firmware = "kiss")
      BY <2>0, <3>1, AnswersIs DEF Doc!Found
    <3>3. Doc!Elicits
      BY <3>1, <3>2 DEF Doc!Elicits
    <3>4. \/ Doc!Answers /\ Doc!Says("ready", 0)
          \/ c1.firmware = "pre_kiss" /\ Doc!Says("pre_kiss", 1)
          \/ c1.firmware # "pre_kiss" /\ Doc!Says("silent", 1)
      BY <2>4, <3>3 DEF Doc!kv4p_connect_probe
    <3>5. CASE Doc!Answers /\ Doc!Says("ready", 0)
      BY <2>p, <2>s, <3>1, <3>2, <3>5
    <3>6. CASE c1.firmware = "pre_kiss" /\ Doc!Says("pre_kiss", 1)
      BY <2>p, <2>u, <3>1, <3>2, <3>6
    <3>7. CASE c1.firmware # "pre_kiss" /\ Doc!Says("silent", 1)
      BY <2>p, <2>u, <3>1, <3>2, <3>7
    <3> QED
      BY <3>4, <3>5, <3>6, <3>7
  <2>5. CASE Doc!uvk5_connect_probe
    <3>1. /\ c2.pc = "connect" /\ c2.backend = "uvk5" /\ UNCHANGED <<c1, c3, c5, c6>>
          /\ c2.mode = "checks" /\ ~c3.keyed
      BY <2>5, <2>f DEF Doc!uvk5_connect_probe, Doc!At
    <3>2. c1.free /\ (Doc!Answers <=> c1.firmware \in Doc!Docks) /\ (Doc!Answers => c1.firmware # "stock")
      BY <2>0, <3>1, AnswersIs DEF Doc!Found
    <3>3. CASE Doc!Answers
      <4>1. Doc!To("version")
        BY <2>5, <3>3 DEF Doc!uvk5_connect_probe
      <4> QED
        BY <2>0, <2>f, <2>a, <2>k, <2>m, <2>p, <2>o, <3>1, <3>2, <3>3, <4>1
    <3>4. CASE ~Doc!Answers
      <4>1. c4' = FALSE /\ Doc!Elicits
        BY <2>5, <3>2, <3>4 DEF Doc!uvk5_connect_probe, Doc!Elicits
      <4>2. \/ c1.firmware = "stock" /\ Doc!Says("stock", 1)
            \/ c1.firmware # "stock" /\ Doc!Says("silent", 1)
        BY <2>5, <3>4, <4>1 DEF Doc!uvk5_connect_probe
      <4>3. CASE c1.firmware = "stock" /\ Doc!Says("stock", 1)
        BY <2>p, <2>u, <3>1, <4>1, <4>3
      <4>4. CASE c1.firmware # "stock" /\ Doc!Says("silent", 1)
        BY <2>p, <2>u, <3>1, <4>1, <4>4
      <4> QED
        BY <4>2, <4>3, <4>4
    <3> QED
      BY <3>3, <3>4
  <2>6. CASE Doc!hello_probe
    <3>1. /\ c2.pc = "version" /\ UNCHANGED <<c1, c3, c5, c6>> /\ c4' = FALSE /\ c2.mode = "checks"
      BY <2>6, <2>f DEF Doc!hello_probe, Doc!At
    <3>2. c1.free /\ Doc!Answers /\ c2.backend = "uvk5"
      BY <2>0, <3>1 DEF Doc!Found
    <3>3. c1.firmware # "stock"
      BY <2>0, <3>2, AnswersIs
    <3>4. CASE Doc!Says("version", 0)
      BY <2>p, <2>s, <3>1, <3>2, <3>3, <3>4
    <3>5. CASE Doc!Says("unread", 0)
      BY <2>p, <2>s, <3>1, <3>2, <3>3, <3>5
    <3> QED
      BY <2>6, <3>4, <3>5 DEF Doc!hello_probe
  <2>7. CASE Doc!KeyUp
    <3>1. c2.pc = "key" /\ UNCHANGED <<c1, c6>> /\ c2.mode \in Doc!Keying /\ ~c3.keyed
      BY <2>7, <2>f DEF Doc!KeyUp, Doc!At
    <3>2. \/ Doc!Exits(1) /\ c4' = FALSE /\ UNCHANGED <<c3, c5>>
          \/ /\ Doc!To("hold") /\ UNCHANGED <<c3, c5, c4>>
             /\ c2.backend = "baofeng" /\ c2.mode = "key_test"
          \/ /\ c3' = [c3 EXCEPT !.keyed = TRUE] /\ c5' = TRUE /\ UNCHANGED c4
             /\ Doc!To("hold") \/ Doc!To("unseen")
      BY <2>7 DEF Doc!KeyUp
    <3>3. CASE Doc!Exits(1) /\ c4' = FALSE /\ UNCHANGED <<c3, c5>>
      <4>1. ASSUME NEW code \in {1}, Doc!Exits(code)
            PROVE  Doc!IInv'
        <5>1. code \in Doc!Codes /\ code # 0
          BY <2>p
        <5> QED
          BY <2>0, <2>f, <2>m, <2>x, <3>1, <3>3, <4>1, <5>1
      <4> QED
        BY <3>3, <4>1
    <3>4. CASE Doc!To("hold") /\ UNCHANGED <<c3, c5, c4>>
               /\ c2.backend = "baofeng" /\ c2.mode = "key_test"
      BY <2>0, <2>f, <2>a, <2>k, <2>p, <2>o, <3>1, <3>4
    <3>5. ASSUME c3' = [c3 EXCEPT !.keyed = TRUE], c5' = TRUE, NEW pc \in {"hold", "unseen"}, Doc!To(pc)
          PROVE  Doc!IInv'
      <4>1. c3' \in Doc!Radios
        BY <2>0, <3>5 DEF Doc!Radios
      <4>2. pc \in Doc!Steps
        BY <2>p
      <4> QED
        BY <2>0, <2>f, <2>a, <2>k, <2>o, <3>1, <3>5, <4>1, <4>2
    <3> QED
      BY <3>2, <3>3, <3>4, <3>5
  <2>8. CASE Doc!KeyDown
    <3>1. c2.pc \in {"hold", "unseen"} /\ UNCHANGED <<c1, c5, c6>> /\ c2.mode \in Doc!Keying /\ c4' = FALSE
      BY <2>8, <2>f DEF Doc!KeyDown
    <3>2. c3' = [c3 EXCEPT !.keyed = FALSE]
      BY <2>8 DEF Doc!KeyDown, Doc!Fault
    <3>3. ~c3'.keyed /\ c3' \in Doc!Radios
      BY <2>0, <3>2 DEF Doc!Radios
    <3>4. c2.pc = "hold" => c5 \/ (c2.backend = "baofeng" /\ c2.mode = "key_test")
      BY <2>0 DEF Doc!OpensAndKeys
    <3>5. \/ Doc!Exits(1) \/ Doc!Exits(3)
          \/ c5 /\ Doc!Exits(0)
          \/ Doc!To("ask")
      BY <2>8, <2>p, <3>3, <3>4 DEF Doc!KeyDown
    <3>6. ASSUME NEW code \in {0, 1, 3}, Doc!Exits(code), code = 0 => c5
          PROVE  Doc!IInv'
      <4>1. code \in Doc!Codes
        BY <2>p
      <4> QED
        BY <2>0, <2>f, <2>m, <2>x, <3>1, <3>3, <3>6, <4>1
    <3>7. CASE Doc!To("ask")
      BY <2>0, <2>f, <2>a, <2>k, <2>p, <2>o, <3>1, <3>3, <3>7
    <3> QED
      BY <3>5, <3>6, <3>7
  <2>9. CASE Doc!Asks
    <3>1. c2.pc = "ask" /\ UNCHANGED <<c1, c3, c4, c5, c6>> /\ c2.mode \in Doc!Keying /\ ~c3'.keyed
      BY <2>9, <2>f DEF Doc!Asks, Doc!At
    <3>2. ~c4'
      BY <2>0, <3>1 DEF Doc!OpensAndKeys
    <3>3. ASSUME NEW code \in {0, 1}, Doc!Exits(code), code = 0 => c5
          PROVE  Doc!IInv'
      <4>1. code \in Doc!Codes
        BY <2>p
      <4>r. c3' \in Doc!Radios /\ c6' \in [some : Nat, all : Nat] /\ ~c3'.keyed /\ (c6'.some > 0 => c1.hears)
        BY <2>0, <2>f, <3>1
      <4> QED
        BY <4>r, <2>m, <2>x, <3>1, <3>2, <3>3, <4>1
    <3>4. (c5 /\ Doc!Exits(0)) \/ Doc!Exits(1)
      BY <2>9 DEF Doc!Asks
    <3> QED
      BY <3>3, <3>4
  <2>10. CASE Doc!Listens
    <3>1. PICK some \in {0} \cup {IF c1.hears THEN 1 ELSE 0} :
             c6' = [some |-> c6.some + some, all |-> c6.all + 1]
      BY <2>10 DEF Doc!Listens
    <3>2. some \in Nat /\ (some > 0 => c1.hears)
      OBVIOUS
    <3>3. c6' \in [some : Nat, all : Nat] /\ c6'.some = c6.some + some
      BY <2>0, <3>1, <3>2
    <3>4. c6'.some > 0 => c1.hears
      BY <2>0, <2>f, <3>2, <3>3
    <3>5. UNCHANGED <<c1, c2, c3, c4, c5>>
      BY <2>10 DEF Doc!Listens
    <3>6. Doc!Answers' <=> Doc!Answers
      BY <3>5 DEF Doc!Answers
    <3>7. Doc!AskedFirst' /\ Doc!OpensAndKeys' /\ Doc!InItsMode' /\ Doc!Found'
      BY <2>0, <3>4, <3>5, <3>6 DEF Doc!AskedFirst, Doc!OpensAndKeys, Doc!InItsMode, Doc!Found
    <3>8. Doc!LeavesItQuiet' /\ Doc!DiagnosisIsRight'
      BY <3>5 DEF Doc!IInv, Doc!LeavesItQuiet, Doc!DiagnosisIsRight, Doc!Exited
    <3>9. Doc!ExitIsHonest'
      BY <3>5, <3>6 DEF Doc!IInv, Doc!ExitIsHonest
    <3> QED
      BY <2>0, <3>3, <3>5, <3>7, <3>8, <3>9 DEF Doc!IInv
  <2>11. ASSUME c2.pc = "listen", ~c4', UNCHANGED <<c1, c3, c5>>,
                Doc!Exits(3) \/ (c1.hears /\ Doc!Exits(0)) \/ Doc!Exits(1),
                c6' \in [some : Nat, all : Nat], c6'.some > 0 => c1.hears
         PROVE  Doc!IInv'
    <3>1. c2.mode \in Doc!Listening /\ ~c3'.keyed
      BY <2>f, <2>11
    <3>2. ASSUME NEW code \in {0, 1, 3}, Doc!Exits(code), code = 0 => c1.hears
          PROVE  Doc!IInv'
      <4>1. code \in Doc!Codes
        BY <2>p
      <4>r. c3' \in Doc!Radios /\ c6' \in [some : Nat, all : Nat] /\ ~c3'.keyed /\ (c6'.some > 0 => c1.hears)
        BY <2>0, <2>11, <3>1
      <4> QED
        BY <4>r, <2>0, <2>m, <2>x, <2>11, <3>1, <3>2, <4>1
    <3> QED
      BY <2>11, <3>2
  <2>12. CASE Doc!rx_level \/ Doc!rssi_meter \/ Doc!rx_capture
    <3>1. c2.pc = "listen" /\ ~c4' /\ UNCHANGED <<c1, c3, c5, c6>>
      BY <2>12 DEF Doc!rx_level, Doc!rssi_meter, Doc!rx_capture, Doc!Finishes, Doc!At
    <3>2. Doc!Exits(3) \/ (c6.some > 0 /\ Doc!Exits(0)) \/ Doc!Exits(1)
      BY <2>p, <2>12 DEF Doc!rx_level, Doc!rssi_meter, Doc!rx_capture, Doc!Finishes
    <3> QED
      BY <2>0, <2>f, <2>11, <3>1, <3>2
  <2>13. CASE Doc!dtmf
    <3>1. PICK last \in {0} \cup {IF c1.hears THEN 1 ELSE 0} :
             c6' = [c6 EXCEPT !.some = @ + last] /\ Doc!Finishes("dtmf", c6.some + last > 0)
      BY <2>13 DEF Doc!dtmf
    <3>2. last \in Nat /\ (last > 0 => c1.hears)
      OBVIOUS
    <3>3. c6' \in [some : Nat, all : Nat] /\ c6'.some = c6.some + last
      BY <2>0, <3>1, <3>2
    <3>4. c6.some + last > 0 => c1.hears
      BY <2>0, <2>f, <3>2
    <3>5. c2.pc = "listen" /\ ~c4' /\ UNCHANGED <<c1, c3, c5>>
      BY <3>1 DEF Doc!Finishes, Doc!At
    <3>6. Doc!Exits(3) \/ (c6.some + last > 0 /\ Doc!Exits(0)) \/ Doc!Exits(1)
      BY <2>p, <3>1 DEF Doc!Finishes
    <3> QED
      BY <2>11, <3>3, <3>4, <3>5, <3>6
  <2>14. CASE Doc!Caches
    <3>1. c2.pc = "cache" /\ UNCHANGED <<c1, c4, c5, c6>> /\ c2.mode = "rx_noise" /\ Doc!To("force")
      BY <2>14, <2>f DEF Doc!Caches, Doc!At
    <3>2. c3' \in Doc!Radios /\ c3'.keyed = c3.keyed
      BY <2>0, <2>14 DEF Doc!Caches, Doc!Radios, Doc!Registers
    <3> QED
      BY <2>0, <2>f, <2>a, <2>k, <2>m, <2>p, <2>o, <3>1, <3>2
  <2>15. CASE Doc!Forces
    <3>1. c2.pc = "force" /\ UNCHANGED <<c1, c5, c6>> /\ c2.mode = "rx_noise"
      BY <2>15, <2>f DEF Doc!Forces, Doc!At
    <3>2. c3' \in Doc!Radios /\ c3'.keyed = c3.keyed
      BY <2>0, <2>15 DEF Doc!Forces, Doc!Radios
    <3>3. CASE Doc!To("measure") /\ UNCHANGED c4
      BY <2>0, <2>f, <2>a, <2>k, <2>m, <2>p, <2>o, <3>1, <3>2, <3>3
    <3>4. CASE Doc!Exits(1) /\ c4' = FALSE
      <4>1. ASSUME NEW code \in {1}, Doc!Exits(code)
            PROVE  Doc!IInv'
        <5>1. code \in Doc!Codes /\ code # 0
          BY <2>p
        <5> QED
          BY <2>0, <2>f, <2>m, <2>x, <3>1, <3>2, <3>4, <4>1, <5>1
      <4> QED
        BY <3>4, <4>1
    <3> QED
      BY <2>15, <3>3, <3>4 DEF Doc!Forces
  <2>16. CASE Doc!Restores
    <3>1. c2.pc = "measure" /\ UNCHANGED <<c1, c5, c6>> /\ c2.mode = "rx_noise" /\ c4' = FALSE
      BY <2>16, <2>f DEF Doc!Restores, Doc!At
    <3>2. c3' \in Doc!Radios /\ c3'.keyed = c3.keyed
      BY <2>0, <2>16 DEF Doc!Restores, Doc!Radios
    <3>3. ASSUME NEW code \in {0, 1, 3}, Doc!Exits(code), code = 0 => c1.hears
          PROVE  Doc!IInv'
      <4>1. code \in Doc!Codes
        BY <2>p
      <4> QED
        BY <2>0, <2>f, <2>m, <2>x, <3>1, <3>2, <3>3, <4>1
    <3>4. Doc!Exits(3) \/ (c1.hears /\ Doc!Exits(0)) \/ Doc!Exits(1)
      BY <2>p, <2>16 DEF Doc!Restores
    <3> QED
      BY <3>3, <3>4
  <2>17. CASE UNCHANGED Doc!vars
    <3>1. UNCHANGED <<c1, c2, c3, c4, c5, c6, c7>>
      BY <2>17 DEF Doc!vars
    <3>2. Doc!AskedFirst' /\ Doc!OpensAndKeys' /\ Doc!Found'
      BY <3>1 DEF Doc!IInv, Doc!AskedFirst, Doc!OpensAndKeys, Doc!Found, Doc!Answers
    <3>3. Doc!InItsMode' /\ Doc!LeavesItQuiet'
      BY <3>1 DEF Doc!IInv, Doc!InItsMode, Doc!LeavesItQuiet, Doc!Exited
    <3>4. Doc!ExitIsHonest' /\ Doc!DiagnosisIsRight'
      BY <3>1 DEF Doc!IInv, Doc!ExitIsHonest, Doc!DiagnosisIsRight, Doc!Exited, Doc!Answers
    <3> QED
      BY <3>1, <3>2, <3>3, <3>4 DEF Doc!IInv
  <2> QED
    BY <2>1, <2>2, <2>3, <2>4, <2>5, <2>6, <2>7, <2>8, <2>9, <2>10, <2>12, <2>13, <2>14, <2>15, <2>16, <2>17 DEF Doc!Next
<1> QED
  BY <1>1, <1>2, PTL DEF Doc!Spec, Doc!IInv
=============================================================================
