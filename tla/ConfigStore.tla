---------------------------- MODULE ConfigStore -----------------------------
(***************************************************************************)
(* radio.toml, the settings the API works from, and the radio that is      *)
(* live (config/settings.py, config/save.py, api/settings.py, the switch   *)
(* of api/app.py).  PATCH /settings and PUT /settings/mumble-servers run   *)
(* on threads, POST /radio/select on the event loop, which it leaves for   *)
(* the seconds that a rebuild takes.                                       *)
(***************************************************************************)
EXTENDS Naturals, FiniteSets

CONSTANTS
    Backends,     \* server.backend: "mock" and those with a block
    Blocks,       \* BACKEND_BLOCK_GROUPS: the backends with keys of their own
    Required,     \* those that have a key without a default
    Declared,     \* the blocks that the operator wrote
    Values,       \* values of some other setting, and of the server list
    Threads,      \* threads serving requests
    MaxRequests,  \* bound on the requests
    StoreFaults,  \* {"build_fails", "write_fails", "torn"}
    Overlaps      \* requests overlap

VARIABLES
    file,   \* radio.toml
    mem,    \* app.state.settings
    live,   \* holder.radio: its backend and its generation; its settings
    routes, \* the generation of the radio the routes were bound to
    call,   \* the request of each thread, and of the loop
    told,   \* what callers have been told is stored
    requests, faulted

vars == <<file, mem, live, routes, call, told, requests, faulted>>

Loop == "loop"
Callers == Threads \cup {Loop}
Settings == [backend : Backends, value : Values, blocks : SUBSET (Blocks \cup Backends)]
Idle == [pc |-> "idle"]
Fault(kind) == kind \in StoreFaults /\ ~faulted /\ faulted' = TRUE

\* ---- config/settings.py and config/save.py ----
\* A block is configured when it has a key, and the active backend always is.
resolve_settings(backend, value, blocks) ==
    [backend |-> backend, value |-> value, blocks |-> blocks \cup {backend}]
load_settings(f) == resolve_settings(f.backend, f.value, f.blocks)

\* Every key that has a value is written into what the file holds, defaults
\* included; a block whose required key has none is left out.
Incomplete == Required \ Declared
save_settings(doc, s) ==
    [doc EXCEPT !.backend = s.backend, !.value = s.value, !.blocks = @ \cup (Blocks \ Incomplete)]

Init ==
    \E backend \in Backends \ Incomplete, value \in Values :
        /\ file = [backend |-> backend, value |-> value, blocks |-> Declared, servers |-> value,
                   whole |-> TRUE]
        /\ mem = load_settings(file)
        /\ live = [backend |-> backend, gen |-> 0, held |-> backend]
        /\ routes = 0
        /\ call = [t \in Callers |-> Idle]
        /\ told = [value |-> value, servers |-> value]
        /\ requests = 0 /\ faulted = FALSE

Begins(t, request) ==
    /\ call[t] = Idle /\ requests < MaxRequests
    /\ Overlaps \/ \A u \in Callers : call[u] = Idle
    /\ requests' = requests + 1
    /\ call' = [call EXCEPT ![t] = request]
    /\ UNCHANGED <<file, mem, live, routes, told, faulted>>
Goes(t, request) == call' = [call EXCEPT ![t] = request]

\* ---- PATCH /settings: the whole of what is set now, patched ----
patch_settings(t, backend, value) ==
    Begins(t, [pc |-> "parse", kind |-> "patch",
               new |-> resolve_settings(backend, value, Blocks)])

\* ---- PUT /settings/mumble-servers: the rest of the file stays ----
put_mumble_servers(t, servers) ==
    Begins(t, [pc |-> "parse", kind |-> "servers", new |-> servers])

\* ---- POST /radio/select: only the configured blocks are carried ----
Enumerates == mem.blocks \cap Incomplete = {}
select_backend(target) ==
    /\ Enumerates /\ target \in mem.blocks
    /\ Begins(Loop, [pc |-> "rebuild", kind |-> "select",
                     new |-> resolve_settings(target, mem.value, mem.blocks \cap Blocks)])

\* The holder builds the new radio or, failing that, the previous one again;
\* either is another radio than the one the routes know.
rebuild ==
    LET c == call[Loop] IN
    /\ c.pc = "rebuild"
    /\ \/ /\ live' = [backend |-> c.new.backend, gen |-> live.gen + 1, held |-> c.new.backend]
          /\ Goes(Loop, [c EXCEPT !.pc = "parse"]) /\ UNCHANGED faulted
       \/ /\ Fault("build_fails")
          /\ live' = [live EXCEPT !.backend = live.held, !.gen = @ + 1]
          /\ Goes(Loop, Idle)
    /\ UNCHANGED <<file, mem, routes, told, requests>>

\* Every save reads the file, changes it and writes it back.
Parses(t) ==
    /\ call[t].pc = "parse" /\ file.whole
    /\ Goes(t, [pc |-> "write", kind |-> call[t].kind, new |-> call[t].new, doc |-> file])
    /\ UNCHANGED <<file, mem, live, routes, told, requests, faulted>>

Writes(t) ==
    LET c == call[t] IN
    /\ c.pc = "write"
    /\ \/ /\ file' = IF c.kind = "servers" THEN [c.doc EXCEPT !.servers = c.new]
                     ELSE save_settings(c.doc, c.new)
          /\ Goes(t, [pc |-> "answer", kind |-> c.kind, new |-> c.new]) /\ UNCHANGED faulted
       \/ Fault("write_fails") /\ Goes(t, Idle) /\ UNCHANGED file
    /\ UNCHANGED <<mem, live, routes, told, requests>>

Answers(t) ==
    LET c == call[t] IN
    /\ c.pc = "answer"
    /\ mem' = IF c.kind = "servers" THEN mem ELSE c.new
    /\ told' = CASE c.kind = "servers" -> [told EXCEPT !.servers = c.new]
                 [] c.kind = "patch" -> [told EXCEPT !.value = c.new.value]
                 [] c.kind = "select" -> told
    /\ routes' = IF c.kind = "select" THEN live.gen ELSE routes
    /\ Goes(t, Idle)
    /\ UNCHANGED <<file, live, requests, faulted>>

\* The process ends, perhaps in a write, and starts from the file.
Restarts ==
    /\ \/ UNCHANGED <<file, faulted>>
       \/ /\ \E t \in Callers : call[t].pc = "write"
          /\ Fault("torn") /\ file' = [file EXCEPT !.whole = FALSE]
    /\ requests < MaxRequests /\ requests' = requests + 1
    /\ call' = [t \in Callers |-> Idle]
    /\ IF file'.whole /\ load_settings(file).blocks \cap Incomplete = {}
       THEN /\ mem' = load_settings(file)
            /\ live' = [backend |-> file.backend, gen |-> live.gen + 1, held |-> file.backend]
            /\ routes' = live.gen + 1
            /\ told' = [value |-> file.value, servers |-> file.servers]
       ELSE UNCHANGED <<mem, live, routes, told>>

Next ==
    \/ \E t \in Threads, b \in Backends \ Incomplete, v \in Values :
          (b = mem.backend \/ v = mem.value) /\ patch_settings(t, b, v)
    \/ \E t \in Threads, v \in Values : put_mumble_servers(t, v)
    \/ (\E b \in Backends : select_backend(b)) \/ rebuild
    \/ \E t \in Callers : Parses(t) \/ Writes(t) \/ Answers(t)
    \/ Restarts

Spec == Init /\ [][Next]_vars

TypeOK ==
    /\ file \in [backend : Backends, value : Values, blocks : SUBSET Blocks, servers : Values,
                 whole : BOOLEAN]
    /\ mem \in Settings
    /\ live \in [backend : Backends, gen : 0 .. MaxRequests, held : Backends]
    /\ routes \in 0 .. MaxRequests /\ requests \in 0 .. MaxRequests /\ faulted \in BOOLEAN
    /\ told \in [value : Values, servers : Values]
    /\ \A t \in Callers : call[t].pc \in {"idle", "parse", "rebuild", "write", "answer"}

Quiet == \A t \in Callers : call[t] = Idle

\* What a caller was told is stored is in the file: no other request has put
\* back what it had read before.
AnsweredIsStored == Quiet => file.value = told.value /\ file.servers = told.servers

\* The settings the API shows are those of the file, which a restart loads.
ShownIsStored == Quiet => mem.backend = file.backend /\ mem.value = file.value

\* After a switch that was answered the routes use the radio the holder has,
\* and after one that failed as well.
RoutesReachTheRadio == call[Loop] = Idle => routes = live.gen

\* A backend is offered only if the operator configured it or it is the active
\* one, so that the list of backends can always be answered.
OnlyDeclaredIsOffered == mem.blocks \cap Incomplete = {} /\ mem.blocks \subseteq Declared \cup {mem.backend}

\* A restart finds a file that can be read.
FileIsWhole == file.whole
-----------------------------------------------------------------------------
(* Why, while requests do not overlap and nothing fails: one is under way,  *)
(* and how far it is says what the file has and the memory has not.         *)
Files == [backend : Backends, value : Values, blocks : SUBSET Blocks, servers : Values, whole : BOOLEAN]
Requests ==
    [pc : {"rebuild", "parse", "answer"}, kind : {"patch", "select"}, new : Settings]
    \cup [pc : {"write"}, kind : {"patch", "select"}, new : Settings, doc : Files]
    \cup [pc : {"parse", "answer"}, kind : {"servers"}, new : Values]
    \cup [pc : {"write"}, kind : {"servers"}, new : Values, doc : Files]
StoreAssumption == Loop \notin Threads /\ Declared \subseteq Blocks
NothingFails == \A kind \in {"build_fails", "write_fails", "torn"} : kind \notin StoreFaults
Typed ==
    /\ file \in Files /\ mem \in Settings /\ told \in [value : Values, servers : Values]
    /\ live \in [backend : Backends, gen : Nat, held : Backends]
    /\ call \in [Callers -> {Idle} \cup Requests]

Loadable == file.whole /\ file.backend \notin Incomplete /\ file.blocks \cap Incomplete = {}
OneRequest == \A t, u \in Callers : t = u \/ call[t] = Idle \/ call[u] = Idle
Agree == mem.backend = file.backend /\ mem.value = file.value /\ told.value = file.value /\ told.servers = file.servers

\* What a request has done before its answer.
IsAt(c) ==
    /\ c.kind \in {"patch", "select"} => c.new.backend \notin Incomplete
    /\ c.kind = "select" => c.new.value = told.value
    /\ c.pc = "write" => c.doc = file
    /\ c.pc \in {"rebuild", "parse", "write"} => Agree
    /\ c.pc = "rebuild" => c.kind = "select"
    /\ c.pc = "rebuild" \/ c.kind # "select" => routes = live.gen
    /\ c.pc = "answer" =>
          IF c.kind = "servers"
          THEN /\ mem.backend = file.backend /\ mem.value = file.value /\ told.value = file.value
               /\ file.servers = c.new
          ELSE file.backend = c.new.backend /\ file.value = c.new.value /\ told.servers = file.servers

IInv ==
    /\ Typed /\ Loadable /\ OneRequest
    /\ Quiet => Agree /\ routes = live.gen
    /\ \A t \in Callers : call[t] # Idle => IsAt(call[t]) /\ (call[t].kind = "select" <=> t = Loop)
=============================================================================
