----------------------------- MODULE DvapControl -----------------------------
(***************************************************************************)
(* The DVAP modules are linked over the gateway's remote control           *)
(* (dstar/dvap_manager.py, remote_client.py): a login, requests that are   *)
(* sent again when no reply comes, link orders that have none, and a cache *)
(* of the state the gateway confirmed.  Datagrams keep their order on the  *)
(* loopback, may be lost, and may come after the wait for them has ended.  *)
(***************************************************************************)
EXTENDS Naturals, Sequences, FiniteSets

CONSTANTS
    Modules,     \* the modules configured, in their order
    Reflectors,
    Retries,     \* DEFAULT_RETRIES
    MaxJobs,     \* bound on the requests of the web client
    MaxFaults,   \* bound on losses, delays and restarts
    NetFaults    \* {"lost", "late", "restart"}

VARIABLES
    gate,    \* the gateway: the link of each module, the session
    net,     \* datagrams on their way to the gateway
    replies, \* datagrams in the client's socket
    client,  \* where the request is, its resends, _authed
    job,     \* the work: an operation, its module, the modules left to ask
    cache,   \* the confirmed state shown
    count    \* jobs and faults so far

vars == <<gate, net, replies, client, job, cache, count>>

NotLinked == "none"
Letters == {Modules[i] : i \in DOMAIN Modules}
NoJob == [op |-> "none", module |-> Modules[1], to |-> NotLinked, asks |-> << >>]

Init ==
    /\ gate = [link |-> [m \in Letters |-> NotLinked], authed |-> FALSE]
    /\ net = << >> /\ replies = << >>
    /\ client = [at |-> "idle", tries |-> 0, authed |-> FALSE, relogged |-> FALSE]
    /\ job = NoJob
    /\ cache = [m \in Letters |-> [reachable |-> FALSE, link |-> NotLinked]]
    /\ count = [jobs |-> 0, faults |-> 0]

Fault(kind) == kind \in NetFaults /\ count.faults < MaxFaults /\ count' = [count EXCEPT !.faults = @ + 1]
Msg(kind, m, to) == [kind |-> kind, module |-> m, to |-> to]

(***************************************************************************)
(* The gateway.                                                            *)
(***************************************************************************)

Gateway ==
    /\ net # << >> /\ net' = Tail(net)
    /\ LET d == Head(net) IN
       CASE d.kind = "login" ->
              replies' = Append(replies, Msg("random", d.module, NotLinked)) /\ UNCHANGED gate
         [] d.kind = "hash" ->
              gate' = [gate EXCEPT !.authed = TRUE] /\ replies' = Append(replies, Msg("ack", d.module, NotLinked))
         [] d.kind \in {"status", "link"} /\ ~gate.authed ->
              replies' = Append(replies, Msg("nak", d.module, NotLinked)) /\ UNCHANGED gate
         [] d.kind = "status" /\ gate.authed ->
              replies' = Append(replies, Msg("repeater", d.module, gate.link[d.module])) /\ UNCHANGED gate
         [] OTHER -> gate' = [gate EXCEPT !.link[d.module] = d.to] /\ UNCHANGED replies
    /\ UNCHANGED <<client, job, cache, count>>

Restarts ==
    /\ Fault("restart") /\ gate.authed /\ gate' = [gate EXCEPT !.authed = FALSE]
    /\ UNCHANGED <<net, replies, client, job, cache>>

Loses ==
    /\ Fault("lost")
    /\ \/ net # << >> /\ Head(net).kind # "link" /\ net' = Tail(net) /\ UNCHANGED replies
       \/ replies # << >> /\ replies' = Tail(replies) /\ UNCHANGED net
    /\ UNCHANGED <<gate, client, job, cache>>

(***************************************************************************)
(* The manager.  A link or an unlink is followed by a refresh.             *)
(***************************************************************************)

Starts(j) ==
    /\ client.at = "idle" /\ count.jobs < MaxJobs /\ count' = [count EXCEPT !.jobs = @ + 1]
    /\ job' = j /\ client' = [client EXCEPT !.at = "next"]
    /\ UNCHANGED <<gate, net, replies, cache>>

refresh == Starts([NoJob EXCEPT !.op = "refresh", !.asks = Modules])
link == \E m \in Letters, r \in Reflectors :
           Starts([NoJob EXCEPT !.op = "link", !.module = m, !.to = r])
unlink == \E m \in Letters :
             Starts([NoJob EXCEPT !.op = "unlink", !.module = m, !.asks = <<m>>])

\* The next request, if the work has one.
Proceeds(j, authed) ==
    /\ job' = j
    /\ client' = [at |-> IF j.asks = << >> /\ j.op # "link" THEN "answered" ELSE "next",
                  tries |-> 0, authed |-> authed, relogged |-> FALSE]

Asked == IF job.op = "link" THEN job.module ELSE Head(job.asks)

\* The request goes out, after a login when there is none.
Sends(d) == net' = Append(net, d) /\ client' = [client EXCEPT !.at = d.kind, !.tries = @ + 1]

_request ==
    /\ client.at = "next" /\ (job.asks # << >> \/ job.op = "link")
    /\ IF ~client.authed THEN Sends(Msg("login", job.module, NotLinked)) /\ UNCHANGED job
       ELSE IF job.op = "link"
       THEN /\ net' = Append(net, Msg("link", job.module, job.to))
            /\ Proceeds([job EXCEPT !.op = "refresh", !.asks = Modules], TRUE)
       ELSE Sends(Msg("status", Head(job.asks), NotLinked)) /\ UNCHANGED job
    /\ UNCHANGED <<gate, replies, cache, count>>

\* A request that got no answer logs in afresh once; then a refresh passes over
\* the module and any other work is given up.
Fails ==
    IF client.at = "status" /\ ~client.relogged
    THEN /\ client' = [at |-> "next", tries |-> 0, authed |-> FALSE, relogged |-> TRUE]
         /\ UNCHANGED <<job, cache>>
    ELSE IF job.op = "refresh"
    THEN /\ cache' = [cache EXCEPT ![Asked].reachable = FALSE]
         /\ Proceeds([job EXCEPT !.asks = Tail(@)], client.authed)
    ELSE Proceeds(NoJob, client.authed) /\ UNCHANGED cache

\* A refresh shows the link; an unlink drops it, if there is one, by a link to nothing.
Confirms(to) ==
    IF job.op = "refresh"
    THEN /\ cache' = [cache EXCEPT ![Asked] = [reachable |-> TRUE, link |-> to]]
         /\ Proceeds([job EXCEPT !.asks = Tail(@)], TRUE) /\ UNCHANGED net
    ELSE /\ net' = IF to = NotLinked THEN net ELSE Append(net, Msg("link", job.module, NotLinked))
         /\ Proceeds([job EXCEPT !.op = "refresh", !.asks = Modules], TRUE) /\ UNCHANGED cache

\* _await(): other replies are passed over, a NAK ends the request.
Expected == [login |-> "random", hash |-> "ack", status |-> "repeater"]

_await ==
    /\ client.at \in DOMAIN Expected /\ replies # << >> /\ replies' = Tail(replies)
    /\ LET r == Head(replies) IN
       \/ r.kind = "nak" /\ Fails /\ UNCHANGED net
       \/ r.kind \notin {"nak", Expected[client.at]} /\ UNCHANGED <<client, job, cache, net>>
       \/ /\ r.kind = "random" /\ client.at = "login"
          /\ net' = Append(net, Msg("hash", job.module, NotLinked))
          /\ client' = [client EXCEPT !.at = "hash"] /\ UNCHANGED <<job, cache>>
       \/ /\ r.kind = "ack" /\ client.at = "hash"
          /\ client' = [client EXCEPT !.at = "next", !.authed = TRUE, !.tries = 0]
          /\ UNCHANGED <<job, cache, net>>
       \/ r.kind = "repeater" /\ client.at = "status" /\ Confirms(r.to)
    /\ UNCHANGED <<gate, count>>

\* No reply in time: the request is sent again, up to the retries; the hash is not.
TimesOut ==
    /\ client.at \in DOMAIN Expected /\ replies = << >>
    /\ (net = << >> /\ UNCHANGED count) \/ (net # << >> /\ Fault("late"))
    /\ IF client.at # "hash" /\ client.tries <= Retries
       THEN client' = [client EXCEPT !.at = "next"] /\ UNCHANGED <<job, cache>>
       ELSE Fails
    /\ UNCHANGED <<gate, net, replies>>

Answered ==
    /\ client.at = "answered" /\ client' = [client EXCEPT !.at = "idle"]
    /\ job' = NoJob /\ UNCHANGED <<gate, net, replies, cache, count>>

Next ==
    \/ Gateway \/ Restarts \/ Loses \/ refresh \/ link \/ unlink
    \/ _request \/ _await \/ TimesOut \/ Answered

Spec == Init /\ [][Next]_vars
FairSpec ==
    Spec /\ WF_vars(Gateway) /\ WF_vars(_request) /\ WF_vars(_await) /\ WF_vars(TimesOut) /\ WF_vars(Answered)

TypeOK ==
    /\ gate.link \in [Letters -> Reflectors \cup {NotLinked}]
    /\ client.at \in {"idle", "next", "answered"} \cup DOMAIN Expected
    /\ client.tries \in 0 .. Retries + 1
    /\ cache \in [Letters -> [reachable : BOOLEAN, link : Reflectors \cup {NotLinked}]]

\* What the panel shows of a module that answered is what the gateway has for
\* that module, not what was ordered and not another module's state.
ConfirmedIsTrue ==
    client.at = "answered" => \A m \in Letters : cache[m].reachable => cache[m].link = gate.link[m]

\* Why: logged in, at most one link order and one question about one module are
\* on their way, and of a question that has been given up only a refusal can
\* still come; what is shown and not about to be asked again is confirmed.
Targets == Reflectors \cup {NotLinked}
Datagrams == [kind : {"login", "hash", "status", "link", "random", "ack", "nak", "repeater"},
              module : Letters, to : Targets]
Kinds(s, kinds) == Len(s) = Len(kinds) /\ \A i \in DOMAIN s : s[i].kind = kinds[i]
Resting == {"next", "idle", "answered"}
Clients == [at : Resting \cup {"login", "hash", "status"}, tries : Nat, authed : BOOLEAN, relogged : BOOLEAN]
Jobs == [op : {"none", "refresh", "link", "unlink"}, module : Letters, to : Targets, asks : Seq(Letters)]
Typed ==
    /\ gate \in [link : [Letters -> Targets], authed : BOOLEAN]
    /\ net \in Seq(Datagrams) /\ replies \in Seq(Datagrams)
    /\ client \in Clients /\ job \in Jobs /\ cache \in [Letters -> [reachable : BOOLEAN, link : Targets]]
\* A link order is still to be carried out, or has been refused.
Ordered == job.op = "refresh" /\ job.asks = Modules /\ ~client.relogged
AtRest ==
    /\ client.at \in Resting /\ client.authed
    /\ \/ net = << >> /\ replies = << >>
       \/ Kinds(net, <<"link">>) /\ replies = << >> /\ Ordered
       \/ net = << >> /\ Kinds(replies, <<"nak">>) /\ ~gate.authed /\ Ordered
LoggedOut ==
    /\ client.at \in Resting \cup {"login"} /\ ~client.authed
    /\ \A i \in DOMAIN net : \/ net[i].kind = "login"
                             \/ i = 1 /\ net[1].kind = "status" /\ replies = << >> /\ ~gate.authed
    /\ \A i \in DOMAIN replies : replies[i].kind = "random" \/ (i = 1 /\ replies[1].kind = "nak")
AtHash ==
    /\ client.at = "hash" /\ ~client.authed
    /\ \A i \in DOMAIN net : net[i].kind = "login" \/ (i = Len(net) /\ net[i].kind = "hash")
    /\ \A i \in DOMAIN replies : \/ replies[i].kind = "random"
                                 \/ i = Len(replies) /\ replies[i].kind = "ack" /\ net = << >>
AtStatus ==
    /\ client.at = "status" /\ client.authed /\ job.op # "link" /\ job.asks # << >>
    /\ \/ Kinds(net, <<"link", "status">>) /\ net[2].module = Asked /\ replies = << >> /\ Ordered
       \/ /\ Kinds(net, <<"status">>) /\ net[1].module = Asked
          /\ replies = << >> \/ (Kinds(replies, <<"nak">>) /\ ~gate.authed /\ ~client.relogged)
       \/ net = << >> /\ replies = << >>
       \/ net = << >> /\ Kinds(replies, <<"nak">>) /\ ~gate.authed
       \/ net = << >> /\ Kinds(replies, <<"nak", "nak">>) /\ ~gate.authed /\ ~client.relogged
       \/ net = << >> /\ Kinds(replies, <<"repeater">>) /\ replies[1].to = gate.link[Asked]
ToBeAsked == IF job.op = "refresh" THEN {job.asks[i] : i \in DOMAIN job.asks} ELSE {}
HasWork ==
    /\ client.at \in {"idle", "answered"} => job.asks = << >>
    /\ client.at \notin {"idle", "answered"} => job.asks # << >> \/ job.op = "link"
CacheIsTrue == \A m \in Letters \ ToBeAsked : cache[m].reachable => cache[m].link = gate.link[m]
IInv ==
    /\ Typed
    /\ AtRest \/ LoggedOut \/ AtHash \/ AtStatus
    /\ HasWork
    /\ CacheIsTrue

\* Every request of the panel comes back, whatever the gateway does.
InRequest == client.at # "idle"
RequestsComeBack == InRequest ~> ~InRequest
=============================================================================
