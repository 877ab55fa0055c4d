------------------------------ MODULE MCWalks ------------------------------
(***************************************************************************)
(* What must come to an end: relayed connections, starting members in the  *)
(* order of their dependencies, finding the rule that decides a DNS query, *)
(* and a dial over several interfaces or addresses.                        *)
(***************************************************************************)
EXTENDS Relay, Sequences, Functions, FiniteSets

CONSTANTS None, Tags, Unknown, Interfaces, MaxAddress

VARIABLES
    part,             \* what this behaviour is about
    walk,             \* of StartWalk
    members,          \* the list that is walked
    order,            \* the tags started so far, in order
    rules, query,     \* of DNSRules
    mode, racer, left, timer, errors, result, returned, recent   \* of ParallelDial

SW == INSTANCE StartWalk
DR == INSTANCE DNSRules
PD == INSTANCE ParallelDial

-----------------------------------------------------------------------------
\* The start walk, on every list of members over three tags: some are
\* outbounds, some endpoints (which the explanation cannot look up), each with
\* up to two dependencies, one of them possibly unknown.
Deps == {<<>>} \cup {<<d>> : d \in Tags \cup {Unknown}}
               \cup {<<d, e>> : d \in Tags, e \in Tags \cup {Unknown}}

TagList == CHOOSE s \in [1..Cardinality(Tags) -> Tags] : Range(s) = Tags

Lists ==
    {[i \in 1..Cardinality(Tags) |->
        [tag |-> TagList[i], deps |-> f[i].deps, endpoint |-> f[i].endpoint]]
      : f \in [1..Cardinality(Tags) -> [deps : Deps, endpoint : BOOLEAN]]}

WalkInit == members \in Lists /\ walk = SW!Begin(members) /\ order = <<>>

Outbounds == {m \in Range(members) : ~m.endpoint}

ByTag(t) ==
    IF \E m \in Outbounds : m.tag = t THEN CHOOSE m \in Outbounds : m.tag = t
    ELSE None

WalkStep ==
    \/ (SW!Skip \/ SW!PassDone \/ SW!NextPass \/ SW!Stuck \/ SW!Lint(ByTag(SW!Problem)))
       /\ UNCHANGED order
    \/ SW!MayStart /\ SW!StartMember /\ order' = Append(order, SW!Next1.tag)
    \/ SW!MayStart /\ SW!StartFails /\ UNCHANGED order

WalkNext == WalkStep /\ UNCHANGED members

-----------------------------------------------------------------------------
\* The tags a member needs, directly or not.
DepsOf(t) == UNION {Range(m.deps) : m \in {x \in Range(members) : x.tag = t}}

\* The dependency relation in Cardinality(Tags) + 1 steps is its closure.
Needs ==
    LET f[n \in 0..Cardinality(Tags)] ==
          IF n = 0 THEN [t \in Tags |-> DepsOf(t)]
          ELSE [t \in Tags |-> f[n - 1][t] \cup UNION {f[n - 1][u] : u \in f[n - 1][t] \cap Tags}]
    IN  f[Cardinality(Tags)]

Startable(t) == Unknown \notin Needs[t] /\ t \notin Needs[t]
                /\ \A u \in Needs[t] : u \notin Needs[u]

\* Members are started in a topological order of the dependencies, whatever
\* the order of the list (manager.go, startOutbounds).
\* The walk ends with every member started exactly when no member needs an
\* unknown tag or itself; otherwise it has started just those that can be,
\* and its explanation is truthful: a reported circle is one, and a
\* dependency reported missing is unknown or an endpoint.
ExactlyTheStartable ==
    /\ \A i \in DOMAIN order : DepsOf(order[i]) \subseteq {order[j] : j \in 1..(i - 1)}
    /\ walk.result = "started" => \A t \in Tags : Startable(t)
    /\ walk.result \in {"started", "circular", "missing"}
        => Range(order) = {t \in Tags : Startable(t)}
    /\ walk.result = "circular" => \E t \in Tags : t \in Needs[t]
    /\ walk.result = "missing" =>
         \/ SW!Problem = Unknown
         \/ SW!Problem \in {m.tag : m \in Range(members) \ Outbounds}

-----------------------------------------------------------------------------
\* DNS rules: every list of three rules that buildRules accepts.
DNSRule(m, l, a, rsp, act, srv) ==
    [matches |-> m, limit |-> l, accepts |-> a, response |-> rsp, action |-> act, server |-> srv,
     strategy |-> FALSE]

Servers == {"real", "fakeip", "missing"}

DNSRuleSpace ==
    {DNSRule(FALSE, FALSE, FALSE, "no", "route", "real")}
    \cup {DNSRule(TRUE, FALSE, FALSE, "no", "route", srv) : srv \in Servers}
    \cup {DNSRule(TRUE, TRUE, a, "no", "route", srv) : a \in BOOLEAN, srv \in Servers}
    \cup {DNSRule(TRUE, l, TRUE, "no", act, "real") :
             l \in BOOLEAN, act \in {"options", "reject", "predefined"}}
    \cup {DNSRule(TRUE, FALSE, FALSE, "no", "evaluate", srv) : srv \in Servers}
    \cup {DNSRule(TRUE, FALSE, a, rsp, act, "real") :
             a \in BOOLEAN, rsp \in {"no", "yes", "inverted"}, act \in {"respond", "route"}}
    \cup {DNSRule(TRUE, FALSE, TRUE, "yes", act, "real") : act \in {"options", "evaluate"}}
    \cup {[DNSRule(TRUE, FALSE, FALSE, "no", act, "real") EXCEPT !.strategy = TRUE] :
             act \in {"route", "options", "evaluate"}}

InitDNS ==
    /\ \E r \in DNSRuleSpace :
         /\ rules = <<r>>
         /\ DR!NoFakeIPEvaluate(<<r>>) /\ (r.limit \/ r.strategy \/ DR!ValidModern(<<r>>))
    /\ query = None

BuildDNS ==
    /\ query = None
    /\ \E a, b \in DNSRuleSpace, caller \in {"exchange", "lookup"}, address \in BOOLEAN :
         /\ caller = "lookup" => address
         /\ rules' = rules \o <<a, b>>
         /\ DR!Built(rules')
         /\ query' = DR!Ask(caller, address)

DNSDone == query # None /\ query.phase = "done"

\* The first rule that applies decides a query, with the options collected on
\* the way and the latest evaluated response (matchDNS, exchangeWithRules).
FirstDecides == query # None => DR!FirstDecides /\ DR!OptionsInForce /\ DR!RespondsLatest

-----------------------------------------------------------------------------
walkVars == <<walk, members, order>>
dnsVars == <<rules, query>>
dialVars == <<mode, racer, left, timer, errors, result, returned, recent>>
allvars == <<part, vars, walkVars, dnsVars, dialVars>>

MCInit ==
    /\ part \in {"start", "dns", "relay", "dial"}
    /\ IF part = "start" THEN WalkInit ELSE walk = SW!Idle /\ members = <<>> /\ order = <<>>
    /\ IF part = "dns" THEN InitDNS ELSE rules = <<>> /\ query = None
    /\ IF part = "relay" THEN Init
       ELSE conn = [c \in Conns |-> NewConn("udp", FALSE, FALSE)] /\ closers = {}
    /\ IF part = "dial" THEN PD!Init
       ELSE recent = FALSE /\ PD!Begin("network", {}, {}, 1)

DNSNext == BuildDNS \/ (query # None /\ DR!WalkStep)

MCNext ==
    /\ UNCHANGED part
    /\ IF part = "start" THEN WalkNext ELSE UNCHANGED walkVars
    /\ IF part = "dns" THEN DNSNext ELSE UNCHANGED dnsVars
    /\ IF part = "relay" THEN Next ELSE UNCHANGED vars
    /\ IF part = "dial" THEN PD!Next ELSE UNCHANGED dialVars

\* Walks go on, but for what a DNS server has been asked; every dial of a racer
\* ends and the timer fires; and of a relay what is obliged to happen does.
Progress ==
    /\ part = "dns" => query # None /\ DR!OwnStep
    /\ part = "relay" => Obliged
    /\ MCNext

MCSpec == MCInit /\ [][MCNext]_allvars /\ WF_allvars(Progress)

\* A dial gives up only when every racer there is has failed
\* (dialParallelInterface, DialParallelNetwork).
FailsOnlyWhenAllFailed == part = "dial" => PD!FailsOnlyWhenAllFailed

\* The start walk ends: lintOutbound follows a chain of dependencies without a
\* check of its own on how far it goes.  The walk over the DNS rules ends or is
\* left with a server that does not answer: the loops of Exchange and Lookup go
\* on until a rule without an address filter or the default decides.  A dial
\* ends with one connection, and what CloseAll took ends or is held by its
\* client.
EndsUnlessHeld ==
    /\ part = "start" => <>(walk.phase = "done")
    /\ part = "dns" =>
         <>[](query = None \/ DNSDone \/ query.phase \in {"evaluate", "exchange"})
    /\ part = "relay" => CloseAllEnds
    /\ part = "dial" => PD!OneConnectionLeft
=============================================================================
