--------------------------------- MODULE Box ---------------------------------
(***************************************************************************)
(* The life of a Box (box.go): Start takes the managers through four       *)
(* stages in the order of preStart and start, and closes the box when one  *)
(* of them fails; Close may come from another goroutine at any time.       *)
(***************************************************************************)
EXTENDS Naturals, Sequences, FiniteSets

VARIABLES
    at,         \* steps of Start that are done
    caller,     \* where Start and Close are
    next,       \* what each of them has closed so far
    reached,    \* the stages each part has been started to
    running,    \* parts started and not closed since
    done,       \* s.done is closed
    races       \* history: "close" when Close ran during Start, "panic" when
                \* done was closed twice

vars == <<at, caller, next, reached, running, done, races>>

Stages == <<"initialize", "start", "post-start", "started">>

\* adapter.Start and adapter.StartNamed
Staged(stage, parts) == [i \in DOMAIN parts |-> <<stage, parts[i]>>]

PreStartSteps ==
    Staged("start", <<"log">>)
    \o Staged("initialize", <<"internal", "network", "dnsTransport", "dnsRouter", "connection",
           "router", "outbound", "inbound", "endpoint", "service", "certificate">>)
    \o Staged("start", <<"outbound", "dnsTransport", "network", "connection", "router", "dnsRouter">>)

\* Fault: inbounds are started before the internal services and the endpoints.
EarlyInbound ==
    Staged("start", <<"inbound", "service", "internal", "endpoint", "certificate">>)
    \o Staged("post-start", <<"outbound", "network", "dnsTransport", "dnsRouter", "connection",
           "router", "endpoint", "certificate", "inbound", "service", "internal">>)
    \o Staged("started", <<"network", "dnsTransport", "dnsRouter", "connection", "router",
           "outbound", "endpoint", "certificate", "inbound", "service", "internal">>)

StartSteps ==
    Staged("start", <<"internal", "endpoint", "certificate", "inbound", "service">>)
    \o Staged("post-start", <<"outbound", "network", "dnsTransport", "dnsRouter", "connection",
           "router", "endpoint", "certificate", "inbound", "service", "internal">>)
    \o Staged("started", <<"network", "dnsTransport", "dnsRouter", "connection", "router",
           "outbound", "endpoint", "certificate", "inbound", "service", "internal">>)

Steps == PreStartSteps \o StartSteps
Parts == {Steps[i][2] : i \in DOMAIN Steps}

\* Fault: the endpoints are left out.
EndpointsLeft == <<"service", "inbound", "certificate", "outbound", "router", "connection",
                   "dnsRouter", "dnsTransport", "network", "internal", "log">>

CloseOrder == <<"service", "inbound", "certificate", "endpoint", "outbound", "router",
                "connection", "dnsRouter", "dnsTransport", "network", "internal", "log">>

Walkers == {"start", "close"}

Init ==
    /\ at = 0 /\ done = FALSE /\ races = {} /\ running = {}
    /\ caller = [start |-> "starting", close |-> "call"]
    /\ next = [c \in Walkers |-> 0]
    /\ reached = [p \in Parts |-> <<>>]

\* The next part is started to its stage, or fails to, in which case it may
\* already hold something.
StartPart ==
    /\ caller["start"] = "starting" /\ at < Len(Steps)
    /\ LET stage == Steps[at + 1][1]
           part == Steps[at + 1][2]
       IN /\ reached' = [reached EXCEPT ![part] = Append(@, stage)]
          /\ running' = running \cup {part}
    /\ \/ at' = at + 1 /\ UNCHANGED caller
       \/ caller' = [caller EXCEPT !["start"] = "call"] /\ UNCHANGED at
    /\ races' = races \cup (IF caller["close"] # "call" THEN {"close"} ELSE {})
    /\ UNCHANGED <<next, done>>

Started ==
    /\ caller["start"] = "starting" /\ at = Len(Steps)
    /\ caller' = [caller EXCEPT !["start"] = "started"]
    /\ UNCHANGED <<at, next, reached, running, done, races>>

\* Close: the select on done
Select(c) ==
    /\ caller[c] = "call" /\ (c = "start" \/ at > 0)
    /\ caller' = [caller EXCEPT ![c] = IF done THEN "refused" ELSE "mark"]
    /\ UNCHANGED <<at, next, reached, running, done, races>>

\* and close(done), which panics when done was closed after the select.  Start
\* recovers from it and returns no error.
Mark(c) ==
    /\ caller[c] = "mark"
    /\ caller' = [caller EXCEPT ![c] = IF done THEN "panic" ELSE "closing"]
    /\ done' = TRUE
    /\ races' = races \cup (IF done THEN {"panic"} ELSE {})
    /\ UNCHANGED <<at, next, reached, running>>

ClosePart(c) ==
    /\ caller[c] = "closing" /\ next[c] < Len(CloseOrder)
    /\ next' = [next EXCEPT ![c] = @ + 1]
    /\ running' = running \ {CloseOrder[next[c] + 1]}
    /\ UNCHANGED <<at, caller, reached, done, races>>

Closed(c) ==
    /\ caller[c] = "closing" /\ next[c] = Len(CloseOrder)
    /\ caller' = [caller EXCEPT ![c] = "closed"]
    /\ UNCHANGED <<at, next, reached, running, done, races>>

Next == StartPart \/ Started \/ \E c \in Walkers : Select(c) \/ Mark(c) \/ ClosePart(c) \/ Closed(c)

-----------------------------------------------------------------------------
\* Every part goes through the stages in order and skips none, and an inbound
\* is opened only when whatever it may hand a connection to is started.
StagesInOrder ==
    /\ \A p \in Parts \ {"log"} : reached[p] = SubSeq(Stages, 1, Len(reached[p]))
    /\ Len(reached["inbound"]) > 1
          => \A p \in Parts \ {"log", "service"} : Len(reached[p]) > 1
    /\ caller["start"] = "started" => \A p \in Parts \ {"log"} : reached[p] = Stages

\* When Close has returned, or Start has failed, nothing that was started is
\* left running; it takes a Close during the start to leave something.
ClosedBehind ==
    /\ caller["close"] = "closed" /\ "close" \notin races /\ caller["start"] = "started" => running = {}
    /\ caller["start"] = "closed" => running = {}
    /\ ~(next["start"] > 0 /\ next["close"] > 0)
=============================================================================
