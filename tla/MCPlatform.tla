----------------------------- MODULE MCPlatform -----------------------------
(***************************************************************************)
(* The parts that work beside the traffic.  A behaviour is one of one      *)
(* part: the DNS client (two requests and a lookup of a server's name, for *)
(* one question to two transports), the Shadowsocks manager, a NAT test,   *)
(* the memory guard, or the network manager; the variables of the other    *)
(* parts stay as they are at rest.                                         *)
(***************************************************************************)
EXTENDS DNSClient, Naturals

CONSTANTS Users, Global, Links, Calls, MaxBytes,
          Services, TimerPolls, Usages, Limits, MaxPressure,
          Interfaces, Conns

VARIABLES
    part,
    up, usersMap, served, counted, count, link, call, save, file, lastSavedCache, owed, ssmExcused,
    nat, sent, phase, retransmitCount, external, report, stopped, lost,
    usage, limit, life, globalServices, monitor, pressure, callback, t, poll, cleared, guardExcused,
    platform, stage, netStarted, default, finder, networkInterfaces, update, networkPaused, devicePaused,
    reset, conn, netExcused

ssmVars == <<up, usersMap, served, counted, count, link, call, save, file, lastSavedCache, owed, ssmExcused>>
stunVars == <<nat, sent, phase, retransmitCount, external, report, stopped, lost>>
guardVars == <<usage, limit, life, globalServices, monitor, pressure, callback, t, poll, cleared, guardExcused>>
netVars == <<platform, stage, netStarted, default, finder, networkInterfaces, update, networkPaused, devicePaused,
             reset, conn, netExcused>>

MCKeys == {[transport |-> "A", question |-> 1], [transport |-> "B", question |-> 1]}

Option(checker, lookup, optimistic, usesCache) ==
    [checker |-> checker, lookup |-> lookup, optimistic |-> optimistic, cache |-> usesCache]

MCResolve == Option(FALSE, TRUE, TRUE, "yes")

MCOptions == {
    Option(FALSE, FALSE, TRUE, "yes"),
    Option(TRUE, FALSE, FALSE, "yes"),
    Option(TRUE, TRUE, TRUE, "subnet"),
    Option(FALSE, TRUE, TRUE, "no")}

\* A limit with room for the three thresholds, and one whose resume mark is 0.
MCLimits == {[memory |-> 8, margin |-> 1], [memory |-> 4, margin |-> 2]}

SSM == INSTANCE SSMAPI WITH Requests <- Calls, req <- call, excused <- ssmExcused
NAT == INSTANCE STUN
Guard == INSTANCE OOMKiller WITH excused <- guardExcused
Network == INSTANCE NetworkManager WITH started <- netStarted, excused <- netExcused

PlatformInit ==
    /\ part \in {"dns", "ssm", "stun", "guard", "network"}
    /\ Init
    /\ SSM!Init
    /\ NAT!Init /\ (part # "stun" => nat = [mapping |-> "port", filtering |-> "port"])
    /\ Guard!Init /\ (part # "guard" => limit.memory = 8 /\ usage = CHOOSE u \in Usages : TRUE)
    /\ Network!Init /\ (part # "network" => platform = "libbox")

\* Bound: of the requests and the keys, which are alike, one of each comes first.
DNSNext ==
    /\ Next
    /\ LET first == CHOOSE r \in Outer : TRUE
       IN  (\E r \in Outer : pc'[r] # "idle") =>
               pc'[first] # "idle" /\ req'[first].key = CHOOSE k \in Keys : TRUE

\* Bound: a crash, and what happens beside Close, is followed up to the next
\* start; a refused list and a failed write do not come together; two requests
\* overlap only while no save is under way, and a save overlaps with a request
\* only where no list was refused.
SSMNext ==
    /\ IF {"lost", "late"} \cap ssmExcused = {} THEN SSM!Next ELSE SSM!Start
    /\ \/ \A s \in DOMAIN save : save'[s].pc = "idle"
       \/ /\ \E r \in Calls : call'[r] = None
          /\ "refused" \in ssmExcused' => \A r \in Calls : call'[r] = None
    /\ ~({"refused", "unwritten"} \subseteq ssmExcused')

\* Bound: one guard with everything that can happen to it; with a second one,
\* no new poll by a timer and no change of the memory in use, and nothing once
\* their starts or closes have overlapped.  The guards are alike: one starts first.
GuardBound ==
    /\ \/ \E s \in Services : life[s] = "new"
       \/ /\ UNCHANGED usage /\ "monitor" \notin guardExcused
          /\ \A g \in TimerPolls : poll[g] = None => poll'[g] = None
    /\ (\E s \in Services : life'[s] # "new") => life'[CHOOSE s \in Services : TRUE] # "new"

PlatformNext ==
    /\ UNCHANGED part
    /\ IF part = "dns" THEN DNSNext ELSE UNCHANGED vars
    /\ IF part = "ssm" THEN SSMNext ELSE UNCHANGED ssmVars
    /\ IF part = "stun" THEN NAT!Next ELSE UNCHANGED stunVars
    /\ IF part = "guard" THEN Guard!Next /\ GuardBound ELSE UNCHANGED guardVars
    /\ IF part = "network" THEN Network!Next ELSE UNCHANGED netVars

PlatformSpec ==
    /\ PlatformInit
    /\ [][PlatformNext]_<<part, vars, ssmVars, stunVars, guardVars, netVars>>
    /\ Fairness

\* The DNS client alone.
DNSClientSpec == part = "dns" /\ PlatformSpec

-----------------------------------------------------------------------------
\* Traffic is counted once, the inbound serves the users the API lists, and the
\* cache file holds both when the service has closed (TrafficManager,
\* UserManager, saveCache).
AccountsKept == SSM!AccountsKept

\* What is reported of a NAT is what it does; a stricter filter only after a
\* loss, and a laxer one only where the mapping test has opened it
\* (detectNATMapping, detectNATFiltering).
NATTypeRight == NAT!NATTypeRight

\* The comments of stun.go name the tests of RFC 5780: with no packet lost, the
\* filtering that is reported is the NAT's (detectNATFiltering).
NATFilteringFound == NAT!NATFilteringFound

\* Two resets on the threshold have the end of the pressure between them, a
\* closed guard's timer rests, and the monitor runs while it has a listener
\* (adaptiveTimer.poll, Service.Start, Service.Close).
GuardSound == Guard!TypeOK /\ Guard!ResetsSpaced /\ Guard!QuietAfterClose /\ Guard!MonitorMatches

\* Between updates every connection a reset could reach runs over the default
\* interface (updateDefaultInterface, notifyInterfaceUpdate, CloseAll).
ConnectionsFollow == Network!TypeOK /\ Network!ConnectionsFollow
=============================================================================
