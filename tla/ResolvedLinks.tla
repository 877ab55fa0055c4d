---------------------------- MODULE ResolvedLinks ----------------------------
(***************************************************************************)
(* The links of the resolved service (service/resolved/resolve1.go,        *)
(* service.go) and the servers that the resolved transport keeps for them  *)
(* (transport.go).  D-Bus clients set the links up, each call in its own   *)
(* goroutine and under the lock of the links; the network monitor drops    *)
(* links; queries pick a link under that lock and its servers under the    *)
(* lock of the transport.  The transport is set before the bus is exported *)
(* and closed after it.                                                    *)
(*                                                                         *)
(* A list of addresses is "none", "valid" ones, or "invalid" when one of   *)
(* them has the length of no address; of the domains counts whether one    *)
(* takes the question of the queries.                                      *)
(***************************************************************************)
EXTENDS Naturals, Sequences, FiniteSets

CONSTANTS
    IfIndexes,  \* network interfaces
    MaxLinks,   \* bound: TransportLinks made
    Asking,     \* queries that may be under way together
    None

VARIABLES
    up,           \* "up", "released" once the service is closed, "closed" with the transport
    known,        \* the interfaces the finder knows
    links,        \* i.links: the TransportLink of each interface, 0 without one
    link, made,   \* what each TransportLink holds, and how many were made
    linkAccess,   \* the lock of the links: "free", or "kept" by a call that has returned
    defaultRouteSequence,
    linkServers,  \* of the transport: for each link None or its servers, open or
                  \* closed, and made from what the link holds now or not
    acceptDefaultResolvers,
    asked,        \* for each query the link it selected, 0 between selections
    crashed,      \* None, or the nil pointer that ended the process
    doors         \* history: what has happened that may lead there

resolvedVars == <<up, known, links, link, made, linkAccess, defaultRouteSequence, linkServers,
                  acceptDefaultResolvers, asked, crashed, doors>>

AllLinks == 1..MaxLinks
Lists == {"none", "valid", "invalid"}
EmptyLink == [iif |-> FALSE, address |-> "none", addressEx |-> "none", domain |-> FALSE]

Init ==
    /\ up = "up" /\ known \in SUBSET IfIndexes /\ links = [i \in IfIndexes |-> 0]
    /\ link = [l \in AllLinks |-> EmptyLink] /\ made = 0 /\ linkAccess = "free"
    /\ defaultRouteSequence = <<>> /\ linkServers = [l \in AllLinks |-> None]
    /\ acceptDefaultResolvers \in BOOLEAN /\ asked = [q \in Asking |-> 0]
    /\ crashed = None /\ doors = {}

Registered(l) == \E i \in IfIndexes : links[i] = l
Addressed(l) == {link[l].address, link[l].addressEx} # {"none"}
Without(sequence, indexes) == SelectSeq(sequence, LAMBDA i : i \notin indexes)

-----------------------------------------------------------------------------
(* The calls of resolve1.                                                  *)

\* getLink for an interface that is new to it and that the finder does not
\* know: the link stays in the map without its interface.
Unfound(i) == links[i] = 0 /\ i \notin known

LeaveUnfound(i) ==
    /\ made < MaxLinks /\ made' = made + 1 /\ links' = [links EXCEPT ![i] = made + 1]
    /\ doors' = doors \cup {"unknown"}

\* The link that getLink otherwise returns, and what it holds.
getLink(i) == IF links[i] = 0 THEN made + 1 ELSE links[i]
Held(i) == IF links[i] = 0 THEN [EmptyLink EXCEPT !.iif = TRUE] ELSE link[links[i]]

\* updateTransports closes the servers there are and makes those of the link,
\* unless one of the addresses is invalid.
Closed(servers, same) ==
    IF servers = None THEN None ELSE [open |-> FALSE, current |-> servers.current /\ same]

updateTransports(l, new) ==
    IF "invalid" \in {new.address, new.addressEx}
    THEN Closed(linkServers[l], new = link[l])
    ELSE [open |-> TRUE, current |-> TRUE]

\* A call that changes the link to new and what is registered; link.iif is
\* read for a log line.
Change(i, new, registered) ==
    IF Unfound(i)
    THEN /\ LeaveUnfound(i)
         /\ UNCHANGED <<link, linkServers, linkAccess, crashed>>
    ELSE IF ~Held(i).iif
    THEN crashed' = "iif" /\ UNCHANGED <<links, link, made, linkAccess, linkServers, doors>>
    ELSE LET l == getLink(i) IN
         /\ l <= MaxLinks
         /\ made' = IF links[i] = 0 THEN made + 1 ELSE made
         /\ link' = [link EXCEPT ![l] = new]
         /\ links' = [links EXCEPT ![i] = IF registered THEN l ELSE 0]
         /\ linkServers' = [linkServers EXCEPT ![l] = updateTransports(l, new)]
         /\ doors' = doors \cup (IF registered THEN {} ELSE {"reverted"})
                           \cup (IF "invalid" \in {new.address, new.addressEx} THEN {"invalid"} ELSE {})
         /\ UNCHANGED <<linkAccess, crashed>>

Answering == up = "up" /\ crashed = None /\ linkAccess = "free"
Elsewhere == UNCHANGED <<up, known, acceptDefaultResolvers, asked>>

SetLinkDNS(i, list) ==
    /\ Answering /\ Change(i, [Held(i) EXCEPT !.address = list], TRUE)
    /\ UNCHANGED defaultRouteSequence /\ Elsewhere

SetLinkDNSEx(i, list) ==
    /\ Answering /\ Change(i, [Held(i) EXCEPT !.addressEx = list], TRUE)
    /\ UNCHANGED defaultRouteSequence /\ Elsewhere

SetLinkDomains(i, takes) ==
    /\ Answering /\ Change(i, [Held(i) EXCEPT !.domain = takes], TRUE)
    /\ UNCHANGED defaultRouteSequence /\ Elsewhere

SetLinkDefaultRoute(i, yes) ==
    /\ Answering /\ Change(i, Held(i), TRUE)
    /\ defaultRouteSequence' = IF Unfound(i) \/ ~Held(i).iif THEN defaultRouteSequence
                               ELSE Without(defaultRouteSequence, {i}) \o IF yes THEN <<i>> ELSE <<>>
    /\ Elsewhere

\* The servers are made anew; their kind is not told apart.
SetLinkDNSOverTLS(i) == Answering /\ Change(i, Held(i), TRUE) /\ UNCHANGED defaultRouteSequence /\ Elsewhere

RevertLink(i) == Answering /\ Change(i, Held(i), FALSE) /\ UNCHANGED defaultRouteSequence /\ Elsewhere

\* ResolveHostname, ResolveAddress, ResolveRecord, ResolveService: the lock is
\* given back only when getLink finds the link, which may be a new one; then
\* the router is asked.
Resolve(i) ==
    /\ Answering /\ Elsewhere
    /\ \/ /\ Unfound(i) /\ LeaveUnfound(i) /\ linkAccess' = "kept"
          /\ UNCHANGED <<link, crashed>>
       \/ /\ ~Unfound(i) /\ ~Held(i).iif /\ crashed' = "iif"
          /\ UNCHANGED <<links, link, made, linkAccess, doors>>
       \/ /\ links[i] = 0 /\ i \in known /\ made < MaxLinks /\ made' = made + 1
          /\ link' = [link EXCEPT ![made + 1] = Held(i)] /\ links' = [links EXCEPT ![i] = made + 1]
          /\ UNCHANGED <<linkAccess, crashed, doors>>
    /\ UNCHANGED <<defaultRouteSequence, linkServers>>

-----------------------------------------------------------------------------
(* The network.                                                            *)

FinderUpdate ==
    /\ up = "up" /\ crashed = None /\ known' \in SUBSET IfIndexes
    /\ UNCHANGED <<up, links, link, made, linkAccess, defaultRouteSequence, linkServers,
                   acceptDefaultResolvers, asked, crashed, doors>>

\* Fault: the default routes stay as they were.
RoutesStay == defaultRouteSequence

RoutesLeft == Without(defaultRouteSequence, {i \in IfIndexes : links[i] # 0})

\* Fault: the servers of the links that are dropped stay.
ServersStay == linkServers

\* deleteCallback, for every link.
ServersLeft == [l \in AllLinks |-> IF Registered(l) THEN None ELSE linkServers[l]]

\* onNetworkUpdate keeps the links whose interface is the very object the finder
\* gives out now, which of those it still knows is up to the finder.
onNetworkUpdate ==
    /\ Answering
    /\ \E kept \in SUBSET {i \in known : links[i] # 0 /\ link[links[i]].iif} :
         /\ links' = [i \in IfIndexes |-> IF i \in kept THEN links[i] ELSE 0]
         /\ defaultRouteSequence' = RoutesLeft
         /\ linkServers' = ServersLeft
         /\ doors' = doors \cup (IF kept = {} THEN {} ELSE {"kept"})
                           \cup (IF \E q \in Asking : asked[q] # 0 THEN {"deleted"} ELSE {})
    /\ UNCHANGED <<up, known, link, made, linkAccess, acceptDefaultResolvers, asked, crashed>>

-----------------------------------------------------------------------------
(* Transport.Exchange.                                                     *)

\* The default routes are tried from the last on, up to one with addresses.
Stops == {k \in DOMAIN defaultRouteSequence :
            LET l == links[defaultRouteSequence[k]] IN l = 0 \/ Addressed(l)}
LastStop == CHOOSE k \in Stops : \A j \in Stops : j <= k
DefaultRoute == links[defaultRouteSequence[IF Stops = {} THEN 1 ELSE LastStop]]

Matching == {links[i] : i \in {j \in IfIndexes : links[j] # 0 /\ link[links[j]].domain}}

\* With no link for the question the answer is a name error.
Select(q) ==
    /\ up # "closed" /\ crashed = None /\ linkAccess = "free" /\ asked[q] = 0
    /\ \/ \E l \in Matching : asked' = [asked EXCEPT ![q] = l] /\ UNCHANGED crashed
       \/ /\ Matching = {} /\ acceptDefaultResolvers /\ defaultRouteSequence # <<>>
          /\ IF DefaultRoute = 0 THEN crashed' = "route" /\ UNCHANGED asked
             ELSE asked' = [asked EXCEPT ![q] = DefaultRoute] /\ UNCHANGED crashed
    /\ UNCHANGED <<up, known, links, link, made, linkAccess, defaultRouteSequence, linkServers,
                   acceptDefaultResolvers, doors>>

\* Without servers the answer is a name error; otherwise they are asked.
TakeServers(q) ==
    /\ asked[q] # 0 /\ crashed = None /\ asked' = [asked EXCEPT ![q] = 0]
    /\ crashed' = IF linkServers[asked[q]] = None THEN "servers" ELSE None
    /\ UNCHANGED <<up, known, links, link, made, linkAccess, defaultRouteSequence, linkServers,
                   acceptDefaultResolvers, doors>>

-----------------------------------------------------------------------------
\* Service.Close gives up the callback and the bus, Transport.Close the servers.
CloseService ==
    /\ up = "up" /\ crashed = None /\ up' = "released"
    /\ UNCHANGED <<known, links, link, made, linkAccess, defaultRouteSequence, linkServers,
                   acceptDefaultResolvers, asked, crashed, doors>>

CloseTransport ==
    /\ up = "released" /\ crashed = None /\ up' = "closed"
    /\ linkServers' = [l \in AllLinks |-> Closed(linkServers[l], TRUE)]
    /\ UNCHANGED <<known, links, link, made, linkAccess, defaultRouteSequence,
                   acceptDefaultResolvers, asked, crashed, doors>>

Next ==
    \/ \E i \in IfIndexes :
         \/ \E list \in Lists : SetLinkDNS(i, list) \/ SetLinkDNSEx(i, list)
         \/ \E b \in BOOLEAN : SetLinkDomains(i, b) \/ SetLinkDefaultRoute(i, b)
         \/ SetLinkDNSOverTLS(i) \/ RevertLink(i) \/ Resolve(i)
    \/ FinderUpdate \/ onNetworkUpdate \/ CloseService \/ CloseTransport
    \/ \E q \in Asking : Select(q) \/ TakeServers(q)

-----------------------------------------------------------------------------
\* The values the variables take.
TypeOK ==
    LET Link == [iif : BOOLEAN, address : Lists, addressEx : Lists, domain : BOOLEAN] IN
    /\ up \in {"up", "released", "closed"} /\ known \subseteq IfIndexes
    /\ links \in [IfIndexes -> 0..MaxLinks] /\ link \in [AllLinks -> Link] /\ made \in 0..MaxLinks
    /\ linkAccess \in {"free", "kept"} /\ defaultRouteSequence \in Seq(IfIndexes)
    /\ linkServers \in [AllLinks -> {None} \cup [open : BOOLEAN, current : BOOLEAN]]
    /\ acceptDefaultResolvers \in BOOLEAN /\ asked \in [Asking -> 0..MaxLinks]
    /\ crashed \in {None, "iif", "route", "servers"}
    /\ doors \subseteq {"unknown", "reverted", "invalid", "kept", "deleted"}

\* A nil pointer ends the process, and the lock of the links is lost, only in
\* the ways the code leaves open: a call named an interface nobody knows; an
\* interface was reverted, and its default route stayed; a link never had valid
\* addresses, outlived a network update, or was dropped by one under a query
\* (getLink, RevertLink, onNetworkUpdate, Transport.Exchange).
OnlyKnownDoors ==
    /\ linkAccess = "kept" \/ crashed = "iif" => "unknown" \in doors
    /\ crashed = "route" => "reverted" \in doors
    /\ crashed = "servers" => doors \cap {"reverted", "invalid", "kept", "deleted"} # {}

\* The transport keeps open servers for links that are registered, made from
\* what the link holds now, and closes all of them at the end; but for a link
\* that was reverted, and for one with an invalid address (updateTransports,
\* deleteTransport, Transport.Close).
ServersFollow ==
    \A l \in AllLinks : linkServers[l] # None =>
      /\ linkServers[l].open /\ "reverted" \notin doors => Registered(l)
      /\ "invalid" \notin doors => linkServers[l].current /\ (linkServers[l].open <=> up # "closed")
=============================================================================
