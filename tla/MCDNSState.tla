---------------------------- MODULE MCDNSState ----------------------------
(***************************************************************************)
(* The tables of the DNS side, and the files.  A behaviour is one of the   *)
(* fakeip store, of the DNS cache in the cache file, of the usage          *)
(* statistics, of the links of the resolved service, of the servers of the *)
(* DHCP transport, of the ids of the UDP transport, or of the connection   *)
(* pool of the TLS transport.  The last two are never in one behaviour and *)
(* share the variables they have in common.                                *)
(* A query is named by the domain it asks for, so that one symmetry does   *)
(* for all of them.                                                        *)
(***************************************************************************)
EXTENDS SavedState, Integers, FiniteSets, TLC

CONSTANTS Closers, IdSpace, IfIndexes, MaxLinks, Asking,
          Interfaces, Fetchers, Monitor, MaxMoves

VARIABLES
    up, known, links, link, made, linkAccess, defaultRouteSequence, linkServers,
    acceptDefaultResolvers, asked, crashed, doors,
    auto, default, changed, moves, transportLock, fresh, lastError, servers, updater, settled, crossed,
    state, inFlight, queriesComplete, completeClosed, closeCtxDone, active, shut,
    connState, pc, outcome,
    closed, connection, result, udpSize, called, recvSize, outgrown, queryId, callbacks, id,
    used, wire, response,
    connections, deadline, pending, conn, drained, window

Symmetry == Permutations(Domains)

Resolved == INSTANCE ResolvedLinks
DHCP == INSTANCE DHCPTransport
U == INSTANCE UDPTransport WITH Queries <- Domains, Closers <- {}, Large <- {}
T == INSTANCE TLSTransport WITH Queries <- Domains

resolvedVars == <<up, known, links, link, made, linkAccess, defaultRouteSequence, linkServers,
                  acceptDefaultResolvers, asked, crashed, doors>>
dhcpVars == <<auto, default, changed, moves, transportLock, fresh, lastError, servers, updater,
              settled, crossed>>
common == <<state, inFlight, queriesComplete, completeClosed, closeCtxDone, active, shut,
            connState, pc, outcome>>
udpVars == <<closed, connection, result, udpSize, called, recvSize, outgrown, queryId,
             callbacks, id, used, wire, response>>
tlsVars == <<connections, deadline, pending, conn, drained, window>>

\* What a transport has no use for is None.
NoTLS == connections = None /\ deadline = None /\ pending = None /\ conn = None
         /\ drained = None /\ window = None
NoUDP == closed = None /\ connection = None /\ result = None /\ queryId = None
         /\ udpSize = None /\ called = None /\ recvSize = None /\ outgrown = None
         /\ callbacks = None /\ id = None /\ used = None /\ wire = None /\ response = None

\* The fakeip store before its first start.
AtRest == Init /\ storage = "memory" /\ range = CHOOSE rg \in Ranges : TRUE

StateInit ==
    /\ DNS!Init /\ Usage!Init
    /\ \/ tenant = "fakeip" /\ Init /\ T!Init /\ NoUDP
       \/ tenant \in {"dns", "usage", "resolved", "dhcp", "tls"} /\ AtRest /\ T!Init /\ NoUDP
       \/ tenant = "udp" /\ AtRest /\ U!Init /\ NoTLS
    /\ Resolved!Init /\ acceptDefaultResolvers = TRUE /\ (tenant # "resolved" => known = {})
    /\ DHCP!Init /\ (tenant # "dhcp" => auto /\ default = None)

\* Bound: with two saves that overlapped, none fails; usages that came beside
\* Close schedule nothing more; and the last process adds nothing.
UsageBound ==
    /\ ~({"overlap", "failed"} \subseteq usageExcused')
    /\ "late" \in usageExcused => UNCHANGED schedulers \/ ccm' # ccm
    /\ runs = MaxRuns => UNCHANGED adds

\* Bound: the default resolvers are accepted, which only adds to what may be
\* selected; one door is opened, and not closed behind; the second link has one
\* list of addresses.
ResolvedBound ==
    /\ Cardinality(doors') <= 1 /\ (doors # {} => UNCHANGED up)
    /\ link'[MaxLinks].addressEx = "none"

StateNext ==
    /\ UNCHANGED tenant
    /\ IF tenant = "fakeip" THEN Next ELSE UNCHANGED vars
    /\ IF tenant = "dns" THEN DNS!Next ELSE UNCHANGED dnsVars
    /\ IF tenant = "usage" THEN Usage!Next /\ UsageBound ELSE UNCHANGED usageVars
    /\ IF tenant = "resolved" THEN Resolved!Next /\ ResolvedBound ELSE UNCHANGED resolvedVars
    /\ IF tenant = "dhcp" THEN DHCP!Next ELSE UNCHANGED dhcpVars
    /\ \/ tenant = "tls" /\ T!Next /\ UNCHANGED udpVars
       \/ tenant = "udp" /\ U!Next /\ UNCHANGED tlsVars
       \/ tenant \notin {"tls", "udp"} /\ UNCHANGED <<common, udpVars, tlsVars>>

StateSpec ==
    /\ StateInit
    /\ [][StateNext]_<<tenant, vars, dnsVars, usageVars, resolvedVars, dhcpVars, common, udpVars, tlsVars>>

\* The fakeip store alone.
FakeIPSpec == tenant = "fakeip" /\ StateSpec

-----------------------------------------------------------------------------
\* Ids are owned exactly, and an answer meets another query only when every id
\* was in use since.
IdsExact == tenant = "udp" => U!TypeOK /\ U!CallbacksExact /\ U!AnswersMeetTheirQuery

\* An exchange over TLS returns the answer to its own query, no connection of
\* the pool is lost or shared, and after Close only what was pooled between
\* its two halves is left.
PoolSound ==
    tenant = "tls" => T!TypeOK /\ T!AnswersOwn /\ T!NoConnectionLost /\ T!OnlyWindowSurvives

\* The servers of the resolved transport are those of its links, and a query
\* finds them, but for the ways out that the code leaves (updateTransports,
\* onNetworkUpdate, Transport.Exchange).
LinksServed ==
    tenant = "resolved" => Resolved!TypeOK /\ Resolved!OnlyKnownDoors /\ Resolved!ServersFollow

\* The servers of the DHCP transport are those of the default interface, and its
\* error the last one, unless updates without the lock met (fetch,
\* updateServers, interfaceUpdated).
DHCPServersFollow ==
    tenant = "dhcp" => DHCP!TypeOK /\ DHCP!ErrorIsTheLast /\ DHCP!ServersOfDefault

\* All four: a query over UDP or TLS meets its own answer, one to a link or to
\* the servers of DHCP finds them, and the tables behind hold what is in use and
\* nothing else (UDPTransport.exchange, recvLoop, TLSTransport.Exchange, Close).
QueriesMeetAnswers == IdsExact /\ PoolSound /\ LinksServed /\ DHCPServersFollow
=============================================================================
