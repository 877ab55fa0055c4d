--------------------------- MODULE DHCPTransport ---------------------------
(***************************************************************************)
(* The DHCP transport (dns/transport/dhcp/dhcp.go): the servers it asks    *)
(* are those a DHCP query on the default, or on the configured, interface  *)
(* has named.  They are fetched again after an hour by whoever wants them, *)
(* under the write lock, and without it when the default interface         *)
(* changes.                                                                *)
(*                                                                         *)
(* Servers are known by the interface whose DHCP server named them.  Of a  *)
(* list that is being assigned without the lock, a reader sees some of the *)
(* old and some of the new: it is "torn".                                  *)
(***************************************************************************)
EXTENDS Naturals

CONSTANTS
    Interfaces,
    Fetchers,   \* queries, and the goroutine of Start
    Monitor,    \* the goroutine of the interface monitor
    MaxMoves,   \* bound: changes of the default interface
    None

VARIABLES
    auto,       \* no interface is configured: the default one, and its callback
    default,    \* the default or configured interface, None without it
    changed,    \* the callback has yet to be called
    moves,
    transportLock,  \* None, or who has it for writing
    fresh,      \* less than DHCPTTL has passed since updatedAt
    lastError, servers,
    updater,    \* where each goroutine is
    settled,    \* history: whether the last update found servers
    crossed     \* history: an update without the lock met another one, or a Reset

dhcpVars == <<auto, default, changed, moves, transportLock, fresh, lastError, servers,
              updater, settled, crossed>>

Updaters == Fetchers \cup {Monitor}
Resting == [pc |-> "idle", iface |-> None]
Updating(p) == updater[p].pc \notin {"idle", "lock"}

Init ==
    /\ auto \in BOOLEAN /\ default \in Interfaces \cup {None} /\ changed = FALSE /\ moves = 0
    /\ transportLock = None /\ fresh = FALSE /\ lastError = FALSE /\ servers = None
    /\ updater = [p \in Updaters |-> Resting] /\ settled = TRUE /\ crossed = FALSE

At(p, pc) == updater' = [updater EXCEPT ![p].pc = pc]
Return(p) ==
    /\ updater' = [updater EXCEPT ![p] = Resting]
    /\ transportLock' = IF transportLock = p THEN None ELSE transportLock

-----------------------------------------------------------------------------
\* The network: the interface changes, and the monitor will say so.
Move ==
    /\ moves < MaxMoves /\ moves' = moves + 1
    /\ default' \in (Interfaces \cup {None}) \ {default} /\ changed' = auto
    /\ UNCHANGED <<auto, transportLock, fresh, lastError, servers, updater, settled, crossed>>

Elapse ==
    /\ fresh /\ fresh' = FALSE
    /\ UNCHANGED <<auto, default, changed, moves, transportLock, lastError, servers, updater, settled, crossed>>

Reset ==
    /\ transportLock = None /\ fresh' = FALSE /\ servers' = None
    /\ crossed' = (crossed \/ Updating(Monitor))
    /\ UNCHANGED <<auto, default, changed, moves, transportLock, lastError, updater, settled>>

-----------------------------------------------------------------------------
(* fetch returns at once with an error or with fresh servers; otherwise it *)
(* goes on to the write lock.                                              *)

fetch(p) ==
    /\ p \in Fetchers /\ updater[p].pc = "idle" /\ transportLock = None
    /\ ~lastError /\ ~fresh /\ At(p, "lock")
    /\ UNCHANGED <<auto, default, changed, moves, transportLock, fresh, lastError, servers, settled, crossed>>

\* Somebody else may have fetched them in the meantime.
Lock(p) ==
    /\ updater[p].pc = "lock" /\ transportLock = None
    /\ IF fresh THEN Return(p) /\ UNCHANGED crossed
       ELSE /\ At(p, "prepare") /\ transportLock' = p
            /\ crossed' = (crossed \/ Updating(Monitor))
    /\ UNCHANGED <<auto, default, changed, moves, fresh, lastError, servers, settled>>

interfaceUpdated ==
    /\ changed /\ changed' = FALSE /\ updater[Monitor].pc = "idle" /\ At(Monitor, "prepare")
    /\ crossed' = (crossed \/ \E p \in Fetchers : Updating(p))
    /\ UNCHANGED <<auto, default, moves, transportLock, fresh, lastError, servers, settled>>

-----------------------------------------------------------------------------
(* updateServers.                                                          *)

\* Fault: the interface that has named servers is taken again.
InterfaceOnce == IF servers \in Interfaces THEN servers ELSE default

fetchInterface == default

\* Without an interface nothing is changed.
Prepare(p) ==
    /\ updater[p].pc = "prepare"
    /\ IF fetchInterface = None THEN Return(p)
       ELSE /\ updater' = [updater EXCEPT ![p] = [pc |-> "query", iface |-> fetchInterface]]
            /\ UNCHANGED transportLock
    /\ UNCHANGED <<auto, default, changed, moves, fresh, lastError, servers, settled, crossed>>

\* fetchServers0: an offer, or none before the timeout.
Query(p) ==
    /\ updater[p].pc = "query"
    /\ \/ At(p, "assign") /\ servers' = "torn"
       \/ At(p, "failed") /\ UNCHANGED servers
    /\ UNCHANGED <<auto, default, changed, moves, transportLock, fresh, lastError, settled, crossed>>

\* recreateServers: the servers of the offer, which may name none.
Assign(p) ==
    /\ updater[p].pc = "assign" /\ At(p, "settle")
    /\ servers' \in {updater[p].iface, None}
    /\ UNCHANGED <<auto, default, changed, moves, transportLock, fresh, lastError, settled, crossed>>

\* Fault: an earlier error stays.
ErrorStays(failed) == failed \/ lastError

ErrorAfter(failed) == failed

\* The time is set in any case; the servers that are looked at are those in the
\* field, not those of the offer.
Settle(p) ==
    /\ updater[p].pc \in {"failed", "settle"} /\ fresh' = TRUE /\ Return(p)
    /\ \E failed \in IF updater[p].pc = "failed" THEN {TRUE}
                     ELSE IF servers = "torn" THEN BOOLEAN ELSE {servers = None} :
         lastError' = ErrorAfter(failed) /\ settled' = ~failed
    /\ UNCHANGED <<auto, default, changed, moves, servers, crossed>>

Next ==
    \/ Move \/ Elapse \/ Reset \/ interfaceUpdated
    \/ \E p \in Updaters : \/ fetch(p) \/ Lock(p) \/ Prepare(p) \/ Query(p) \/ Assign(p) \/ Settle(p)

-----------------------------------------------------------------------------
\* The values the variables take.
TypeOK ==
    /\ auto \in BOOLEAN /\ default \in Interfaces \cup {None} /\ changed \in BOOLEAN
    /\ moves \in 0..MaxMoves /\ transportLock \in Fetchers \cup {None}
    /\ fresh \in BOOLEAN /\ lastError \in BOOLEAN /\ servers \in Interfaces \cup {None, "torn"}
    /\ updater \in [Updaters -> [pc : {"idle", "lock", "prepare", "query", "assign", "failed", "settle"},
                                 iface : Interfaces \cup {None}]]
    /\ settled \in BOOLEAN /\ crossed \in BOOLEAN

\* Unless an update without the lock met another one or a Reset, the error that
\* every query is given is that of the last update, and servers that count as
\* fresh are whole and there (fetch, updateServers).
ErrorIsTheLast ==
    /\ lastError => ~settled
    /\ ~crossed /\ fresh /\ ~lastError /\ (\A p \in Updaters : ~Updating(p)) => servers \notin {None, "torn"}

\* Once the monitor has been heard, fresh servers are those of the default
\* interface there is, again unless updates met (interfaceUpdated).
ServersOfDefault ==
    auto /\ ~crossed /\ ~changed /\ default # None /\ fresh /\ ~lastError
      /\ (\A p \in Updaters : ~Updating(p)) => servers = default
=============================================================================
