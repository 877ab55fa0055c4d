------------------------- MODULE AbstractConnector -------------------------
(***************************************************************************)
(* What the connector promises its transport: every Get takes effect at    *)
(* one instant, at which it either returns the cached connection, or       *)
(* caches a connection of its own and returns it, or fails.  A connection  *)
(* is named by the call that dialled it, and exists for the transport from *)
(* the moment the call returns it.                                         *)
(***************************************************************************)
CONSTANTS Callers,  \* calls of Get
          None,     \* nil: no connection, no result
          Errors    \* the errors Get returns

VARIABLES
    closed,      \* Close was called
    connection,  \* the cached connection
    connState,   \* the connection each call dialled
    result       \* what each call returned

connectorVars == <<closed, connection, connState, result>>

ConnectorInit ==
    /\ closed = FALSE
    /\ connection = None
    /\ connState = [p \in Callers |-> "none"]
    /\ result = [p \in Callers |-> None]

-----------------------------------------------------------------------------
Usable == connection # None /\ connState[connection] = "open"

CloseAll(S) ==
    [p \in Callers |->
        IF p \in S /\ connState[p] = "open" THEN "closed" ELSE connState[p]]

GetCached(p) ==
    /\ result[p] = None
    /\ ~closed
    /\ Usable
    /\ result' = [result EXCEPT ![p] = connection]
    /\ UNCHANGED <<closed, connection, connState>>

\* The new connection may die before the call returns it.
GetDialled(p) ==
    /\ result[p] = None
    /\ ~closed
    /\ ~Usable
    /\ connection' = p
    /\ \E s \in {"open", "closed"} : connState' = [connState EXCEPT ![p] = s]
    /\ result' = [result EXCEPT ![p] = p]
    /\ UNCHANGED closed

\* A failing Get may have found the cached connection dead and dropped it.
GetFailed(p) ==
    /\ result[p] = None
    /\ \E e \in Errors : result' = [result EXCEPT ![p] = e]
    /\ \/ UNCHANGED connection
       \/ ~Usable /\ connection' = None
    /\ UNCHANGED <<closed, connState>>

\* A Get that goes on to dial or to wait drops a dead connection, too.
Forget ==
    /\ ~Usable
    /\ connection' = None
    /\ UNCHANGED <<closed, connState, result>>

Reset ==
    /\ connState' = CloseAll({connection})
    /\ connection' = None
    /\ UNCHANGED <<closed, result>>

Close ==
    /\ closed' = TRUE
    /\ connState' = CloseAll({connection})
    /\ connection' = None
    /\ UNCHANGED result

ConnectionDies(p) ==
    /\ connState[p] = "open"
    /\ connState' = CloseAll({p})
    /\ UNCHANGED <<closed, connection, result>>

ConnectorNext ==
    \/ Forget \/ Reset \/ Close
    \/ \E p \in Callers : \/ GetCached(p) \/ GetDialled(p) \/ GetFailed(p)
                          \/ ConnectionDies(p)

ConnectorSpec == ConnectorInit /\ [][ConnectorNext]_connectorVars
=============================================================================
