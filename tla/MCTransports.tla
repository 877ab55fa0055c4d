---------------------------- MODULE MCTransports ----------------------------
(***************************************************************************)
(* The connector with two calls of Get, of which one has a dial function   *)
(* that calls Get again; or the UDP transport with two exchanges, one of   *)
(* which grows the buffer, and two Close calls.  The other of the two      *)
(* stays as it was made.                                                   *)
(***************************************************************************)
EXTENDS Connector

CONSTANTS Large, IdSpace

VARIABLES
    part,
    state, inFlight, queriesComplete, completeClosed, uCloseCtxDone, active, shut,
    uClosed, uConnection, uConnState, uResult, uPc,
    udpSize, called, recvSize, outgrown, queryId, callbacks, id, used, wire, response, outcome

udpVars == <<state, inFlight, queriesComplete, completeClosed, uCloseCtxDone, active, shut,
             uClosed, uConnection, uConnState, uResult, uPc,
             udpSize, called, recvSize, outgrown, queryId, callbacks, id, used, wire, response, outcome>>

UDP == INSTANCE UDPTransport WITH
    Queries <- Callers, Closers <- Callers,
    closed <- uClosed, connection <- uConnection, connState <- uConnState, result <- uResult,
    pc <- uPc, closeCtxDone <- uCloseCtxDone

PartInit == part \in {"connector", "udp"} /\ Init /\ UDP!Init

\* Bound: of the two Close calls, which are alike, one begins first.
ClosersInOrder ==
    (\E c \in Callers : shut'[c] # "idle") => shut'[CHOOSE c \in Callers : TRUE] # "idle"

PartNext ==
    /\ UNCHANGED part
    /\ IF part = "connector" THEN Next ELSE UNCHANGED vars
    /\ IF part = "udp" THEN UDP!Next /\ ClosersInOrder ELSE UNCHANGED udpVars

\* The fairness of both modules.  Of a part that stays as it was made, no step
\* that is owed can be taken.
UDPFairness == \A p \in Callers :
    /\ WF_udpVars(UDP!UDPStep(p))
    /\ WF_udpVars(shut[p] # "idle" /\ UDP!ShutdownStep(p))

PartSpec == PartInit /\ [][PartNext]_<<part, vars, udpVars>> /\ Fairness /\ UDPFairness

-----------------------------------------------------------------------------
\* Shutdown waits for the queries that have begun and for no other, and the
\* transport is not used after it (BaseTransport.Shutdown, BeginQuery).
ShutdownContract == UDP!ShutdownContract

\* A query over UDP waits on a connection whose receive loop has a buffer for
\* its answer, but for the connection that was being dialled when the buffer
\* grew (UDPTransport.exchange, recvLoop).
BufferFits == UDP!BufferFits

Begun(p) == IF part = "connector" THEN pc[p] # "idle" ELSE uPc[p] \notin {"idle", "tcp"}
Ended(p) == IF part = "connector" THEN pc[p] = "done" ELSE uPc[p] \in {"tcp", "done"}

\* Every Get returns, also when its dial function calls Get again, and Close
\* leaves no connection open; an exchange over UDP ends, and Close returns,
\* also when a retry over TCP never does.
CallsReturn ==
    /\ \A p \in Callers : Begun(p) ~> Ended(p)
    /\ CloseDrains
    /\ UDP!CloseReturns
=============================================================================
