---------------------------- MODULE Connector ----------------------------
(***************************************************************************)
(* The single-flight connector of the DNS transports                       *)
(* (dns/transport/connector.go): concurrent Get calls share one upstream   *)
(* connection, at most one of them dials, and the others wait for it.      *)
(*                                                                         *)
(* A member of Callers is one call of Get with its own request context.    *)
(* Such a call starts at most one dial, because it returns from the select *)
(* that follows the dial, so the caller also names its dial, its           *)
(* "connecting" channel, the connection the dial yields and the context    *)
(* of that connection.  A section of code under c.access is one action;    *)
(* every blocking point and every unlock separates two actions.            *)
(***************************************************************************)

CONSTANTS Callers,    \* calls of Get
          Recursive,  \* the ones whose dial function calls Get again
          None        \* nil: no connection, no channel, no cancel function

ASSUME RecursiveAreCallers == Recursive \subseteq Callers

ASSUME NoneNotCaller == None \notin Callers

\* The errors Get returns: ErrTransportClosed, ctx.Err() and the dial's own.
Errors == {"closed", "ctx", "dial"}

ASSUME CallersNotErrors == Errors \cap (Callers \cup {None}) = {}

VARIABLES
    closed,            \* c.closed
    closeCtxDone,      \* c.closeCtx is cancelled (by BaseTransport.Shutdown)
    connection,        \* c.connection while c.hasConnection, None otherwise
    connectionCancel,  \* the connection whose context c.connectionCancel cancels
    connecting,        \* the dial whose channel c.connecting is
    pc,                \* where each Get call stands
    result,            \* what each Get call returned
    waitOn,            \* the channel a waiting Get call selects on
    ctxDone,           \* the request context of each call is cancelled
    dial,              \* where each dial goroutine stands
    nested,            \* the Get call the dial function itself may make
    afterFunc,         \* the context.AfterFunc registration of each dial
    connState,         \* the connection each dial yielded
    connCtx            \* connCtx of each dial, its own cancellation only

lockVars == <<closed, connection, connectionCancel, connecting>>
getVars  == <<pc, result, waitOn>>
dialVars == <<dial, nested, afterFunc, connState, connCtx>>
vars     == <<lockVars, closeCtxDone, getVars, ctxDone, dialVars>>

\* The dial goroutine: "begin" and "check" are the two context checks of
\* dialWithCancellation, "returned" is after c.dial, "complete" after
\* dialComplete is set, "sent" after the send to dialResult.  completeDial
\* makes it "finished", and closes the connecting channel.
InFlightStates == {"begin", "check", "dialing", "returned", "complete", "sent"}

InFlight(p) == dial[p] \in InFlightStates

dialComplete(p) == dial[p] \in {"complete", "sent", "finished"}

ChannelClosed(p) == dial[p] = "finished"

TypeOK ==
    /\ closed \in BOOLEAN
    /\ closeCtxDone \in BOOLEAN
    /\ connection \in Callers \cup {None}
    /\ connectionCancel \in Callers \cup {None}
    /\ connecting \in Callers \cup {None}
    /\ pc \in [Callers -> {"idle", "lock", "wait", "select", "done"}]
    /\ result \in [Callers -> Callers \cup {None} \cup Errors]
    /\ waitOn \in [Callers -> Callers \cup {None}]
    /\ ctxDone \in [Callers -> BOOLEAN]
    /\ dial \in [Callers -> InFlightStates \cup {"none", "finished"}]
    /\ nested \in [Callers -> {"none", "lock", "wait", "back"}]
    /\ afterFunc \in [Callers -> {"off", "armed", "running", "stopped"}]
    /\ connState \in [Callers -> {"none", "open", "closed"}]
    /\ connCtx \in [Callers -> {"none", "live", "cancelled"}]
    /\ \A p \in Callers : pc[p] = "done" => result[p] # None

Init ==
    /\ closed = FALSE
    /\ closeCtxDone = FALSE
    /\ connection = None
    /\ connectionCancel = None
    /\ connecting = None
    /\ pc = [p \in Callers |-> "idle"]
    /\ result = [p \in Callers |-> None]
    /\ waitOn = [p \in Callers |-> None]
    /\ ctxDone = [p \in Callers |-> FALSE]
    /\ dial = [p \in Callers |-> "none"]
    /\ nested = [p \in Callers |-> "none"]
    /\ afterFunc = [p \in Callers |-> "off"]
    /\ connState = [p \in Callers |-> "none"]
    /\ connCtx = [p \in Callers |-> "none"]

-----------------------------------------------------------------------------
(* Helpers on the connection and its context.                              *)

IsClosed(p) == connState[p] # "open"

\* Calling cancel functions and CloseWithError, both idempotent.
Cancelled(S) == [p \in Callers |-> IF p \in S THEN "cancelled" ELSE connCtx[p]]

\* Fault: the connection is forgotten, but not closed.
ConnectionsForgotten(S) == connState

ConnectionsClosed(S) ==
    [p \in Callers |->
        IF p \in S /\ connState[p] = "open" THEN "closed" ELSE connState[p]]

Return(p, r) ==
    /\ pc' = [pc EXCEPT ![p] = "done"]
    /\ result' = [result EXCEPT ![p] = r]

\* The context of a Get call made by the dial function carries the connector
\* (context.WithValue(ctx, contextKeyConnecting{}, c)); a request's does not.
\* Fault: the marker is not looked for.
RecursionUnnoticed(fromDial) == FALSE

isRecursiveConnectorDial(fromDial) == fromDial

\* Fault: the cached connection is handed out without a look at its state.
CachedUnchecked == connection # None

HasUsableConnection == connection # None /\ ~IsClosed(connection)

\* Fault: a dial whose request gave up no longer counts.
AbandonedDialIgnored == connecting # None /\ pc[connecting] # "done"

DialInProgress == connecting # None

\* The dead or missing connection is forgotten and its context released.
DropConnection ==
    /\ connection' = None
    /\ connectionCancel' = None
    /\ connCtx' = Cancelled({connectionCancel})

-----------------------------------------------------------------------------
(* Get.                                                                    *)

Call(p) ==
    /\ pc[p] = "idle"
    /\ pc' = [pc EXCEPT ![p] = "lock"]
    /\ UNCHANGED <<lockVars, closeCtxDone, result, waitOn, ctxDone, dialVars>>

GetClosed(p) ==
    /\ pc[p] = "lock"
    /\ closed
    /\ Return(p, "closed")
    /\ UNCHANGED <<lockVars, closeCtxDone, waitOn, ctxDone, dialVars>>

GetCached(p) ==
    /\ pc[p] = "lock"
    /\ ~closed
    /\ HasUsableConnection
    /\ Return(p, connection)
    /\ UNCHANGED <<lockVars, closeCtxDone, waitOn, ctxDone, dialVars>>

\* A dial is in progress: wait for its channel.
GetJoin(p) ==
    /\ pc[p] = "lock"
    /\ ~closed /\ ~HasUsableConnection
    /\ ~isRecursiveConnectorDial(FALSE)
    /\ DialInProgress
    /\ DropConnection
    /\ pc' = [pc EXCEPT ![p] = "wait"]
    /\ waitOn' = [waitOn EXCEPT ![p] = connecting]
    /\ UNCHANGED <<closed, connecting, closeCtxDone, result, ctxDone,
                   dial, nested, afterFunc, connState>>

GetCtxDone(p) ==
    /\ pc[p] = "lock"
    /\ ~closed /\ ~HasUsableConnection
    /\ ~isRecursiveConnectorDial(FALSE)
    /\ ~DialInProgress
    /\ ctxDone[p]
    /\ DropConnection
    /\ Return(p, "ctx")
    /\ UNCHANGED <<closed, connecting, closeCtxDone, waitOn, ctxDone,
                   dial, nested, afterFunc, connState>>

\* Nobody dials: this call starts the dial goroutine and selects on it.
GetDial(p) ==
    /\ pc[p] = "lock"
    /\ ~closed /\ ~HasUsableConnection
    /\ ~isRecursiveConnectorDial(FALSE)
    /\ ~DialInProgress
    /\ ~ctxDone[p]
    /\ DropConnection
    /\ connecting' = p
    /\ dial' = [dial EXCEPT ![p] = "begin"]
    /\ pc' = [pc EXCEPT ![p] = "select"]
    /\ UNCHANGED <<closed, closeCtxDone, result, waitOn, ctxDone,
                   nested, afterFunc, connState>>

\* The select on the other call's channel.
Wake(p) ==
    /\ pc[p] = "wait"
    /\ \/ /\ ChannelClosed(waitOn[p])
          /\ pc' = [pc EXCEPT ![p] = "lock"]
          /\ UNCHANGED result
       \/ ctxDone[p] /\ Return(p, "ctx")
       \/ closeCtxDone /\ Return(p, "closed")
    /\ UNCHANGED <<lockVars, closeCtxDone, waitOn, ctxDone, dialVars>>

\* The select on the call's own dial gives up; a goroutine is left behind to
\* consume the result.
Abandon(p) ==
    /\ pc[p] = "select"
    /\ \/ ctxDone[p] /\ Return(p, "ctx")
       \/ closeCtxDone /\ Return(p, "closed")
    /\ UNCHANGED <<lockVars, closeCtxDone, waitOn, ctxDone, dialVars>>

-----------------------------------------------------------------------------
(* completeDial, by the Get call itself or by the goroutine it left.       *)

\* Fault: a check of completeDial is missing.
OutcomeIgnoringCtx(p) ==
    IF connState[p] = "none" THEN "dial"
    ELSE IF closed \/ closeCtxDone THEN "closed"
    ELSE p

DialOutcome(p) ==
    IF connState[p] = "none" THEN "dial"
    ELSE IF closed \/ closeCtxDone THEN "closed"
    ELSE IF ctxDone[p] THEN "ctx"
    ELSE p

completeDial(p) ==
    /\ dial[p] = "sent"
    /\ dial' = [dial EXCEPT ![p] = "finished"]
    /\ connecting' = IF connecting = p THEN None ELSE connecting
    /\ \/ /\ DialOutcome(p) = p
          /\ connection' = p
          /\ connectionCancel' = p
          /\ UNCHANGED <<connState, connCtx>>
       \/ /\ DialOutcome(p) \notin {p, "closed", "ctx"}
          /\ UNCHANGED <<connection, connectionCancel, connState, connCtx>>
       \/ /\ DialOutcome(p) \in {"closed", "ctx"}
          /\ connCtx' = Cancelled({p})
          /\ connState' = ConnectionsClosed({p})
          /\ UNCHANGED <<connection, connectionCancel>>
    /\ IF pc[p] = "select" THEN Return(p, DialOutcome(p))
                           ELSE UNCHANGED <<pc, result>>
    /\ UNCHANGED <<closed, closeCtxDone, waitOn, ctxDone, nested, afterFunc>>

-----------------------------------------------------------------------------
(* dialWithCancellation, in its goroutine.                                 *)

DialBegin(p) ==
    /\ dial[p] = "begin"
    /\ \/ /\ ctxDone[p]
          /\ dial' = [dial EXCEPT ![p] = "sent"]
          /\ UNCHANGED <<afterFunc, connCtx>>
       \/ /\ ~ctxDone[p]
          /\ dial' = [dial EXCEPT ![p] = "check"]
          /\ afterFunc' = [afterFunc EXCEPT ![p] = "armed"]
          /\ connCtx' = [connCtx EXCEPT ![p] = "live"]
    /\ UNCHANGED <<lockVars, closeCtxDone, getVars, ctxDone, nested, connState>>

DialCheck(p) ==
    /\ dial[p] = "check"
    /\ dial' = [dial EXCEPT ![p] = IF ctxDone[p] THEN "complete" ELSE "dialing"]
    /\ UNCHANGED <<lockVars, closeCtxDone, getVars, ctxDone,
                   nested, afterFunc, connState, connCtx>>

\* c.dial returns, from a nested call that waits only when its context,
\* which is the one c.dial was given, is cancelled.  A transport's dial starts the receive loop of the
\* connection it returns, so the connection may die from here on.
DialReturn(p) ==
    /\ dial[p] = "dialing"
    /\ nested[p] # "lock"
    /\ nested[p] = "wait" => connCtx[p] = "cancelled" \/ closeCtxDone
    /\ dial' = [dial EXCEPT ![p] = "returned"]
    /\ \/ connState' = [connState EXCEPT ![p] = "open"]
       \/ UNCHANGED connState
    /\ UNCHANGED <<lockVars, closeCtxDone, getVars, ctxDone,
                   nested, afterFunc, connCtx>>

DialComplete(p) ==
    /\ dial[p] = "returned"
    /\ dial' = [dial EXCEPT ![p] = "complete"]
    /\ UNCHANGED <<lockVars, closeCtxDone, getVars, ctxDone,
                   nested, afterFunc, connState, connCtx>>

\* stopCancel(), cancel() after a failure, and the send to dialResult.
DialSend(p) ==
    /\ dial[p] = "complete"
    /\ dial' = [dial EXCEPT ![p] = "sent"]
    /\ afterFunc' = [afterFunc EXCEPT ![p] = IF @ = "armed" THEN "stopped" ELSE @]
    /\ connCtx' = IF connState[p] = "none" THEN Cancelled({p}) ELSE connCtx
    /\ UNCHANGED <<lockVars, closeCtxDone, getVars, ctxDone, nested, connState>>

\* The dial function calls Get on the same connector, at most once here.
DialCallsGet(p) ==
    /\ p \in Recursive
    /\ dial[p] = "dialing"
    /\ nested[p] = "none"
    /\ nested' = [nested EXCEPT ![p] = "lock"]
    /\ UNCHANGED <<lockVars, closeCtxDone, getVars, ctxDone,
                   dial, afterFunc, connState, connCtx>>

\* The same section of Get, reached from the dial function.  Without the
\* recursion check the call would join the dial it is part of.
NestedGet(p) ==
    /\ nested[p] = "lock"
    /\ \/ /\ closed \/ HasUsableConnection
          /\ nested' = [nested EXCEPT ![p] = "back"]
          /\ UNCHANGED <<connection, connectionCancel, connCtx>>
       \/ /\ ~closed /\ ~HasUsableConnection
          /\ DropConnection
          /\ nested' = [nested EXCEPT ![p] =
                IF ~isRecursiveConnectorDial(TRUE) /\ DialInProgress
                THEN "wait" ELSE "back"]
    /\ UNCHANGED <<closed, connecting, closeCtxDone, getVars, ctxDone,
                   dial, afterFunc, connState>>

\* context.AfterFunc starts its function in a goroutine of its own, which
\* cancels the dial unless the dial is already complete.
AfterFuncStart(p) ==
    /\ afterFunc[p] = "armed"
    /\ ctxDone[p]
    /\ afterFunc' = [afterFunc EXCEPT ![p] = "running"]
    /\ UNCHANGED <<lockVars, closeCtxDone, getVars, ctxDone,
                   dial, nested, connState, connCtx>>

AfterFuncRun(p) ==
    /\ afterFunc[p] = "running"
    /\ afterFunc' = [afterFunc EXCEPT ![p] = "stopped"]
    /\ connCtx' = IF dialComplete(p) THEN connCtx ELSE Cancelled({p})
    /\ UNCHANGED <<lockVars, closeCtxDone, getVars, ctxDone,
                   dial, nested, connState>>

-----------------------------------------------------------------------------
(* Close, Reset and the environment.                                       *)

Close ==
    /\ ~closed
    /\ closed' = TRUE
    /\ connState' = ConnectionsClosed({connection})
    /\ DropConnection
    /\ UNCHANGED <<connecting, closeCtxDone, getVars, ctxDone,
                   dial, nested, afterFunc>>

Reset ==
    /\ connState' = ConnectionsClosed({connection})
    /\ DropConnection
    /\ UNCHANGED <<closed, connecting, closeCtxDone, getVars, ctxDone,
                   dial, nested, afterFunc>>

CloseCtxCancel ==
    /\ ~closeCtxDone
    /\ closeCtxDone' = TRUE
    /\ UNCHANGED <<lockVars, getVars, ctxDone, dialVars>>

CtxCancel(p) ==
    /\ ~ctxDone[p]
    /\ ctxDone' = [ctxDone EXCEPT ![p] = TRUE]
    /\ UNCHANGED <<lockVars, closeCtxDone, getVars, dialVars>>

\* The receive loop or a failed write closes the connection.
ConnectionDies(p) ==
    /\ connState[p] = "open"
    /\ connState' = ConnectionsClosed({p})
    /\ UNCHANGED <<lockVars, closeCtxDone, getVars, ctxDone,
                   dial, nested, afterFunc, connCtx>>

-----------------------------------------------------------------------------
GetStep(p) == \/ GetClosed(p) \/ GetCached(p) \/ GetJoin(p) \/ GetCtxDone(p)
              \/ GetDial(p) \/ Wake(p) \/ Abandon(p)

DialStep(p) == \/ DialBegin(p) \/ DialCheck(p) \/ DialReturn(p)
               \/ DialComplete(p) \/ DialSend(p) \/ completeDial(p)
               \/ NestedGet(p)

AfterFuncStep(p) == AfterFuncStart(p) \/ AfterFuncRun(p)

Next ==
    \/ \E p \in Callers :
          \/ Call(p) \/ GetStep(p) \/ DialStep(p) \/ AfterFuncStep(p)
          \/ DialCallsGet(p) \/ CtxCancel(p) \/ ConnectionDies(p)
    \/ Close \/ Reset \/ CloseCtxCancel

Spec == Init /\ [][Next]_vars

\* Goroutines are scheduled, and every dial function returns: the dialers of
\* the transports run under the deadline of the request context.
Fairness == \A p \in Callers : /\ WF_vars(GetStep(p))
                               /\ WF_vars(DialStep(p))
                               /\ WF_vars(AfterFuncStep(p))

FairSpec == Spec /\ Fairness

-----------------------------------------------------------------------------
(* Properties.                                                             *)

\* At most one dial is in flight, and it is the one c.connecting announces,
\* so a later Get waits for a cancelled dial instead of starting another.
SingleFlight == \A p \in Callers : InFlight(p) <=> connecting = p

\* Every open connection is owned: it is the cached one or the yet
\* unconsumed result of a dial.  A connection dialled for a request that was
\* cancelled, or while the transport was closing, is closed by completeDial.
NoConnectionLeak ==
    \A p \in Callers :
        connState[p] = "open" =>
            connection = p \/ dial[p] \in {"returned", "complete", "sent"}

\* The context of a dial is released (its cancel function called) on every
\* path except for the connection that is cached.
NoContextLeak ==
    \A p \in Callers :
        ChannelClosed(p) /\ connCtx[p] = "live" => connectionCancel = p

\* What a dial creates is cached, handed on or released: neither connection
\* nor context outlives the request it was made for unnoticed.
NoLeak == NoConnectionLeak /\ NoContextLeak

\* The cached connection's context was not cancelled by the request that
\* dialled it, however the AfterFunc goroutine is scheduled.
CachedContextLive ==
    connection # None => connCtx[connection] = "live"

\* A connection is cached only if the request that dialled it received it:
\* a request that was told "cancelled" leaves nothing behind.
CachedWasReturned ==
    connection # None => result[connection] = connection

\* The connection that later requests are given is one that was delivered,
\* with a context that no finished request can cancel.
CacheSafe == CachedContextLive /\ CachedWasReturned

\* Every Get call returns, also when its dial function calls Get again.
GetReturns == \A p \in Callers : pc[p] # "idle" ~> pc[p] = "done"

\* Once Close has run, every connection ends up closed for good, the ones
\* still being dialled included.
CloseDrains == closed ~> [](\A p \in Callers : connState[p] # "open")

-----------------------------------------------------------------------------
(* The connector as its transport sees it.                                 *)

\* A connection that no call has returned does not exist for the transport.
Visible == [p \in Callers |-> IF result[p] = p THEN connState[p] ELSE "none"]

Abs == INSTANCE AbstractConnector WITH connState <- Visible

\* Every Get takes effect at one instant, as AbstractConnector describes:
\* whatever dials, waits and cancellations overlap, the transport sees the
\* cached connection, one new connection, or an error.
ImplementsAbstract == Abs!ConnectorSpec
=============================================================================
