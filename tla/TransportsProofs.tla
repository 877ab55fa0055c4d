-------------------------- MODULE TransportsProofs --------------------------
(***************************************************************************)
(* Proofs, for every set of callers, that the connector is single-flight,  *)
(* leaks neither a connection nor a context, and never caches a connection *)
(* whose request was cancelled; and that the UDP transport keeps the       *)
(* contract of its Shutdown and reads answers into a large enough buffer.  *)
(***************************************************************************)
EXTENDS MCTransports, FiniteSetTheorems, TLAPS

\* What a dial goroutine that has reached a given point has done so far.
DialProgress ==
    \A p \in Callers :
        /\ dial[p] \in {"none", "begin"} => connCtx[p] = "none" /\ afterFunc[p] = "off"
        /\ dial[p] \in {"none", "begin", "check", "dialing"} => connState[p] = "none"
        /\ dial[p] = "sent" /\ connState[p] = "none" => connCtx[p] # "live"
        /\ afterFunc[p] = "running" => ctxDone[p]

\* A dial whose request is not cancelled still has a live context.
DialContext ==
    \A p \in Callers :
        /\ dial[p] \in {"check", "dialing", "returned", "complete"}
        /\ ~ctxDone[p]
        => connCtx[p] = "live"

SentContext ==
    \A p \in Callers :
        dial[p] = "sent" /\ connState[p] # "none" /\ ~ctxDone[p]
        => connCtx[p] = "live"

\* Which Get calls have a dial, and why one may have returned before it.
CallProgress ==
    \A p \in Callers :
        /\ pc[p] \in {"idle", "lock", "wait"} => dial[p] = "none"
        /\ pc[p] = "select" => InFlight(p)
        /\ InFlight(p) /\ pc[p] = "done" => ctxDone[p] \/ closeCtxDone

\* The cached connection comes from a finished dial and keeps its cancel;
\* nothing is cached while a dial is in flight, so no dial overwrites it.
Cached ==
    /\ connectionCancel = connection
    /\ connecting # None => connection = None
    /\ connection # None => /\ dial[connection] = "finished"
                            /\ pc[connection] = "done"

IInv ==
    /\ TypeOK
    /\ DialProgress
    /\ DialContext
    /\ SentContext
    /\ CallProgress
    /\ Cached
    /\ SingleFlight
    /\ NoConnectionLeak
    /\ NoContextLeak
    /\ CachedContextLive
    /\ CachedWasReturned

-----------------------------------------------------------------------------
\* The initial state, with no dial and no connection, satisfies the invariant.
LEMMA InitIInv == Init => IInv
  <1> SUFFICES ASSUME Init PROVE IInv
    OBVIOUS
  <1> USE NoneNotCaller DEF Init
  <1>1. TypeOK
    BY ZenonT(30) DEF TypeOK, InFlightStates
  <1>2. DialProgress /\ DialContext /\ SentContext /\ CallProgress /\ Cached
    BY DEF DialProgress, DialContext, SentContext, CallProgress, Cached,
           InFlight, InFlightStates
  <1>3. SingleFlight /\ NoConnectionLeak /\ NoContextLeak
    BY DEF SingleFlight, NoConnectionLeak, NoContextLeak, InFlight,
           InFlightStates, ChannelClosed
  <1>4. CachedContextLive /\ CachedWasReturned
    BY DEF CachedContextLive, CachedWasReturned
  <1> QED
    BY <1>1, <1>2, <1>3, <1>4 DEF IInv

\* Every action keeps the variables in their types.
LEMMA TypeStep == TypeOK /\ [Next]_vars => TypeOK'
  <1> SUFFICES ASSUME TypeOK, [Next]_vars PROVE TypeOK'
    OBVIOUS
  <1> USE NoneNotCaller, CallersNotErrors
      DEF TypeOK, InFlightStates, Errors, lockVars, getVars, dialVars
  <1>1. ASSUME NEW p \in Callers, Call(p) PROVE TypeOK'
    BY <1>1 DEF Call
  <1>2. ASSUME NEW p \in Callers, GetClosed(p) PROVE TypeOK'
    BY <1>2 DEF GetClosed, Return
  <1>3. ASSUME NEW p \in Callers, GetCached(p) PROVE TypeOK'
    BY <1>3 DEF GetCached, Return, HasUsableConnection
  <1>4. ASSUME NEW p \in Callers, GetJoin(p) PROVE TypeOK'
    BY <1>4 DEF GetJoin, DropConnection, Cancelled
  <1>5. ASSUME NEW p \in Callers, GetCtxDone(p) PROVE TypeOK'
    BY <1>5 DEF GetCtxDone, Return, DropConnection, Cancelled
  <1>6. ASSUME NEW p \in Callers, GetDial(p) PROVE TypeOK'
    BY <1>6 DEF GetDial, DropConnection, Cancelled
  <1>7. ASSUME NEW p \in Callers, Wake(p) PROVE TypeOK'
    BY <1>7 DEF Wake, Return
  <1>8. ASSUME NEW p \in Callers, Abandon(p) PROVE TypeOK'
    BY <1>8 DEF Abandon, Return
  <1>9. ASSUME NEW p \in Callers, DialBegin(p) PROVE TypeOK'
    BY <1>9 DEF DialBegin
  <1>10. ASSUME NEW p \in Callers, DialCheck(p) PROVE TypeOK'
    BY <1>10 DEF DialCheck
  <1>11. ASSUME NEW p \in Callers, DialReturn(p) PROVE TypeOK'
    BY <1>11 DEF DialReturn
  <1>12. ASSUME NEW p \in Callers, DialComplete(p) PROVE TypeOK'
    BY <1>12 DEF DialComplete
  <1>13. ASSUME NEW p \in Callers, DialSend(p) PROVE TypeOK'
    BY <1>13 DEF DialSend, Cancelled
  <1>14. ASSUME NEW p \in Callers, completeDial(p) PROVE TypeOK'
    BY <1>14 DEF completeDial, Return, DialOutcome, Cancelled, ConnectionsClosed
  <1>15. ASSUME NEW p \in Callers, NestedGet(p) PROVE TypeOK'
    <2> USE <1>15 DEF NestedGet
    <2>1. CASE UNCHANGED <<connection, connectionCancel, connCtx>>
      BY ZenonT(30), <2>1
    <2>2. CASE ~HasUsableConnection /\ DropConnection
      BY ZenonT(30), <2>2 DEF HasUsableConnection, IsClosed, DropConnection, Cancelled
    <2> QED
      BY ZenonT(30), <2>1, <2>2
  <1>17. ASSUME NEW p \in Callers, AfterFuncStart(p) PROVE TypeOK'
    BY <1>17 DEF AfterFuncStart
  <1>18. ASSUME NEW p \in Callers, AfterFuncRun(p) PROVE TypeOK'
    BY <1>18 DEF AfterFuncRun, Cancelled, dialComplete
  <1>19. ASSUME NEW p \in Callers, DialCallsGet(p) PROVE TypeOK'
    BY <1>19 DEF DialCallsGet
  <1>20. ASSUME NEW p \in Callers, CtxCancel(p) PROVE TypeOK'
    BY <1>20 DEF CtxCancel
  <1>21. ASSUME NEW p \in Callers, ConnectionDies(p) PROVE TypeOK'
    BY <1>21 DEF ConnectionDies, ConnectionsClosed
  <1>22. CASE Close
    BY <1>22 DEF Close, DropConnection, Cancelled, ConnectionsClosed
  <1>23. CASE Reset
    BY <1>23 DEF Reset, DropConnection, Cancelled, ConnectionsClosed
  <1>24. CASE CloseCtxCancel
    BY <1>24 DEF CloseCtxCancel
  <1>25. CASE UNCHANGED vars
    BY SMTT(30), <1>25 DEF vars
  <1> QED
    BY ZenonT(30), <1>1, <1>2, <1>3, <1>4, <1>5, <1>6, <1>7, <1>8, <1>9, <1>10, <1>11, <1>12, <1>13, <1>14, <1>15, <1>17, <1>18, <1>19, <1>20, <1>21, <1>22, <1>23, <1>24, <1>25
    DEF Next, GetStep, DialStep, AfterFuncStep

\* Every action keeps the inductive invariant.
LEMMA StepIInv == IInv /\ [Next]_vars => IInv'
  <1> SUFFICES ASSUME IInv, [Next]_vars PROVE IInv'
    OBVIOUS
  <1> TypeOK'
    BY SMTT(30), TypeStep DEF IInv
  <1> USE NoneNotCaller, CallersNotErrors
      DEF IInv, TypeOK, DialProgress, DialContext, SentContext, CallProgress,
          Cached, SingleFlight, NoConnectionLeak, NoContextLeak, DialInProgress,
          CachedContextLive, CachedWasReturned, InFlight, InFlightStates,
          ChannelClosed, Errors, lockVars, getVars, dialVars
  <1>1. ASSUME NEW p \in Callers, Call(p) PROVE IInv'
    BY SMTT(30), <1>1 DEF Call
  <1>2. ASSUME NEW p \in Callers, GetClosed(p) PROVE IInv'
    BY SMTT(30), <1>2 DEF GetClosed, Return
  <1>3. ASSUME NEW p \in Callers, GetCached(p) PROVE IInv'
    BY SMTT(30), <1>3 DEF GetCached, Return, HasUsableConnection
  <1>4. ASSUME NEW p \in Callers, GetJoin(p) PROVE IInv'
    BY SMTT(30), <1>4 DEF GetJoin, HasUsableConnection, IsClosed, DropConnection, Cancelled
  <1>5. ASSUME NEW p \in Callers, GetCtxDone(p) PROVE IInv'
    BY SMTT(30), <1>5 DEF GetCtxDone, HasUsableConnection, IsClosed, Return, DropConnection, Cancelled
  <1>6. ASSUME NEW p \in Callers, GetDial(p) PROVE IInv'
    BY SMTT(30), <1>6 DEF GetDial, HasUsableConnection, IsClosed, DropConnection, Cancelled
  <1>7. ASSUME NEW p \in Callers, Wake(p) PROVE IInv'
    BY SMTT(30), <1>7 DEF Wake, Return
  <1>8. ASSUME NEW p \in Callers, Abandon(p) PROVE IInv'
    BY SMTT(30), <1>8 DEF Abandon, Return
  <1>9. ASSUME NEW p \in Callers, DialBegin(p) PROVE IInv'
    BY SMTT(30), <1>9 DEF DialBegin
  <1>10. ASSUME NEW p \in Callers, DialCheck(p) PROVE IInv'
    BY SMTT(30), <1>10 DEF DialCheck
  <1>11. ASSUME NEW p \in Callers, DialReturn(p) PROVE IInv'
    BY SMTT(30), <1>11 DEF DialReturn
  <1>12. ASSUME NEW p \in Callers, DialComplete(p) PROVE IInv'
    BY SMTT(30), <1>12 DEF DialComplete
  <1>13. ASSUME NEW p \in Callers, DialSend(p) PROVE IInv'
    BY SMTT(30), <1>13 DEF DialSend, Cancelled
  <1>14. ASSUME NEW p \in Callers, completeDial(p) PROVE IInv'
    <2> USE <1>14 DEF completeDial, Return
    <2>1. CASE DialOutcome(p) = p
      <3>1. /\ connState[p] # "none" /\ ~ctxDone[p]
            /\ ~closed /\ ~closeCtxDone
        BY SMTT(30), <2>1 DEF DialOutcome
      <3>2. pc[p] = "select" /\ connCtx[p] = "live"
        BY SMTT(30), <3>1
      <3>3. /\ connection' = p /\ connectionCancel' = p
            /\ connState' = connState /\ connCtx' = connCtx
        BY SMTT(30), <2>1, CallersNotErrors
      <3>4. result' = [result EXCEPT ![p] = p] /\ pc' = [pc EXCEPT ![p] = "done"]
        BY SMTT(30), <2>1, <3>2
      <3>5. connecting = p /\ connecting' = None
        BY SMTT(30), <3>2
      <3>6. connection = None
        BY SMTT(30), <3>5
      <3>7. /\ dial' = [dial EXCEPT ![p] = "finished"]
            /\ ctxDone' = ctxDone /\ closeCtxDone' = closeCtxDone
            /\ afterFunc' = afterFunc
        BY SMTT(30)
      <3>8. (DialProgress /\ DialContext /\ SentContext)'
        BY SMTT(30), <3>3, <3>7
      <3>9. CallProgress'
        BY SMTT(30), <3>4, <3>7
      <3>13. Cached'
        BY SMTT(30), <3>3, <3>4, <3>5, <3>7
      <3>14. CachedContextLive'
        BY SMTT(30), <3>2, <3>3
      <3>15. result'[p] = p
        BY SMTT(30), <3>4
      <3>16. CachedWasReturned'
        BY SMTT(30), <3>3, <3>15
      <3>10. SingleFlight'
        BY SMTT(30), <3>5, <3>7
      <3>11. NoConnectionLeak'
        BY SMTT(30), <3>3, <3>6, <3>7
      <3>12. NoContextLeak'
        BY SMTT(30), <3>3, <3>6, <3>7
      <3> QED
        BY SMTT(30), <3>8, <3>9, <3>10, <3>11, <3>12, <3>13, <3>14, <3>16
    <2>2. CASE DialOutcome(p) = "dial"
      BY SMTT(30), <2>2 DEF DialOutcome
    <2>3. CASE DialOutcome(p) \in {"closed", "ctx"}
      BY SMTT(30), <2>3 DEF DialOutcome, Cancelled, ConnectionsClosed
    <2> QED
      BY ZenonT(30), <2>1, <2>2, <2>3 DEF DialOutcome
  <1>15. ASSUME NEW p \in Callers, NestedGet(p) PROVE IInv'
    <2> USE <1>15 DEF NestedGet
    <2>1. CASE UNCHANGED <<connection, connectionCancel, connCtx>>
      BY SMTT(30), <2>1
    <2>2. CASE ~HasUsableConnection /\ DropConnection
      BY SMTT(30), <2>2 DEF HasUsableConnection, IsClosed, DropConnection, Cancelled
    <2> QED
      BY ZenonT(30), <2>1, <2>2
  <1>17. ASSUME NEW p \in Callers, AfterFuncStart(p) PROVE IInv'
    BY SMTT(30), <1>17 DEF AfterFuncStart
  <1>18. ASSUME NEW p \in Callers, AfterFuncRun(p) PROVE IInv'
    BY SMTT(30), <1>18 DEF AfterFuncRun, Cancelled, dialComplete
  <1>19. ASSUME NEW p \in Callers, DialCallsGet(p) PROVE IInv'
    BY SMTT(30), <1>19 DEF DialCallsGet
  <1>20. ASSUME NEW p \in Callers, CtxCancel(p) PROVE IInv'
    BY SMTT(30), <1>20 DEF CtxCancel
  <1>21. ASSUME NEW p \in Callers, ConnectionDies(p) PROVE IInv'
    BY SMTT(30), <1>21 DEF ConnectionDies, ConnectionsClosed
  <1>22. CASE Close
    BY SMTT(30), <1>22 DEF Close, DropConnection, Cancelled, ConnectionsClosed
  <1>23. CASE Reset
    BY SMTT(30), <1>23 DEF Reset, DropConnection, Cancelled, ConnectionsClosed
  <1>24. CASE CloseCtxCancel
    BY SMTT(30), <1>24 DEF CloseCtxCancel
  <1>25. CASE UNCHANGED vars
    BY <1>25 DEF vars
  <1> QED
    BY ZenonT(30), <1>1, <1>2, <1>3, <1>4, <1>5, <1>6, <1>7, <1>8, <1>9, <1>10, <1>11, <1>12, <1>13, <1>14, <1>15, <1>17, <1>18, <1>19, <1>20, <1>21, <1>22, <1>23, <1>24, <1>25
    DEF Next, GetStep, DialStep, AfterFuncStep

-----------------------------------------------------------------------------
\* The inductive invariant holds in every reachable state of the connector.
THEOREM InvariantHolds == Spec => []IInv
  BY InitIInv, StepIInv, PTL DEF Spec

\* The variables of the connector keep their types.
THEOREM TypeCorrect == Spec => []TypeOK
  BY InvariantHolds, PTL DEF IInv

\* At most one dial is in flight, for any number of concurrent Get calls.
THEOREM SingleFlightHolds == Spec => []SingleFlight
  BY InvariantHolds, PTL DEF IInv

\* No connection and no context is leaked, for any number of Get calls,
\* cancellations, resets and closes.
THEOREM NoLeakHolds == Spec => []NoLeak
  BY InvariantHolds, PTL DEF IInv, NoLeak

\* A cached connection was handed to the request that dialled it, and that
\* request's cancellation never reaches the connection's context.
THEOREM CacheHolds == Spec => []CacheSafe
  BY InvariantHolds, PTL DEF IInv, CacheSafe

-----------------------------------------------------------------------------
(* The connector implements AbstractConnector.                             *)

\* A call has a result when it has returned, and its own connection only
\* after its dial has finished.
ResultProgress ==
    \A p \in Callers :
        /\ pc[p] # "done" => result[p] = None
        /\ result[p] = p => dial[p] = "finished"

\* Every action keeps the results and the calls in step.
LEMMA ResultStep == IInv /\ ResultProgress /\ [Next]_vars => ResultProgress'
  <1> SUFFICES ASSUME IInv, ResultProgress, [Next]_vars PROVE ResultProgress'
    BY SMTT(30)
  <1> USE NoneNotCaller, CallersNotErrors
      DEF IInv, TypeOK, CallProgress, Cached, ResultProgress, InFlight,
          InFlightStates, Errors, lockVars, getVars, dialVars, Return
  <1>1. ASSUME NEW p \in Callers, Call(p) PROVE ResultProgress'
    BY SMTT(30), <1>1 DEF Call
  <1>2. ASSUME NEW p \in Callers, GetClosed(p) PROVE ResultProgress'
    BY SMTT(30), <1>2 DEF GetClosed
  <1>3. ASSUME NEW p \in Callers, GetCached(p) PROVE ResultProgress'
    BY SMTT(30), <1>3 DEF GetCached, HasUsableConnection
  <1>4. ASSUME NEW p \in Callers, GetJoin(p) PROVE ResultProgress'
    BY SMTT(30), <1>4 DEF GetJoin
  <1>5. ASSUME NEW p \in Callers, GetCtxDone(p) PROVE ResultProgress'
    BY SMTT(30), <1>5 DEF GetCtxDone
  <1>6. ASSUME NEW p \in Callers, GetDial(p) PROVE ResultProgress'
    BY SMTT(30), <1>6 DEF GetDial
  <1>7. ASSUME NEW p \in Callers, Wake(p) PROVE ResultProgress'
    BY SMTT(30), <1>7 DEF Wake
  <1>8. ASSUME NEW p \in Callers, Abandon(p) PROVE ResultProgress'
    BY SMTT(30), <1>8 DEF Abandon
  <1>9. ASSUME NEW p \in Callers, DialBegin(p) PROVE ResultProgress'
    BY SMTT(30), <1>9 DEF DialBegin
  <1>10. ASSUME NEW p \in Callers, DialCheck(p) PROVE ResultProgress'
    BY SMTT(30), <1>10 DEF DialCheck
  <1>11. ASSUME NEW p \in Callers, DialReturn(p) PROVE ResultProgress'
    BY SMTT(30), <1>11 DEF DialReturn
  <1>12. ASSUME NEW p \in Callers, DialComplete(p) PROVE ResultProgress'
    BY SMTT(30), <1>12 DEF DialComplete
  <1>13. ASSUME NEW p \in Callers, DialSend(p) PROVE ResultProgress'
    BY SMTT(30), <1>13 DEF DialSend
  <1>14. ASSUME NEW p \in Callers, completeDial(p) PROVE ResultProgress'
    BY SMTT(30), <1>14 DEF completeDial, DialOutcome
  <1>15. ASSUME NEW p \in Callers, NestedGet(p) PROVE ResultProgress'
    BY SMTT(30), <1>15 DEF NestedGet
  <1>16. ASSUME NEW p \in Callers, AfterFuncStart(p) PROVE ResultProgress'
    BY SMTT(30), <1>16 DEF AfterFuncStart
  <1>17. ASSUME NEW p \in Callers, AfterFuncRun(p) PROVE ResultProgress'
    BY SMTT(30), <1>17 DEF AfterFuncRun
  <1>18. ASSUME NEW p \in Callers, DialCallsGet(p) PROVE ResultProgress'
    BY SMTT(30), <1>18 DEF DialCallsGet
  <1>19. ASSUME NEW p \in Callers, CtxCancel(p) PROVE ResultProgress'
    BY SMTT(30), <1>19 DEF CtxCancel
  <1>20. ASSUME NEW p \in Callers, ConnectionDies(p) PROVE ResultProgress'
    BY SMTT(30), <1>20 DEF ConnectionDies
  <1>21. CASE Close \/ Reset \/ CloseCtxCancel \/ UNCHANGED vars
    BY SMTT(30), <1>21 DEF Close, Reset, CloseCtxCancel, vars
  <1> QED
    BY ZenonT(30), <1>1, <1>2, <1>3, <1>4, <1>5, <1>6, <1>7, <1>8, <1>9, <1>10, <1>11, <1>12, <1>13, <1>14, <1>15, <1>16, <1>17, <1>18, <1>19, <1>20, <1>21 DEF Next, GetStep, DialStep, AfterFuncStep

\* Every step is a step of the abstract connector or leaves it unchanged.
LEMMA AbstractStep ==
    IInv /\ ResultProgress /\ [Next]_vars => [Abs!ConnectorNext]_(Abs!connectorVars)
  <1> SUFFICES ASSUME IInv, ResultProgress, [Next]_vars
               PROVE  [Abs!ConnectorNext]_(Abs!connectorVars)
    BY SMTT(30)
  <1> USE NoneNotCaller, CallersNotErrors
      DEF IInv, TypeOK, CallProgress, DialProgress, Cached, ResultProgress, InFlight,
          InFlightStates, Errors, lockVars, getVars, dialVars, Return, Visible,
          Abs!connectorVars
  <1> DEFINE Goal == [Abs!ConnectorNext]_(Abs!connectorVars)
  <1>1. ASSUME NEW p \in Callers, Call(p) PROVE Goal
    BY SMTT(30), <1>1 DEF Call
  <1>2. ASSUME NEW p \in Callers, DialBegin(p) PROVE Goal
    BY SMTT(30), <1>2 DEF DialBegin
  <1>3. ASSUME NEW p \in Callers, DialCheck(p) PROVE Goal
    BY SMTT(30), <1>3 DEF DialCheck
  <1>4. ASSUME NEW p \in Callers, DialReturn(p) PROVE Goal
    BY SMTT(30), <1>4 DEF DialReturn
  <1>5. ASSUME NEW p \in Callers, DialComplete(p) PROVE Goal
    BY SMTT(30), <1>5 DEF DialComplete
  <1>6. ASSUME NEW p \in Callers, DialSend(p) PROVE Goal
    BY SMTT(30), <1>6 DEF DialSend
  <1>7. ASSUME NEW p \in Callers, AfterFuncStart(p) PROVE Goal
    BY SMTT(30), <1>7 DEF AfterFuncStart
  <1>8. ASSUME NEW p \in Callers, AfterFuncRun(p) PROVE Goal
    BY SMTT(30), <1>8 DEF AfterFuncRun
  <1>9. ASSUME NEW p \in Callers, DialCallsGet(p) PROVE Goal
    BY SMTT(30), <1>9 DEF DialCallsGet
  <1>10. ASSUME NEW p \in Callers, CtxCancel(p) PROVE Goal
    BY SMTT(30), <1>10 DEF CtxCancel
  <1>11. ASSUME NEW p \in Callers, GetClosed(p) \/ Wake(p) \/ Abandon(p) PROVE Goal
    <2>1. CASE UNCHANGED result
      BY SMTT(60), <1>11, <2>1 DEF GetClosed, Wake, Abandon
    <2>2. CASE \E e \in Errors : result' = [result EXCEPT ![p] = e]
      <3>1. Visible' = Visible /\ result[p] = None /\ connection' = connection /\ closed' = closed
        BY <1>11, <2>2 DEF GetClosed, Wake, Abandon
      <3>2. Abs!GetFailed(p) BY ZenonT(30), <2>2, <3>1 DEF Abs!GetFailed
      <3> QED BY ZenonT(30), <3>2 DEF Abs!ConnectorNext
    <2> QED BY SMTT(30), <1>11, <2>1, <2>2 DEF GetClosed, Wake, Abandon
  <1>12. ASSUME NEW p \in Callers, GetCached(p) PROVE Goal
    <2>1. /\ Visible' = Visible /\ result[p] = None /\ connection \in Callers
          /\ Visible[connection] = "open"
      BY SMTT(30), <1>12 DEF GetCached, HasUsableConnection, IsClosed, CachedWasReturned
    <2>2. Abs!GetCached(p)
      BY SMTT(30), <1>12, <2>1 DEF GetCached, Abs!GetCached, Abs!Usable
    <2> QED BY ZenonT(30), <2>2 DEF Abs!ConnectorNext
  <1>13. ASSUME NEW p \in Callers, GetJoin(p) \/ GetDial(p) PROVE Goal
    <2>1. /\ connection' = None /\ closed' = closed
          /\ result' = result /\ connState' = connState
      BY ZenonT(30), <1>13 DEF GetJoin, GetDial, DropConnection
    <2>2. ~Abs!Usable
      BY ZenonT(30), <1>13 DEF GetJoin, GetDial, HasUsableConnection, IsClosed, Abs!Usable
    <2>3. Abs!Forget BY SMTT(30), <2>1, <2>2 DEF Abs!Forget
    <2> QED BY <2>3 DEF Abs!ConnectorNext
  <1>14. ASSUME NEW p \in Callers, GetCtxDone(p) PROVE Goal
    <2>1. /\ connection' = None /\ closed' = closed /\ result[p] = None
          /\ result' = [result EXCEPT ![p] = "ctx"]
      BY SMTT(30), <1>14 DEF GetCtxDone, DropConnection
    <2>2. Visible' = Visible
      BY SMTT(30), <1>14, <2>1 DEF GetCtxDone, DropConnection
    <2>3. ~Abs!Usable
      BY SMTT(30), <1>14 DEF GetCtxDone, HasUsableConnection, IsClosed, Abs!Usable
    <2>4. Abs!GetFailed(p) BY <2>1, <2>2, <2>3 DEF Abs!GetFailed
    <2> QED BY SMTT(30), <2>4 DEF Abs!ConnectorNext
  <1>15. ASSUME NEW p \in Callers, NestedGet(p) PROVE Goal
    <2>1. CASE UNCHANGED <<connection, connectionCancel, connCtx>>
      BY SMTT(30), <1>15, <2>1 DEF NestedGet
    <2>2. CASE ~HasUsableConnection /\ DropConnection
      <3>1. /\ Visible' = Visible /\ connection' = None /\ closed' = closed
            /\ result' = result /\ ~Abs!Usable
        BY SMTT(30), <1>15, <2>2 DEF NestedGet, DropConnection, HasUsableConnection, IsClosed, Abs!Usable
      <3>2. Abs!Forget BY SMTT(30), <3>1 DEF Abs!Forget
      <3> QED BY <3>2 DEF Abs!ConnectorNext
    <2> QED BY ZenonT(30), <1>15, <2>1, <2>2 DEF NestedGet
  <1>16. ASSUME NEW p \in Callers, completeDial(p) PROVE Goal
    <2>1. dial[p] = "sent" /\ closed' = closed /\ connection = None /\ result[p] # p
      BY SMTT(30), <1>16 DEF completeDial, SingleFlight
    <2>2. CASE DialOutcome(p) = p
      <3>1. ~closed /\ pc[p] = "select" /\ connState[p] # "none" /\ result[p] = None
        BY SMTT(30), <2>1, <2>2 DEF DialOutcome
      <3>2. /\ result' = [result EXCEPT ![p] = p] /\ connection' = p
            /\ connState' = connState
        BY <1>16, <2>2, <3>1 DEF completeDial
      <3>3. Visible' = [Visible EXCEPT ![p] = connState[p]]
        BY ZenonT(30), <3>2
      <3>4. ~Abs!Usable BY SMTT(30), <2>1 DEF Abs!Usable
      <3>5. connState[p] \in {"open", "closed"}
        BY <3>1
      <3>6. Abs!GetDialled(p)
        BY ZenonT(30), <2>1, <3>1, <3>2, <3>3, <3>4, <3>5 DEF Abs!GetDialled
      <3> QED BY ZenonT(30), <3>6 DEF Abs!ConnectorNext
    <2>3. CASE DialOutcome(p) # p
      <3>1. DialOutcome(p) \in Errors /\ connection' = connection
        BY SMTT(30), <1>16, <2>3 DEF completeDial, DialOutcome
      <3>2. CASE pc[p] = "select"
        <4>1. result[p] = None /\ result' = [result EXCEPT ![p] = DialOutcome(p)]
          BY SMTT(30), <1>16, <3>2 DEF completeDial
        <4>2. Visible' = Visible
          BY <1>16, <2>1, <3>1, <4>1 DEF completeDial, ConnectionsClosed
        <4>3. Abs!GetFailed(p) BY ZenonT(30), <2>1, <3>1, <4>1, <4>2 DEF Abs!GetFailed
        <4> QED BY <4>3 DEF Abs!ConnectorNext
      <3>3. CASE pc[p] # "select"
        <4>1. result' = result
          BY SMTT(30), <1>16, <3>3 DEF completeDial
        <4>2. Visible' = Visible
          BY SMTT(30), <1>16, <2>1, <4>1 DEF completeDial, ConnectionsClosed
        <4> QED BY SMTT(30), <2>1, <3>1, <4>1, <4>2
      <3> QED BY SMTT(30), <3>2, <3>3
    <2> QED BY SMTT(30), <2>2, <2>3
  <1>17. ASSUME NEW p \in Callers, ConnectionDies(p) PROVE Goal
    <2>1. closed' = closed /\ connection' = connection /\ result' = result
      BY SMTT(30), <1>17 DEF ConnectionDies
    <2>2. CASE result[p] # p
      <3>1. Visible' = Visible
        BY SMTT(30), <1>17, <2>1, <2>2 DEF ConnectionDies, ConnectionsClosed
      <3> QED BY SMTT(30), <2>1, <3>1
    <2>3. CASE result[p] = p
      <3>1. Visible[p] = "open"
        BY SMTT(30), <1>17, <2>3 DEF ConnectionDies
      <3>2. Visible' = Abs!CloseAll({p})
        BY SMTT(30), <1>17, <2>1, <2>3 DEF ConnectionDies, ConnectionsClosed, Abs!CloseAll
      <3>3. Abs!ConnectionDies(p) BY ZenonT(30), <2>1, <3>1, <3>2 DEF Abs!ConnectionDies
      <3> QED BY ZenonT(30), <3>3 DEF Abs!ConnectorNext
    <2> QED BY SMTT(30), <2>2, <2>3
  <1>18. CASE Close \/ Reset
    <2>1. /\ connection' = None /\ result' = result
          /\ connState' = ConnectionsClosed({connection})
      BY SMTT(30), <1>18 DEF Close, Reset, DropConnection
    <2>2. \A p \in Callers : p = connection => result[p] = p
      BY SMTT(30) DEF CachedWasReturned
    <2>3. Visible' = Abs!CloseAll({connection})
      <3> HIDE DEF IInv, ResultProgress
      <3> QED BY SMTT(30), <2>1, <2>2 DEF ConnectionsClosed, Abs!CloseAll
    <2>4. closed' = TRUE \/ closed' = closed
      BY SMTT(30), <1>18 DEF Close, Reset
    <2>5. Abs!Close \/ Abs!Reset
      BY SMTT(30), <2>1, <2>3, <2>4 DEF Abs!Close, Abs!Reset
    <2> QED BY ZenonT(30), <2>5 DEF Abs!ConnectorNext
  <1>19. CASE CloseCtxCancel \/ UNCHANGED vars
    BY <1>19 DEF CloseCtxCancel, vars
  <1> QED
    BY ZenonT(30), <1>1, <1>2, <1>3, <1>4, <1>5, <1>6, <1>7, <1>8, <1>9, <1>10, <1>11, <1>12, <1>13, <1>14, <1>15, <1>16, <1>17, <1>18, <1>19 DEF Next, GetStep, DialStep, AfterFuncStep

\* The connector is, to its transport, one in which every Get takes effect at
\* a single instant, for any number of overlapping calls.
THEOREM Implements == Spec => ImplementsAbstract
  <1>1. Init => Abs!ConnectorInit /\ ResultProgress
    BY NoneNotCaller DEF Init, Abs!ConnectorInit, Visible, ResultProgress
  <1>2. Spec => []ResultProgress
    BY <1>1, InvariantHolds, ResultStep, PTL DEF Spec
  <1> QED
    BY <1>1, <1>2, InvariantHolds, AbstractStep, PTL DEF Spec, ImplementsAbstract, Abs!ConnectorSpec

-----------------------------------------------------------------------------
(* The base lifecycle, and the UDP transport over it. *)


\* Only one UDP!Shutdown waits for the queries, the channel is there for it until
\* the last query closes it, and nothing runs in a transport that is new.
ShutdownWaits == \A c \in Callers :
    shut[c] \in {"cancelWait", "wait"} =>
        /\ state # "started" /\ state # "new"
        /\ completeClosed \/ queriesComplete

Channel ==
    /\ queriesComplete => UDP!Closing /\ ~completeClosed /\ active # {}
    /\ completeClosed => UDP!Closing /\ active = {}
    /\ state = "new" => active = {}

DrainedComplete == \A c \in Callers : shut[c] = "drained" => completeClosed

BaseInv == UDP!BaseTypeOK /\ UDP!InFlightExact /\ ShutdownWaits /\ Channel /\ DrainedComplete /\ UDP!CloseCancels

\* The base lifecycle counts with the Cardinality of FiniteSets.
LEMMA CardinalityAgain == ASSUME NEW S PROVE UDP!Cardinality(S) = Cardinality(S)
  BY ZenonT(30) DEF UDP!Cardinality, Cardinality

\* The cardinalities of the sets of running queries.
LEMMA ActiveCard ==
    ASSUME IsFiniteSet(Callers), NEW S, S \in SUBSET Callers
    PROVE  /\ IsFiniteSet(S)
           /\ UDP!Cardinality(S) \in 0..UDP!Cardinality(Callers)
           /\ UDP!Cardinality(S) = 0 <=> S = {}
           /\ \A q \in Callers \ S : UDP!Cardinality(S \cup {q}) = UDP!Cardinality(S) + 1
           /\ \A q \in S : UDP!Cardinality(S \ {q}) = UDP!Cardinality(S) - 1
<1>1. IsFiniteSet(Callers) OBVIOUS
<1>2. IsFiniteSet(S) BY <1>1, FS_Subset
<1>3. UDP!Cardinality(S) <= UDP!Cardinality(Callers) BY <1>1, <1>2, FS_Subset, CardinalityAgain
<1>4. UDP!Cardinality(S) \in Nat /\ UDP!Cardinality(Callers) \in Nat
  BY <1>1, <1>2, FS_CardinalityType, CardinalityAgain
<1>5. UDP!Cardinality(S) = 0 <=> S = {} BY <1>2, FS_EmptySet, CardinalityAgain
<1>6. \A q \in Callers \ S : UDP!Cardinality(S \cup {q}) = UDP!Cardinality(S) + 1
  BY <1>2, FS_AddElement, CardinalityAgain
<1>7. \A q \in S : UDP!Cardinality(S \ {q}) = UDP!Cardinality(S) - 1
  BY <1>2, FS_RemoveElement, CardinalityAgain
<1> QED BY <1>2, <1>3, <1>4, <1>5, <1>6, <1>7

LEMMA BaseInitInv ==
    ASSUME IsFiniteSet(Callers) PROVE UDP!BaseInit => BaseInv
<1> SUFFICES ASSUME UDP!BaseInit PROVE BaseInv
  BY SMTT(30)
<1>1. UDP!Cardinality(active) = 0 /\ UDP!Cardinality(Callers) \in Nat
  BY ActiveCard, FS_CardinalityType, CardinalityAgain DEF UDP!BaseInit
<1>2. UDP!BaseTypeOK
  <2>1. inFlight \in 0..UDP!Cardinality(Callers) BY <1>1 DEF UDP!BaseInit
  <2>2. queriesComplete \in BOOLEAN /\ completeClosed \in BOOLEAN
        /\ uCloseCtxDone \in BOOLEAN
    BY Zenon DEF UDP!BaseInit
  <2>3. /\ shut \in [Callers -> {"idle", "cancel", "cancelWait", "wait"} \cup UDP!Returned]
        /\ state \in {"new", "started", "closing", "closed"}
        /\ active \in SUBSET Callers
    BY DEF UDP!BaseInit
  <2> QED BY <2>1, <2>2, <2>3 DEF UDP!BaseTypeOK
<1>3. UDP!InFlightExact BY <1>1 DEF UDP!BaseInit, UDP!InFlightExact
<1>4. ShutdownWaits /\ Channel /\ DrainedComplete /\ UDP!CloseCancels
  BY SMTT(30) DEF UDP!BaseInit, ShutdownWaits, Channel, DrainedComplete, UDP!CloseCancels, UDP!Closing
<1> QED BY <1>2, <1>3, <1>4 DEF BaseInv

\* Every step of the transport keeps the invariant.
LEMMA BaseStepInv ==
    ASSUME IsFiniteSet(Callers) PROVE BaseInv /\ [UDP!BaseNext]_(UDP!baseVars) => BaseInv'
<1> SUFFICES ASSUME BaseInv, [UDP!BaseNext]_(UDP!baseVars) PROVE BaseInv'
  BY SMTT(30)
<1> USE DEF BaseInv, UDP!BaseTypeOK, UDP!InFlightExact, ShutdownWaits, Channel, DrainedComplete,
            UDP!CloseCancels, UDP!Closing, UDP!Returned
<1>1. CASE UDP!SetStarted
  BY SMTT(30), <1>1 DEF UDP!SetStarted
<1>2. ASSUME NEW q \in Callers, UDP!BeginQuery(q) PROVE BaseInv'
  <2>1. active' \in SUBSET Callers /\ active' = active \cup {q} /\ q \notin active
    BY SMTT(30), <1>2 DEF UDP!BeginQuery
  <2>2. UDP!Cardinality(active') = UDP!Cardinality(active) + 1
    BY SMTT(30), <2>1, ActiveCard
  <2>3. UDP!Cardinality(active') \in 0..UDP!Cardinality(Callers)
    BY SMTT(30), <2>1, ActiveCard
  <2> QED BY SMTT(30), <1>2, <2>1, <2>2, <2>3 DEF UDP!BeginQuery, UDP!AcceptsQueries
<1>3. ASSUME NEW q \in Callers, UDP!EndQuery(q) PROVE BaseInv'
  <2>1. active' \in SUBSET Callers /\ active' = active \ {q} /\ q \in active
    BY SMTT(30), <1>3 DEF UDP!EndQuery
  <2>2. UDP!Cardinality(active') = UDP!Cardinality(active) - 1 /\ UDP!Cardinality(active) # 0
    BY SMTT(30), <2>1, ActiveCard
  <2>3. /\ UDP!Cardinality(active') \in 0..UDP!Cardinality(Callers)
        /\ UDP!Cardinality(active') = 0 <=> active' = {}
    BY ZenonT(30), <2>1, ActiveCard
  <2>4. inFlight' = UDP!Cardinality(active')
    BY <1>3, <2>2 DEF UDP!EndQuery, UDP!CountAfterEnd
  <2>5. (completeClosed' <=> completeClosed \/ (active' = {} /\ queriesComplete))
        /\ (queriesComplete' <=> queriesComplete /\ active' # {})
        /\ completeClosed' \in BOOLEAN /\ queriesComplete' \in BOOLEAN
    BY <1>3, <2>3, <2>4 DEF UDP!EndQuery, UDP!SignalsComplete, UDP!FieldAfter
  <2>6. state' = state /\ uCloseCtxDone' = uCloseCtxDone /\ shut' = shut
    BY <1>3 DEF UDP!EndQuery
  <2>7. UDP!BaseTypeOK' /\ UDP!InFlightExact'
    BY SMTT(30), <2>1, <2>3, <2>4, <2>5, <2>6
  <2> QED BY SMTT(30), <2>1, <2>5, <2>6, <2>7
<1>4. ASSUME NEW c \in Callers, UDP!Shutdown(c) PROVE BaseInv'
  <2>1. CASE UDP!ShutdownAgain(c) BY SMTT(30), <2>1 DEF UDP!ShutdownAgain
  <2>2. CASE UDP!ShutdownIdle(c)
    <3>1. active = {} BY SMTT(30), <2>2, ActiveCard DEF UDP!ShutdownIdle
    <3> QED BY SMTT(30), <2>2, <3>1 DEF UDP!ShutdownIdle
  <2>3. CASE UDP!ShutdownBusy(c)
    <3>1. active # {} BY SMTT(30), <2>3, ActiveCard DEF UDP!ShutdownBusy
    <3> QED BY SMTT(30), <2>3, <3>1 DEF UDP!ShutdownBusy
  <2>4. CASE UDP!closeCancel(c) BY SMTT(30), <2>4 DEF UDP!closeCancel, UDP!CloseContextAfter
  <2>5. CASE UDP!ShutdownDrained(c) BY SMTT(30), <2>5 DEF UDP!ShutdownDrained
  <2>6. CASE UDP!ShutdownTimeout(c) BY SMTT(30), <2>6 DEF UDP!ShutdownTimeout
  <2> QED BY ZenonT(30), <1>4, <2>1, <2>2, <2>3, <2>4, <2>5, <2>6 DEF UDP!Shutdown
<1>5. CASE UNCHANGED UDP!baseVars
  BY <1>5 DEF UDP!baseVars
<1> QED BY ZenonT(30), <1>1, <1>2, <1>3, <1>4, <1>5 DEF UDP!BaseNext

\* Exchange calls BeginQuery, its deferred call EndQuery, Close calls Shutdown,
\* and nothing else touches the state, the count or the channel.
LEMMA BaseSteps == UDP!Spec => UDP!BaseSpec
<1>1. UDP!Init => UDP!BaseInit
  BY DEF UDP!Init
<1>2. ASSUME [UDP!Next]_(UDP!vars) PROVE [UDP!BaseNext]_(UDP!baseVars)
  <2>1. CASE UNCHANGED UDP!vars
    BY <2>1 DEF UDP!vars
  <2>2. CASE UDP!Start
    BY <2>2 DEF UDP!Start, UDP!BaseNext
  <2>3. CASE UDP!NetworkReset \/ UDP!CloseConnector
    BY <2>3 DEF UDP!NetworkReset, UDP!CloseConnector
  <2>4. ASSUME NEW q \in Callers, UDP!Exchange(q) PROVE [UDP!BaseNext]_(UDP!baseVars)
    BY <2>4 DEF UDP!Exchange, UDP!BaseNext
  <2>5. ASSUME NEW q \in Callers, UDP!UDPStep(q) \/ UDP!exchangeTCP(q) PROVE [UDP!BaseNext]_(UDP!baseVars)
    <3>1. CASE UDP!Return(q)
      BY SMTT(30), <3>1 DEF UDP!Return, UDP!BaseNext
    <3>2. CASE ~UDP!Return(q)
      BY ZenonT(30), <2>5, <3>2 DEF UDP!UDPStep, UDP!exchangeTCP, UDP!GrowBuffer, UDP!ResetForBuffer,
           UDP!GetConnection, UDP!Register, UDP!Write, UDP!WriteFails, UDP!Select, UDP!Unregister
    <3> QED
      BY <3>1, <3>2
  <2>6. ASSUME NEW m \in wire, UDP!recvLoop(m) PROVE UNCHANGED UDP!baseVars
    BY <2>6 DEF UDP!recvLoop
  <2>7. ASSUME NEW c \in Callers, UDP!ReadFails(c) PROVE UNCHANGED UDP!baseVars
    BY <2>7 DEF UDP!ReadFails
  <2>8. ASSUME NEW c \in Callers, UDP!ShutdownStep(c) PROVE UDP!BaseNext
    BY <2>8 DEF UDP!ShutdownStep, UDP!BaseNext
  <2> QED
    BY SMTT(30), <1>2, <2>1, <2>2, <2>3, <2>4, <2>5, <2>6, <2>7, <2>8 DEF UDP!Next
<1> QED
  BY <1>1, <1>2, PTL DEF UDP!Spec, UDP!BaseSpec

\* Shutdown's contract, for any finite number of exchanges and of concurrent
\* Close calls: the count is exact, completion is reported only for an idle
\* transport, the wake-up is never lost, the channel is closed at most once, and
\* the queries are told to stop (BaseTransport.Shutdown, EndQuery).
THEOREM ShutdownContractHolds ==
    ASSUME IsFiniteSet(Callers) PROVE UDP!Spec => []ShutdownContract
<1>1. UDP!BaseInit => BaseInv
  BY BaseInitInv
<1>2. BaseInv /\ [UDP!BaseNext]_(UDP!baseVars) => BaseInv'
  BY BaseStepInv
<1>3. BaseInv => ShutdownContract
  BY DEF BaseInv, DrainedComplete, Channel, ShutdownWaits, UDP!DrainedMeansIdle, UDP!NoLostWakeup,
         UDP!CompleteClosedOnce, UDP!ShutdownContract, ShutdownContract
<1> QED
  BY <1>1, <1>2, <1>3, BaseSteps, PTL DEF UDP!BaseSpec

-----------------------------------------------------------------------------
\* The labels of the exchanges that have left Get with a connection.
OnConnection == {"register"} \cup UDP!Registered

Labels == {"idle", "grow", "reset", "get", "tcp", "end", "done"} \cup OnConnection

SizeTypeOK ==
    /\ uConnection \in Callers \cup {None}
    /\ uConnState \in [Callers -> {"none", "open", "closed"}]
    /\ uResult \in [Callers -> Callers \cup {None} \cup UDP!Errors]
    /\ uPc \in [Callers -> Labels]
    /\ udpSize \in 0..1
    /\ called \in [Callers -> 0..1]
    /\ recvSize \in [Callers -> 0..1]

\* Only the cached connection is open, so a Reset leaves none.
OnlyCached == \A c \in Callers : uConnState[c] = "open" => c = uConnection

\* An open connection with too small a buffer was being dialled when the buffer
\* grew, or its Reset is due.
OpenFits ==
    \A c \in Callers : uConnState[c] = "open" =>
        \/ udpSize <= recvSize[c]
        \/ c \in outgrown
        \/ \E p \in Callers : uPc[p] = "reset"

\* An exchange past the growth has its size, and past Get it has a connection.
Grown ==
    \A q \in Callers :
        /\ uPc[q] \in {"get"} \cup OnConnection => UDP!EDNSSize(q) <= udpSize
        /\ uPc[q] = "reset" => UDP!EDNSSize(q) <= udpSize
        /\ uPc[q] \in OnConnection => uResult[q] \in Callers

SizeInv == SizeTypeOK /\ OnlyCached /\ OpenFits /\ Grown

\* No connection and no exchange: the invariant of the buffer holds.
LEMMA SizeInitInv == UDP!Init => SizeInv
  BY DEF UDP!Init, UDP!Conn!ConnectorInit, SizeInv, SizeTypeOK, OnlyCached, OpenFits, Grown,
         OnConnection, UDP!Registered, Labels

\* What the invariant of the buffer reads, the labels aside, stays as it is.
SizesKept == UNCHANGED <<uConnection, uConnState, uResult, udpSize, called, recvSize, outgrown>>

\* Exchange q goes on, to a label at which the invariant asks no more of it.
GoesOn(q, to) ==
    /\ uPc' = [uPc EXCEPT ![q] = to]
    /\ uPc[q] # "reset"
    /\ to \in Labels \ {"get", "reset"}
    /\ to \in OnConnection => uPc[q] \in OnConnection

\* Neither of the two disturbs the invariant of the buffer.
LEMMA GoesOnInv ==
    ASSUME SizeInv, SizesKept, UNCHANGED uPc \/ \E q \in Callers, to \in Labels : GoesOn(q, to)
    PROVE  SizeInv'
<1> USE DEF SizeInv, SizesKept
<1>1. CASE UNCHANGED uPc
  BY ZenonT(30), <1>1 DEF SizeTypeOK, OnlyCached, OpenFits, Grown, UDP!EDNSSize
<1>2. ASSUME NEW q \in Callers, NEW to \in Labels, GoesOn(q, to) PROVE SizeInv'
  <2>1. to \in OnConnection => uPc[q] \in OnConnection
    BY Zenon, <1>2 DEF GoesOn
  <2>2. uPc[q] # "reset" /\ to \notin {"get", "reset"}
    BY <1>2 DEF GoesOn
  <2>3. /\ uPc' \in [Callers -> Labels]
        /\ uPc'[q] = to
        /\ \A p \in Callers \ {q} : uPc'[p] = uPc[p]
    BY <1>2 DEF GoesOn, SizeTypeOK
  <2>4. SizeTypeOK' /\ OnlyCached'
    BY ZenonT(30), <2>3 DEF SizeTypeOK, OnlyCached
  <2>5. OpenFits'
    BY SMTT(30), <2>2, <2>3 DEF OpenFits
  <2>6. Grown'
    BY SMTT(30), <2>1, <2>2, <2>3 DEF Grown, UDP!EDNSSize
  <2> QED
    BY <2>4, <2>5, <2>6
<1> QED
  BY <1>1, <1>2

\* Every step of the UDP transport keeps the invariant of the buffer.
LEMMA SizeStepInv == SizeInv /\ [UDP!Next]_(UDP!vars) => SizeInv'
<1> SUFFICES ASSUME SizeInv, [UDP!Next]_(UDP!vars) PROVE SizeInv'
  OBVIOUS
<1>1. CASE UNCHANGED UDP!vars \/ UDP!Start \/ \E c \in Callers : UDP!ShutdownStep(c)
  <2>1. SizesKept /\ UNCHANGED uPc
    BY <1>1 DEF UDP!vars, UDP!Start, UDP!ShutdownStep, SizesKept, UDP!connVars, UDP!queryVars, UDP!sizeVars
  <2> QED BY <2>1, GoesOnInv
<1>2. ASSUME NEW q \in Callers,
             \/ UDP!Exchange(q) \/ UDP!Register(q) \/ UDP!Write(q) \/ UDP!Select(q)
             \/ UDP!Unregister(q) \/ UDP!exchangeTCP(q) \/ UDP!Return(q)
      PROVE  SizeInv'
  <2>1. SizesKept
    BY <1>2 DEF UDP!Exchange, UDP!Register, UDP!Write, UDP!Select, UDP!Unregister, UDP!exchangeTCP,
                UDP!Return, SizesKept, UDP!connVars, UDP!sizeVars
  <2>2. \E to \in Labels : GoesOn(q, to)
    <3> USE DEF UDP!Goto, UDP!Finish
    <3>1. CASE UDP!Exchange(q)
      <4>1. uPc[q] = "idle" /\ (uPc' = [uPc EXCEPT ![q] = "grow"] \/ uPc' = [uPc EXCEPT ![q] = "done"])
        BY Zenon, <3>1 DEF UDP!Exchange
      <4>2. GoesOn(q, "grow") \/ GoesOn(q, "done")
        BY <4>1 DEF GoesOn, Labels, OnConnection, UDP!Registered
      <4> QED BY <4>2 DEF Labels, OnConnection, UDP!Registered
    <3>2. CASE UDP!Register(q)
      <4>1. uPc[q] = "register" /\ (uPc' = [uPc EXCEPT ![q] = "write"] \/ uPc' = [uPc EXCEPT ![q] = "end"])
        BY Zenon, <3>2 DEF UDP!Register
      <4>2. GoesOn(q, "write") \/ GoesOn(q, "end")
        BY <4>1 DEF GoesOn, Labels, OnConnection, UDP!Registered
      <4> QED BY <4>2 DEF Labels, OnConnection, UDP!Registered
    <3>3. CASE UDP!Write(q)
      <4>1. GoesOn(q, "select")
        BY <3>3 DEF UDP!Write, GoesOn, Labels, OnConnection, UDP!Registered
      <4> QED BY <4>1 DEF Labels, OnConnection, UDP!Registered
    <3>4. CASE UDP!Select(q)
      <4>1. GoesOn(q, "unregister")
        BY <3>4 DEF UDP!Select, GoesOn, Labels, OnConnection, UDP!Registered
      <4> QED BY <4>1 DEF Labels, OnConnection, UDP!Registered
    <3>5. CASE UDP!Unregister(q)
      <4>1. uPc[q] = "unregister" /\ (uPc' = [uPc EXCEPT ![q] = "end"] \/ uPc' = [uPc EXCEPT ![q] = "tcp"])
        BY Zenon, <3>5 DEF UDP!Unregister
      <4>2. GoesOn(q, "end") \/ GoesOn(q, "tcp")
        BY <4>1 DEF GoesOn, Labels, OnConnection, UDP!Registered
      <4> QED BY <4>2 DEF Labels, OnConnection, UDP!Registered
    <3>6. CASE UDP!exchangeTCP(q)
      <4>1. GoesOn(q, "end")
        BY <3>6 DEF UDP!exchangeTCP, GoesOn, Labels, OnConnection, UDP!Registered
      <4> QED BY <4>1 DEF Labels, OnConnection, UDP!Registered
    <3>7. CASE UDP!Return(q)
      <4>1. GoesOn(q, "done")
        BY <3>7 DEF UDP!Return, GoesOn, Labels, OnConnection, UDP!Registered
      <4> QED BY <4>1 DEF Labels, OnConnection, UDP!Registered
    <3> QED BY Zenon, <1>2, <3>1, <3>2, <3>3, <3>4, <3>5, <3>6, <3>7
  <2> QED BY Zenon, <2>1, <2>2, GoesOnInv
<1> USE DEF SizeInv, SizeTypeOK, OnlyCached, OpenFits, Grown, OnConnection, UDP!Registered, Labels,
            UDP!Goto, UDP!Finish, UDP!connVars, UDP!queryVars, UDP!sizeVars
<1>3. CASE UDP!NetworkReset
  BY SMTT(30), <1>3 DEF UDP!NetworkReset, UDP!Conn!Reset, UDP!Conn!CloseAll, UDP!EDNSSize
<1>4. CASE UDP!CloseConnector
  BY SMTT(30), <1>4 DEF UDP!CloseConnector, UDP!Conn!Close, UDP!Conn!CloseAll, UDP!EDNSSize
<1>5. ASSUME NEW q \in Callers, UDP!GrowBuffer(q) PROVE SizeInv'
  BY SMTT(30), <1>5 DEF UDP!GrowBuffer, UDP!AfterGrowth, UDP!Calls, UDP!EDNSSize
<1>6. ASSUME NEW q \in Callers, UDP!ResetForBuffer(q) PROVE SizeInv'
  BY SMTT(30), <1>6 DEF UDP!ResetForBuffer, UDP!Conn!Reset, UDP!Conn!CloseAll, UDP!Calls, UDP!EDNSSize
<1>7. ASSUME NEW q \in Callers, UDP!GetConnection(q) PROVE SizeInv'
  <2> USE DEF UDP!EDNSSize
  <2>1. called' \in [Callers -> 0..1] /\ udpSize' = udpSize
    BY <1>7 DEF UDP!GetConnection
  <2>2. ASSUME UDP!Dialled(q), UDP!Goto(q, "register") PROVE SizeInv'
    <3>1. \A c \in Callers : uConnState[c] # "open"
      BY <2>2, NoneNotCaller DEF UDP!Dialled, UDP!Conn!GetDialled, UDP!Conn!Usable
    <3>2. PICK n \in called[q]..udpSize :
            /\ recvSize' = [recvSize EXCEPT ![q] = n]
            /\ outgrown' = IF n < udpSize THEN outgrown \cup {q} ELSE outgrown
      BY <2>2 DEF UDP!Dialled
    <3>3. n \in 0..1 BY <3>2
    <3>4. PICK s \in {"open", "closed"} : uConnState' = [uConnState EXCEPT ![q] = s]
      BY <2>2 DEF UDP!Dialled, UDP!Conn!GetDialled
    <3>5. uConnection' = q /\ uResult' = [uResult EXCEPT ![q] = q]
      BY <2>2 DEF UDP!Dialled, UDP!Conn!GetDialled
    <3>6. SizeTypeOK' BY <2>1, <2>2, <3>2, <3>3, <3>4, <3>5
    <3>7. OnlyCached' BY <3>1, <3>4, <3>5
    <3>8. OpenFits' BY <2>1, <3>1, <3>2, <3>3, <3>4
    <3>9. Grown' BY <1>7, <2>1, <2>2, <3>5 DEF UDP!GetConnection
    <3> QED BY <3>6, <3>7, <3>8, <3>9
  <2>3. ASSUME UDP!Conn!GetCached(q), UNCHANGED <<recvSize, outgrown>>, UDP!Goto(q, "register")
        PROVE SizeInv'
    <3>1. uConnection \in Callers /\ uResult' = [uResult EXCEPT ![q] = uConnection]
      BY <2>3 DEF UDP!Conn!GetCached, UDP!Conn!Usable
    <3>2. UNCHANGED <<uConnection, uConnState>>
      BY <2>3 DEF UDP!Conn!GetCached
    <3> QED BY SMTT(30), <1>7, <2>1, <2>3, <3>1, <3>2 DEF UDP!GetConnection
  <2>4. ASSUME UDP!Conn!GetFailed(q), UNCHANGED <<recvSize, outgrown>>, UDP!Goto(q, "end")
        PROVE SizeInv'
    <3>1. PICK e \in UDP!Errors : uResult' = [uResult EXCEPT ![q] = e]
      BY <2>4 DEF UDP!Conn!GetFailed
    <3>2. uConnState' = uConnState /\ uConnection' \in Callers \cup {None} /\ OnlyCached'
      BY <2>4 DEF UDP!Conn!GetFailed, UDP!Conn!Usable
    <3> QED BY SMTT(30), <1>7, <2>1, <2>4, <3>1, <3>2 DEF UDP!GetConnection
  <2> QED BY Zenon, <1>7, <2>2, <2>3, <2>4 DEF UDP!GetConnection
<1>8. ASSUME NEW q \in Callers, UDP!WriteFails(q) PROVE SizeInv'
  BY SMTT(30), <1>8 DEF UDP!WriteFails, UDP!Conn!CloseAll, UDP!EDNSSize
<1>9. ASSUME NEW m \in wire, UDP!recvLoop(m) PROVE SizeInv'
  <2>1. /\ \A c \in Callers : recvSize'[c] \in {recvSize[c], udpSize}
        /\ recvSize' \in [Callers -> 0..1]
    BY <1>9 DEF UDP!recvLoop
  <2>2. UNCHANGED <<uConnection, uConnState, uResult, uPc, udpSize, called, outgrown>>
    BY <1>9 DEF UDP!recvLoop
  <2>3. SizeTypeOK' /\ OnlyCached' BY <2>1, <2>2
  <2>4. OpenFits' BY <2>1, <2>2
  <2>5. Grown' BY <2>2 DEF UDP!EDNSSize
  <2> QED BY <2>3, <2>4, <2>5
<1>10. ASSUME NEW c \in Callers, UDP!ReadFails(c) PROVE SizeInv'
  BY SMTT(30), <1>10 DEF UDP!ReadFails, UDP!Conn!ConnectionDies, UDP!Conn!CloseAll, UDP!EDNSSize
<1> HIDE DEF SizeInv
<1> QED
  BY ZenonT(30), <1>1, <1>2, <1>3, <1>4, <1>5, <1>6, <1>7, <1>8, <1>9, <1>10
     DEF UDP!Next, UDP!UDPStep

\* For any number of exchanges: a query waits on a connection whose receive loop
\* has a buffer for its answer, or whose Reset is due, or that was being dialled
\* when the buffer grew (UDPTransport.exchange, recvLoop).
THEOREM BufferFitsHolds == UDP!Spec => []BufferFits
<1>1. SizeInv => BufferFits
  BY DEF SizeInv, SizeTypeOK, OpenFits, Grown, OnConnection, UDP!EDNSSize, UDP!BufferFits, BufferFits
<1> QED
  BY <1>1, SizeInitInv, SizeStepInv, PTL DEF UDP!Spec
=============================================================================
