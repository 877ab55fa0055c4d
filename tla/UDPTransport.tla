--------------------------- MODULE UDPTransport ---------------------------
(***************************************************************************)
(* The UDP DNS transport (dns/transport/udp.go) over its base lifecycle    *)
(* and its connector: queries share one socket, each registers a callback  *)
(* under a fresh 16-bit id, and the receive loop of the socket hands an    *)
(* incoming message to the callback registered under its id.               *)
(*                                                                         *)
(* A member of Queries is one call of Exchange.  The network may lose,     *)
(* delay, reorder and duplicate answers: an answer, once its request was   *)
(* written, can arrive at any later time and any number of times.          *)
(***************************************************************************)
EXTENDS BaseTransport

CONSTANTS None,
          Large,    \* the queries with an EDNS0 buffer size above the default
          IdSpace   \* the number of query ids, 2^16 in the code

\* An exchange fails in many ways: closed, out of time, no connection, no id,
\* not packed, not written, connection lost.  One error stands for them all.
Errors == {"error"}

Ids == 0..(IdSpace - 1)

VARIABLES
    closed, connection, connState, result,
    pc,         \* where each Exchange stands
    udpSize,    \* t.udpSize: 0 for the default, 1 once grown
    called,     \* the size when an exchange that is in Get called it
    recvSize,   \* the size of the buffer that the loop of a connection reads into
    outgrown,   \* history: the connections cached with a smaller buffer than udpSize
    queryId,    \* t.queryId
    callbacks,  \* t.callbacks: the query waiting under each id
    id,         \* queryId of each exchange
    used,       \* the ids in use at some time since each query took its own
    wire,       \* the requests that reached the network: [conn, id, query]
    response,   \* callback.response: the query whose answer it is
    outcome     \* what each exchange returned

Conn == INSTANCE AbstractConnector WITH Callers <- Queries

connVars  == <<closed, connection, connState, result>>
idVars    == <<queryId, callbacks, id, used>>
queryVars == <<pc, outcome>>
sizeVars  == <<udpSize, called, recvSize, outgrown>>
vars == <<baseVars, connVars, idVars, queryVars, sizeVars, wire, response>>

\* The exchange holds an id from "write" on; the deferred delete and the
\* deferred EndQuery are "unregister" and "end".
Registered == {"write", "select", "unregister"}

TypeOK ==
    /\ BaseTypeOK
    /\ closed \in BOOLEAN
    /\ connection \in Queries \cup {None}
    /\ connState \in [Queries -> {"none", "open", "closed"}]
    /\ result \in [Queries -> Queries \cup {None} \cup Errors]
    /\ pc \in [Queries -> {"idle", "grow", "reset", "get", "register", "tcp",
                           "end", "done"} \cup Registered]
    /\ udpSize \in 0..1
    /\ called \in [Queries -> 0..1] /\ recvSize \in [Queries -> 0..1] /\ outgrown \subseteq Queries
    /\ queryId \in Ids
    /\ callbacks \in [Ids -> Queries \cup {None}]
    /\ id \in [Queries -> Ids]
    /\ used \in [Queries -> SUBSET Ids]
    /\ wire \subseteq [conn : Queries, id : Ids, query : Queries]
    /\ response \in [Queries -> Queries \cup {None}]
    /\ outcome \in [Queries -> Queries \cup {None} \cup Errors]
    /\ \A q \in Queries : pc[q] \in {"end", "done"} => outcome[q] # None

Init ==
    /\ BaseInit
    /\ Conn!ConnectorInit
    /\ pc = [q \in Queries |-> "idle"]
    /\ udpSize = 0 /\ outgrown = {}
    /\ called = [q \in Queries |-> 0] /\ recvSize = [q \in Queries |-> 0]
    /\ queryId = 0
    /\ callbacks = [i \in Ids |-> None]
    /\ id = [q \in Queries |-> 0]
    /\ used = [q \in Queries |-> {}]
    /\ wire = {}
    /\ response = [q \in Queries |-> None]
    /\ outcome = [q \in Queries |-> None]

Goto(q, l) == pc' = [pc EXCEPT ![q] = l]

Finish(q, l, r) == Goto(q, l) /\ outcome' = [outcome EXCEPT ![q] = r]

EDNSSize(q) == IF q \in Large THEN 1 ELSE 0

-----------------------------------------------------------------------------
(* Start, Exchange and the exchange over UDP.                              *)

Start == /\ SetStarted
         /\ UNCHANGED <<connVars, idVars, queryVars, sizeVars, wire, response>>

Exchange(q) ==
    /\ pc[q] = "idle"
    /\ \/ /\ BeginQuery(q)
          /\ Goto(q, "grow")
          /\ UNCHANGED outcome
       \/ /\ ~AcceptsQueries
          /\ Finish(q, "done", "error")
          /\ UNCHANGED baseVars
    /\ UNCHANGED <<connVars, idVars, sizeVars, wire, response>>

\* Fault: the connection there is goes on to be used.
NoReset == "get"

AfterGrowth == "reset"

Calls(q) == called' = [called EXCEPT ![q] = udpSize]

\* The compare-and-swap loop; the winner resets the connector afterwards.
GrowBuffer(q) ==
    /\ pc[q] = "grow"
    /\ \/ /\ EDNSSize(q) > udpSize
          /\ udpSize' = EDNSSize(q)
          /\ Goto(q, AfterGrowth)
          /\ UNCHANGED called
       \/ /\ EDNSSize(q) <= udpSize
          /\ Goto(q, "get") /\ Calls(q)
          /\ UNCHANGED udpSize
    /\ UNCHANGED <<baseVars, connVars, idVars, outcome, recvSize, outgrown, wire, response>>

ResetForBuffer(q) ==
    /\ pc[q] = "reset"
    /\ Conn!Reset
    /\ Goto(q, "get") /\ Calls(q)
    /\ UNCHANGED <<baseVars, idVars, outcome, udpSize, recvSize, outgrown, wire, response>>

\* The receive loop starts with the dial, before the connection is cached, and
\* takes the size of its first buffer at any time from there on.
Dialled(q) ==
    /\ Conn!GetDialled(q)
    /\ \E n \in called[q]..udpSize :
         /\ recvSize' = [recvSize EXCEPT ![q] = n]
         /\ outgrown' = IF n < udpSize THEN outgrown \cup {q} ELSE outgrown

GetConnection(q) ==
    /\ pc[q] = "get"
    /\ \/ /\ Dialled(q) \/ (Conn!GetCached(q) /\ UNCHANGED <<recvSize, outgrown>>)
          /\ Goto(q, "register")
          /\ UNCHANGED outcome
       \/ /\ Conn!GetFailed(q)
          /\ Finish(q, "end", result'[q])
          /\ UNCHANGED <<recvSize, outgrown>>
    /\ called' = [called EXCEPT ![q] = 0]
    /\ UNCHANGED <<baseVars, idVars, udpSize, wire, response>>

\* Fault: the smallest free id is taken, so an id is reused at once.
SmallestFree(k) ==
    LET i == (queryId + k) % IdSpace
    IN  callbacks[i] = None /\ \A j \in Ids : callbacks[j] = None => i <= j

FreeAfter(k) == callbacks[(queryId + k) % IdSpace] = None

\* The loop moves the counter to the next free id, and all the way round to
\* where it started when every id is in use.
nextAvailableQueryId(k) ==
    /\ k \in 1..IdSpace
    /\ FreeAfter(k)
    /\ \A j \in 1..(k - 1) : ~FreeAfter(j)

\* History: query q takes id i.
UsedAfter(q, i) ==
    [r \in Queries |->
        IF r = q THEN {i} \cup {j \in Ids : callbacks[j] # None}
        ELSE IF used[r] = {} THEN {} ELSE used[r] \cup {i}]

NoIdError == "error"

Register(q) ==
    /\ pc[q] = "register"
    /\ \/ \E k \in 1..IdSpace :
            LET i == (queryId + k) % IdSpace
            IN  /\ nextAvailableQueryId(k)
                /\ queryId' = i
                /\ callbacks' = [callbacks EXCEPT ![i] = q]
                /\ id' = [id EXCEPT ![q] = i]
                /\ used' = UsedAfter(q, i)
                /\ Goto(q, "write")
                /\ UNCHANGED outcome
       \/ /\ \A i \in Ids : callbacks[i] # None
          /\ Finish(q, "end", NoIdError)
          /\ UNCHANGED idVars
    /\ UNCHANGED <<baseVars, connVars, sizeVars, wire, response>>

Write(q) ==
    /\ pc[q] = "write"
    /\ connState[result[q]] = "open"
    /\ wire' = wire \cup {[conn |-> result[q], id |-> id[q], query |-> q]}
    /\ Goto(q, "select")
    /\ UNCHANGED <<baseVars, connVars, idVars, outcome, sizeVars, response>>

\* Packing fails, or the write does and closes the connection.
WriteFails(q) ==
    /\ pc[q] = "write"
    /\ Finish(q, "unregister", "error")
    /\ connState' \in {connState, Conn!CloseAll({result[q]})}
    /\ UNCHANGED <<closed, connection, result>>
    /\ UNCHANGED <<baseVars, idVars, sizeVars, wire, response>>

SelectFails(q) == TRUE

\* The select picks any case that is ready: the answer is there, or the
\* connection, the transport or the request context is done.  The deadline of
\* the request may pass at any time, so the failing case is always possible.
Select(q) ==
    /\ pc[q] = "select"
    /\ \/ response[q] # None /\ Finish(q, "unregister", response[q])
       \/ SelectFails(q) /\ Finish(q, "unregister", "error")
    /\ UNCHANGED <<baseVars, connVars, idVars, sizeVars, wire, response>>

\* Fault: the deferred delete runs only after an answer.
DeleteAfterAnswer(q) ==
    IF outcome[q] \in Queries THEN [callbacks EXCEPT ![id[q]] = None] ELSE callbacks

CallbacksAfter(q) == [callbacks EXCEPT ![id[q]] = None]

\* The deferred delete; a truncated answer is asked for again over TCP.
Unregister(q) ==
    /\ pc[q] = "unregister"
    /\ callbacks' = CallbacksAfter(q)
    /\ \/ Goto(q, "end")
       \/ outcome[q] \in Queries /\ Goto(q, "tcp")
    /\ UNCHANGED <<baseVars, connVars, queryId, id, used, outcome, sizeVars, wire, response>>

\* A connection of its own, so the answer is to this query.
exchangeTCP(q) ==
    /\ pc[q] = "tcp"
    /\ Finish(q, "end", q) \/ Finish(q, "end", "error")
    /\ UNCHANGED <<baseVars, connVars, idVars, sizeVars, wire, response>>

Return(q) ==
    /\ pc[q] = "end"
    /\ EndQuery(q)
    /\ Goto(q, "done")
    /\ UNCHANGED <<connVars, idVars, outcome, sizeVars, wire, response>>

-----------------------------------------------------------------------------
(* The receive loop of a connection, the network and Close.                *)

AcceptsResponse(q) == response[q] = None

CallbackFor(m) == callbacks[m.id]

\* A message is read and handed on, and the next buffer allocated.  One that the
\* buffer cuts off is discarded as malformed.  The callback is looked up and
\* called in one step: nobody reads what it is given after its exchange is over.
recvLoop(m) ==
    /\ connState[m.conn] = "open"
    /\ \/ EDNSSize(m.query) > recvSize[m.conn] /\ UNCHANGED response
       \/ response' = [q \in Queries |-> IF q = CallbackFor(m) /\ AcceptsResponse(q)
                                       THEN m.query ELSE response[q]]
    /\ recvSize' = [recvSize EXCEPT ![m.conn] = udpSize]
    /\ UNCHANGED <<baseVars, connVars, idVars, queryVars, udpSize, called, outgrown, wire>>

ReadFails(c) ==
    /\ Conn!ConnectionDies(c)
    /\ UNCHANGED <<baseVars, idVars, queryVars, sizeVars, wire, response>>

\* Reset is called when the network changes.
NetworkReset ==
    /\ Conn!Reset
    /\ UNCHANGED <<baseVars, idVars, queryVars, sizeVars, wire, response>>

ShutdownStep(c) ==
    /\ Shutdown(c)
    /\ UNCHANGED <<connVars, idVars, queryVars, sizeVars, wire, response>>

\* After the base transport is shut down the connector is closed.
CloseConnector ==
    /\ \E c \in Closers : shut[c] \in Returned
    /\ ~closed
    /\ Conn!Close
    /\ UNCHANGED <<baseVars, idVars, queryVars, sizeVars, wire, response>>

-----------------------------------------------------------------------------
UDPStep(q) == \/ GrowBuffer(q) \/ ResetForBuffer(q) \/ GetConnection(q)
              \/ Register(q) \/ Write(q) \/ WriteFails(q) \/ Select(q)
              \/ Unregister(q) \/ Return(q)

Next ==
    \/ Start \/ NetworkReset \/ CloseConnector
    \/ \E q \in Queries : Exchange(q) \/ UDPStep(q) \/ exchangeTCP(q)
    \/ \E m \in wire : recvLoop(m)
    \/ \E c \in Queries : ReadFails(c)
    \/ \E c \in Closers : ShutdownStep(c)

Spec == Init /\ [][Next]_vars

\* Goroutines are scheduled; every request context has a deadline, and so has
\* the context of Close, which nobody has to call.  Nothing makes exchangeTCP
\* return: it reads from a connection on which no deadline is set.
Fairness == /\ \A q \in Queries : WF_vars(UDPStep(q))
            /\ \A c \in Closers : WF_vars(shut[c] # "idle" /\ ShutdownStep(c))

FairSpec == Spec /\ Fairness

-----------------------------------------------------------------------------
(* Properties.                                                             *)

\* The table and the exchanges agree: an exchange that holds an id is the one
\* registered under it, so the deferred delete never removes another query's
\* callback, and an id is taken only as long as its exchange runs.
CallbacksExact ==
    \A i \in Ids : \A q \in Queries :
        callbacks[i] = q <=> pc[q] \in Registered /\ id[q] = i

\* A late answer reaches another query only when every id has been in use
\* since the answered query was sent: ids are reused as late as possible.
AnswersMeetTheirQuery ==
    \A q \in Queries : response[q] \notin {None, q} => used[response[q]] = Ids

\* A query is not sent on a connection that cuts its answer off: the buffer of
\* its loop is as large as the query allows, or the connection is about to be
\* reset by the query that made the buffer grow, unless it was being dialled
\* when that Reset came, which then found nothing to close (exchange, recvLoop).
BufferFits ==
    \A q \in Queries : pc[q] \in {"register"} \cup Registered /\ connState[result[q]] = "open" =>
        \/ EDNSSize(q) <= recvSize[result[q]]
        \/ result[q] \in outgrown
        \/ \E p \in Queries : pc[p] = "reset"

\* An exchange over UDP ends, by an answer, an error or the deadline; only a
\* retry over TCP can go on.
UDPPhaseEnds == \A q \in Queries : pc[q] \notin {"idle", "tcp"} ~> pc[q] \in {"tcp", "done"}

\* Close returns, also when a retry over TCP never does.
CloseReturns == \A c \in Closers : shut[c] # "idle" ~> shut[c] \in Returned
=============================================================================
