--------------------------- MODULE TLSTransport ---------------------------
(***************************************************************************)
(* The TLS DNS transport (dns/transport/tls.go) over its base lifecycle: a *)
(* pool of connections, each used by one query at a time, returned to the  *)
(* pool after an answer and closed after a failure.                        *)
(*                                                                         *)
(* A member of Queries is one call of Exchange; it dials at most once, so  *)
(* it also names the connection it dials.  Requests have a deadline (the   *)
(* DNS client sets one), which can end a read at any time, after which the *)
(* answer may still be on its way.                                         *)
(***************************************************************************)
EXTENDS Integers, Sequences, FiniteSets

CONSTANTS Queries, Closers, None

VARIABLES
    state, inFlight, queriesComplete, completeClosed, closeCtxDone, active, shut,
    connections,  \* t.connections, the pool
    connState,    \* the connection each query dialled
    deadline,     \* a deadline is set on the connection
    pending,      \* the requests written to the connection and not answered
    pc,           \* where each Exchange stands
    conn,         \* the connection it uses
    outcome,      \* the query whose answer it returned, or an error
    drained,      \* the Close calls that have emptied the pool
    window        \* the connections pooled since then and before Shutdown

Base == INSTANCE BaseTransport

baseVars  == <<state, inFlight, queriesComplete, completeClosed, closeCtxDone,
               active, shut>>
connVars  == <<connState, deadline, pending>>
queryVars == <<pc, conn, outcome>>
vars == <<baseVars, connVars, queryVars, connections, drained, window>>

Using == {"write", "read", "push"}

TypeOK ==
    /\ Base!BaseTypeOK
    /\ connections \in Seq(Queries)
    /\ connState \in [Queries -> {"none", "open", "closed"}]
    /\ deadline \in [Queries -> BOOLEAN]
    /\ pending \in [Queries -> Seq(Queries)]
    /\ pc \in [Queries -> {"idle", "pop", "dial", "end", "done"} \cup Using]
    /\ conn \in [Queries -> Queries \cup {None}]
    /\ outcome \in [Queries -> Queries \cup {None, "error"}]
    /\ drained \subseteq Closers
    /\ window \subseteq Queries
    /\ \A q \in Queries : (pc[q] \in Using <=> conn[q] # None)
                          /\ (pc[q] = "done" => outcome[q] # None)

Init ==
    /\ Base!BaseInit
    /\ connections = <<>>
    /\ connState = [q \in Queries |-> "none"]
    /\ deadline = [q \in Queries |-> FALSE]
    /\ pending = [q \in Queries |-> <<>>]
    /\ pc = [q \in Queries |-> "idle"]
    /\ conn = [q \in Queries |-> None]
    /\ outcome = [q \in Queries |-> None]
    /\ drained = {}
    /\ window = {}

Pool == {connections[i] : i \in DOMAIN connections}

Goto(q, l) == pc' = [pc EXCEPT ![q] = l]

Finish(q, l, r) == Goto(q, l) /\ outcome' = [outcome EXCEPT ![q] = r]

\* Fault: a query that is through with its connection still refers to it.
TakeAndKeep(q, c) == conn' = IF c = None THEN conn ELSE [conn EXCEPT ![q] = c]

Take(q, c) == conn' = [conn EXCEPT ![q] = c]

Closed(S) == [c \in Queries |-> IF c \in S THEN "closed" ELSE connState[c]]

-----------------------------------------------------------------------------
Start == /\ Base!SetStarted
         /\ UNCHANGED <<connVars, queryVars, connections, drained, window>>

Exchange(q) ==
    /\ pc[q] = "idle"
    /\ \/ /\ Base!BeginQuery(q)
          /\ Goto(q, "pop")
          /\ UNCHANGED outcome
       \/ /\ ~Base!AcceptsQueries
          /\ Finish(q, "done", "error")
          /\ UNCHANGED baseVars
    /\ UNCHANGED <<connVars, conn, connections, drained, window>>

PoolAfterPop == Tail(connections)

PopFront(q) ==
    /\ pc[q] = "pop"
    /\ \/ /\ connections # <<>>
          /\ Take(q, Head(connections))
          /\ connections' = PoolAfterPop
          /\ window' = window \ {Head(connections)}
          /\ Goto(q, "write")
       \/ /\ connections = <<>>
          /\ Goto(q, "dial")
          /\ UNCHANGED <<conn, connections, window>>
    /\ UNCHANGED <<baseVars, connVars, outcome, drained>>

Dial(q) ==
    /\ pc[q] = "dial"
    /\ \/ /\ connState' = [connState EXCEPT ![q] = "open"]
          /\ Take(q, q)
          /\ Goto(q, "write")
          /\ UNCHANGED outcome
       \/ /\ Finish(q, "end", "error")
          /\ UNCHANGED <<connState, conn>>
    /\ UNCHANGED <<baseVars, deadline, pending, connections, drained, window>>

WriteMessage(q) ==
    /\ pc[q] = "write"
    /\ connState[conn[q]] = "open"
    /\ deadline' = [deadline EXCEPT ![conn[q]] = TRUE]
    /\ pending' = [pending EXCEPT ![conn[q]] = Append(@, q)]
    /\ Goto(q, "read")
    /\ UNCHANGED <<baseVars, connState, conn, outcome, connections, drained, window>>

\* The next answer on the stream, whoever asked for it.
ReadMessage(q) ==
    /\ pc[q] = "read"
    /\ connState[conn[q]] = "open"
    /\ pending[conn[q]] # <<>>
    /\ pending' = [pending EXCEPT ![conn[q]] = Tail(@)]
    /\ Finish(q, "push", Head(pending[conn[q]]))
    /\ UNCHANGED <<baseVars, connState, deadline, conn, connections, drained, window>>

\* Fault: a timed out connection goes back to the pool.
PooledAfterFailure(q) ==
    /\ connections' = Append(connections, conn[q])
    /\ UNCHANGED connState

DiscardFailed(q) ==
    /\ connState' = Closed({conn[q]})
    /\ UNCHANGED connections

\* The write or the read fails: the connection is closed, and a query that
\* used a pooled connection dials one of its own.
ExchangeFails(q) ==
    /\ pc[q] \in {"write", "read"}
    /\ DiscardFailed(q)
    /\ Take(q, None)
    /\ IF conn[q] = q THEN Finish(q, "end", "error")
                      ELSE Goto(q, "dial") /\ UNCHANGED outcome
    /\ UNCHANGED <<baseVars, deadline, pending, drained, window>>

\* Fault: the state is not looked at before the connection is pooled.
PushWhenClosing == FALSE

RefusesPush == Base!Closing

\* Fault: the deadline of the request stays on the pooled connection.
DeadlineKept(c) == deadline

DeadlineCleared(c) == [deadline EXCEPT ![c] = FALSE]

\* The pool lock is held around the look at the state and the push.  Only the
\* state may change in between, and that leaves what a push before it leaves.
PushBack(q) ==
    /\ pc[q] = "push"
    /\ Goto(q, "end")
    /\ Take(q, None)
    /\ \/ /\ RefusesPush
          /\ connState' = Closed({conn[q]})
          /\ UNCHANGED <<connections, deadline, window>>
       \/ /\ ~RefusesPush
          /\ deadline' = DeadlineCleared(conn[q])
          /\ connections' = Append(connections, conn[q])
          /\ window' = IF drained = {} \/ Base!Closing THEN window ELSE window \cup {conn[q]}
          /\ UNCHANGED connState
    /\ UNCHANGED <<baseVars, pending, outcome, drained>>

Return(q) ==
    /\ pc[q] = "end"
    /\ Base!EndQuery(q)
    /\ Goto(q, "done")
    /\ UNCHANGED <<connVars, conn, outcome, connections, drained, window>>

-----------------------------------------------------------------------------
\* The server closes the connection, pooled or in use.
ConnectionLost(c) ==
    /\ connState[c] = "open"
    /\ connState' = Closed({c})
    /\ UNCHANGED <<baseVars, deadline, pending, queryVars, connections, drained, window>>

DrainPool ==
    /\ connState' = Closed(Pool)
    /\ connections' = <<>>
    /\ window' = {}
    /\ UNCHANGED <<baseVars, deadline, pending, queryVars>>

Reset ==
    /\ connections # <<>>
    /\ DrainPool
    /\ UNCHANGED drained

\* Close empties the pool first and shuts the transport down afterwards.
CloseDrain(c) ==
    /\ c \notin drained
    /\ DrainPool
    /\ drained' = drained \cup {c}

CloseShutdown(c) ==
    /\ c \in drained
    /\ Base!Shutdown(c)
    /\ UNCHANGED <<connVars, queryVars, connections, drained, window>>

-----------------------------------------------------------------------------
QueryStep(q) == \/ PopFront(q) \/ Dial(q) \/ WriteMessage(q) \/ ReadMessage(q)
                \/ ExchangeFails(q) \/ PushBack(q) \/ Return(q)

Next ==
    \/ Start \/ Reset
    \/ \E q \in Queries : Exchange(q) \/ QueryStep(q) \/ ConnectionLost(q)
    \/ \E c \in Closers : CloseDrain(c) \/ CloseShutdown(c)

Spec == Init /\ [][Next]_vars

-----------------------------------------------------------------------------
(* Properties.                                                             *)

\* A connection is used by one query at a time and is not pooled meanwhile.
Exclusive ==
    /\ \A q, r \in Queries : conn[q] # None /\ conn[q] = conn[r] => q = r
    /\ \A q \in Queries : conn[q] # None => conn[q] \notin Pool
    /\ Len(connections) = Cardinality(Pool)

\* A query reads the answer to its own request: no two queries share a
\* connection, and no answer that an earlier query gave up on is left on one
\* taken from the pool.
AnswersOwn == Exclusive /\ \A q \in Queries : outcome[q] \in {None, q, "error"}

\* Every open connection is pooled or in use by a query, and the pooled ones
\* carry no deadline of the query that used them before.
NoConnectionLost ==
    /\ \A c \in Queries : connState[c] = "open" =>
            c \in Pool \/ \E q \in Queries : conn[q] = c
    /\ \A c \in Pool : ~deadline[c]

\* Close leaves nothing in the pool but what was pooled between its emptying
\* of the pool and the change of state that keeps connections out.
OnlyWindowSurvives ==
    Base!Closing /\ Closers \subseteq drained => Pool \subseteq window
=============================================================================
