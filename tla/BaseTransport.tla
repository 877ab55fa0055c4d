--------------------------- MODULE BaseTransport ---------------------------
(***************************************************************************)
(* The lifecycle the UDP, TLS and QUIC DNS transports share                *)
(* (dns/transport/base.go): a state, a count of the queries in flight, and *)
(* a Shutdown that refuses new queries, cancels the close context and      *)
(* waits until the running ones end or its own context times out.          *)
(*                                                                         *)
(* A member of Queries is a goroutine inside Exchange, a member of Closers *)
(* one call of Close.  Sections under t.mutex are one action.              *)
(***************************************************************************)
EXTENDS Integers, FiniteSets

CONSTANTS Queries, Closers

VARIABLES
    state,            \* t.state
    inFlight,         \* t.inFlight
    queriesComplete,  \* t.queriesComplete is not nil
    completeClosed,   \* the channel t.queriesComplete was is closed
    closeCtxDone,     \* t.closeCtx is cancelled
    active,           \* the queries between BeginQuery and EndQuery
    shut              \* where each call of Shutdown stands

baseVars == <<state, inFlight, queriesComplete, completeClosed, closeCtxDone,
              active, shut>>

\* A Shutdown call cancels the context after the unlock ("cancel" before a
\* return, "cancelWait" before the select), waits, and returns: at once, with
\* all queries complete, or with the error of its own context.
Returned == {"returned", "drained", "timeout"}

BaseTypeOK ==
    /\ state \in {"new", "started", "closing", "closed"}
    /\ inFlight \in 0..Cardinality(Queries)
    /\ queriesComplete \in BOOLEAN
    /\ completeClosed \in BOOLEAN
    /\ closeCtxDone \in BOOLEAN
    /\ active \in SUBSET Queries
    /\ shut \in [Closers -> {"idle", "cancel", "cancelWait", "wait"} \cup Returned]

BaseInit ==
    /\ state = "new"
    /\ inFlight = 0
    /\ queriesComplete = FALSE
    /\ completeClosed = FALSE
    /\ closeCtxDone = FALSE
    /\ active = {}
    /\ shut = [c \in Closers |-> "idle"]

-----------------------------------------------------------------------------
Closing == state \in {"closing", "closed"}

\* Fails without effect once the transport closes.
SetStarted ==
    /\ state = "new"
    /\ state' = "started"
    /\ UNCHANGED <<inFlight, queriesComplete, completeClosed, closeCtxDone,
                   active, shut>>

\* Fault: queries are refused only after the transport has closed.
AcceptWhileClosing == state # "closed"

AcceptsQueries == state = "started"

BeginQuery(q) ==
    /\ q \notin active
    /\ AcceptsQueries
    /\ active' = active \cup {q}
    /\ inFlight' = inFlight + 1
    /\ UNCHANGED <<state, queriesComplete, completeClosed, closeCtxDone, shut>>

\* Fault: the channel is closed only by a query that ends before the last.
SignalTooEarly(n) == n = 1

\* Fault: the last query is expected to find nobody before it.
SignalNever(n) == n < 0

SignalsComplete(n) == n = 0

CountAfterEnd == IF inFlight > 0 THEN inFlight - 1 ELSE inFlight

FieldAfter(signal) == queriesComplete /\ ~signal

EndQuery(q) ==
    /\ q \in active
    /\ active' = active \ {q}
    /\ inFlight' = CountAfterEnd
    /\ LET signal == SignalsComplete(CountAfterEnd) /\ queriesComplete
       IN  /\ completeClosed' = (completeClosed \/ signal)
           /\ queriesComplete' = FieldAfter(signal)
    /\ UNCHANGED <<state, closeCtxDone, shut>>

-----------------------------------------------------------------------------
(* Shutdown, called by Close with a timeout.                               *)

ShutdownAgain(c) ==
    /\ shut[c] = "idle"
    /\ Closing
    /\ shut' = [shut EXCEPT ![c] = "returned"]
    /\ UNCHANGED <<state, inFlight, queriesComplete, completeClosed,
                   closeCtxDone, active>>

ShutdownIdle(c) ==
    /\ shut[c] = "idle"
    /\ state = "new" \/ (state = "started" /\ inFlight = 0)
    /\ state' = "closed"
    /\ shut' = [shut EXCEPT ![c] = "cancel"]
    /\ UNCHANGED <<inFlight, queriesComplete, completeClosed, closeCtxDone,
                   active>>

ShutdownBusy(c) ==
    /\ shut[c] = "idle"
    /\ state = "started" /\ inFlight # 0
    /\ state' = "closing"
    /\ queriesComplete' = TRUE
    /\ shut' = [shut EXCEPT ![c] = "cancelWait"]
    /\ UNCHANGED <<inFlight, completeClosed, closeCtxDone, active>>

CloseContextAfter(c) == TRUE

closeCancel(c) ==
    /\ shut[c] \in {"cancel", "cancelWait"}
    /\ closeCtxDone' = CloseContextAfter(c)
    /\ shut' = [shut EXCEPT ![c] = IF @ = "cancel" THEN "returned" ELSE "wait"]
    /\ UNCHANGED <<state, inFlight, queriesComplete, completeClosed, active>>

ShutdownDrained(c) ==
    /\ shut[c] = "wait"
    /\ completeClosed
    /\ state' = "closed"
    /\ shut' = [shut EXCEPT ![c] = "drained"]
    /\ UNCHANGED <<inFlight, queriesComplete, completeClosed, closeCtxDone,
                   active>>

\* Fault: the wait has no timeout.
NoTimeout == FALSE

\* The context Close passes has a timeout, which may pass at any time.
TimesOut == TRUE

ShutdownTimeout(c) ==
    /\ shut[c] = "wait"
    /\ TimesOut
    /\ state' = "closed"
    /\ shut' = [shut EXCEPT ![c] = "timeout"]
    /\ UNCHANGED <<inFlight, queriesComplete, completeClosed, closeCtxDone,
                   active>>

Shutdown(c) == \/ ShutdownAgain(c) \/ ShutdownIdle(c) \/ ShutdownBusy(c)
               \/ closeCancel(c) \/ ShutdownDrained(c) \/ ShutdownTimeout(c)

BaseNext == \/ SetStarted
            \/ \E q \in Queries : BeginQuery(q) \/ EndQuery(q)
            \/ \E c \in Closers : Shutdown(c)

BaseSpec == BaseInit /\ [][BaseNext]_baseVars

-----------------------------------------------------------------------------
(* Properties.                                                             *)

\* t.inFlight counts the queries between BeginQuery and EndQuery exactly, so
\* the guard against a negative count never hides a lost or doubled EndQuery.
InFlightExact == inFlight = Cardinality(active)

\* A Shutdown that reports completion leaves no query behind, then and later.
DrainedMeansIdle == \A c \in Closers : shut[c] = "drained" => active = {}

\* The wake-up is not lost: when the last query has ended, the Shutdown that
\* waits for it finds the channel closed, whatever order the two locked in.
NoLostWakeup ==
    \A c \in Closers : shut[c] = "wait" /\ active = {} => completeClosed

\* The channel is closed once: the field is nil after it, so no EndQuery can
\* close a closed channel.
CompleteClosedOnce == completeClosed => ~queriesComplete

\* A query that runs while the transport is closing is told so: once no
\* Shutdown stands between its unlock and closeCancel, the context is done.
CloseCancels ==
    Closing /\ (\A c \in Closers : shut[c] \notin {"cancel", "cancelWait"})
        => closeCtxDone

\* What Shutdown promises, to the queries and to its callers: the count of
\* queries is exact, completion is reported only for an idle transport, the
\* wake-up is neither lost nor given twice, and the queries are told to stop.
ShutdownContract ==
    /\ InFlightExact
    /\ DrainedMeansIdle
    /\ NoLostWakeup
    /\ CompleteClosedOnce
    /\ CloseCancels
=============================================================================
