--------------------------- MODULE MCURLTestGroup ---------------------------
(***************************************************************************)
(* A urltest group (protocol/group/urltest.go) is its ticker, which this   *)
(* module models, and the tests with the selection, which URLTestGroup     *)
(* models; at the end of the module a behaviour is one of either half.     *)
(*                                                                         *)
(* The first dial starts the ticker with a goroutine that tests the        *)
(* outbounds at every tick, until the group is idle or closed.  Of the     *)
(* tests themselves only the flag that lets one run at a time is kept.     *)
(* Time is the age of lastActive: 0, 1 beyond the interval, 2 beyond       *)
(* idleTimeout, which is no shorter.  A section under g.access is one      *)
(* action; the goroutine reads g.ticker and lastActive without it.         *)
(***************************************************************************)
EXTENDS Integers

CONSTANTS
    MaxTickers,  \* bound: starts of the ticker
    MaxTouches,  \* bound: dials
    MaxCalls,    \* bound: tests asked for by a user
    None

VARIABLES
    started,   \* g.started: "no"; "yes"; "tested" once PostStart's goroutine ran
    age,
    ticker,    \* g.ticker: the number of the current one, or None
    tickers,   \* the tickers made so far
    tick,      \* the current ticker's channel holds a tick
    stopped,   \* the current ticker is stopped
    closed,    \* g.close
    loop,      \* where the goroutine loopCheck of each ticker is
    checking,  \* g.checking: None, or the loop that tests, 0 for another caller
    touches,
    calls

tickerVars == <<ticker, tickers, tick, stopped>>
vars == <<started, age, tickerVars, closed, loop, checking, touches, calls>>

Loops == 1..MaxTickers
Live(i) == loop[i] \notin {"none", "done"}

Init ==
    /\ started = "no" /\ age = 0
    /\ ticker = None /\ tickers = 0 /\ tick = FALSE /\ stopped = FALSE /\ closed = FALSE
    /\ loop = [i \in Loops |-> "none"]
    /\ checking = None /\ touches = 0 /\ calls = 0

-----------------------------------------------------------------------------
\* urlTest returns at once if another runs, and otherwise takes its time.
CallTest(by) == checking' = IF checking = None THEN by ELSE checking

\* Where a loop continues that has called urlTest.
AfterCall == IF checking = None THEN "testing" ELSE "wait"

TestReturns ==
    /\ checking # None /\ checking' = None
    /\ loop' = IF checking = 0 THEN loop ELSE [loop EXCEPT ![checking] = "wait"]
    /\ UNCHANGED <<started, age, tickerVars, closed, touches, calls>>

\* PostStart, and the goroutine it starts.
PostStart ==
    /\ started = "no" /\ started' = "yes" /\ age' = 0
    /\ UNCHANGED <<tickerVars, closed, loop, checking, touches, calls>>

PostStartTest ==
    /\ started = "yes" /\ started' = "tested"
    /\ CallTest(0)
    /\ UNCHANGED <<age, tickerVars, closed, loop, touches, calls>>

\* URLTest and CheckOutbounds, called by a user of the group.
Call ==
    /\ calls < MaxCalls /\ calls' = calls + 1
    /\ CallTest(0)
    /\ UNCHANGED <<started, age, tickerVars, closed, loop, touches>>

\* Fault: the ticker is made without a look at the one there is.
AlwaysNew == TRUE

NeedsTicker == ticker = None

Touch ==
    /\ touches < MaxTouches /\ touches' = touches + 1
    /\ IF started = "no" THEN UNCHANGED <<age, tickerVars, loop>>
       ELSE IF NeedsTicker
       THEN /\ tickers < MaxTickers
            /\ tickers' = tickers + 1 /\ ticker' = tickers + 1
            /\ tick' = FALSE /\ stopped' = FALSE
            /\ loop' = [loop EXCEPT ![tickers + 1] = "first"]
            /\ UNCHANGED age
       ELSE age' = 0 /\ UNCHANGED <<tickerVars, loop>>
    /\ UNCHANGED <<started, closed, checking, calls>>

\* Close, which leaves g.ticker as it is, and g.close open without a ticker.
Close ==
    /\ ticker # None /\ ~closed
    /\ stopped' = TRUE /\ closed' = TRUE
    /\ UNCHANGED <<started, age, ticker, tickers, tick, loop, checking, touches, calls>>

\* Time passes, and the ticker ticks; its channel holds one tick.
Elapse ==
    /\ started # "no" /\ age < 2 /\ age' = age + 1
    /\ UNCHANGED <<started, tickerVars, closed, loop, checking, touches, calls>>

Tick ==
    /\ ticker # None /\ ~stopped /\ ~tick /\ tick' = TRUE
    /\ UNCHANGED <<started, age, ticker, tickers, stopped, closed, loop, checking, touches, calls>>

\* The start of loopCheck, which tests at once if the group was inactive.
LoopFirst(i) ==
    /\ loop[i] = "first"
    /\ IF age = 0 THEN loop' = [loop EXCEPT ![i] = "wait"] /\ UNCHANGED <<age, checking>>
       ELSE loop' = [loop EXCEPT ![i] = AfterCall] /\ age' = 0 /\ CallTest(i)
    /\ UNCHANGED <<started, tickerVars, closed, touches, calls>>

\* The select of loopCheck: g.close, or a tick.
LoopClosed(i) ==
    /\ loop[i] = "wait" /\ closed
    /\ loop' = [loop EXCEPT ![i] = "done"]
    /\ UNCHANGED <<started, age, tickerVars, closed, checking, touches, calls>>

\* Fault: the loop never finds the group idle.
NeverIdle == FALSE

Idle == age = 2

LoopTick(i) ==
    /\ loop[i] = "wait" /\ tick /\ tick' = FALSE
    /\ IF Idle THEN loop' = [loop EXCEPT ![i] = "stop"] /\ UNCHANGED checking
       ELSE loop' = [loop EXCEPT ![i] = AfterCall] /\ CallTest(i)
    /\ UNCHANGED <<started, age, ticker, tickers, stopped, closed, touches, calls>>

\* The group was idle when the loop looked; now it takes the lock and stops.
LoopStop(i) ==
    /\ loop[i] = "stop"
    /\ ticker' = None /\ tick' = FALSE /\ stopped' = FALSE
    /\ loop' = [loop EXCEPT ![i] = "done"]
    /\ UNCHANGED <<started, age, tickers, closed, checking, touches, calls>>

LoopStep(i) == LoopFirst(i) \/ LoopClosed(i) \/ LoopTick(i) \/ LoopStop(i)

Next ==
    \/ PostStart \/ PostStartTest \/ TestReturns \/ Call \/ Touch \/ Close \/ Elapse \/ Tick
    \/ \E i \in Loops : LoopStep(i)

\* Goroutines go on, tests have a timeout, time passes and tickers tick.
Fairness ==
    /\ \A i \in Loops : WF_vars(LoopStep(i))
    /\ WF_vars(TestReturns) /\ WF_vars(Elapse) /\ WF_vars(Tick)

Spec == Init /\ [][Next]_vars /\ Fairness

-----------------------------------------------------------------------------
TypeOK ==
    /\ started \in {"no", "yes", "tested"} /\ age \in 0..2
    /\ ticker \in 1..tickers \cup {None} /\ tickers \in 0..MaxTickers
    /\ {tick, stopped, closed} \subseteq BOOLEAN
    /\ loop \in [Loops -> {"none", "first", "wait", "testing", "stop", "done"}]
    /\ checking \in 0..MaxTickers \cup {None}
    /\ touches \in 0..MaxTouches /\ calls \in 0..MaxCalls

\* A goroutine loopCheck lives only for the ticker that g.ticker holds, so
\* that the pointer it reads without the lock is never nil nor another's; and
\* a ticker has its goroutine for as long as the group is not closed.
LoopOwnsTicker ==
    /\ \A i \in Loops : Live(i) => ticker = i
    /\ ticker # None /\ ~closed => Live(ticker)

\* Once nobody dials any more the group comes to rest, closed or not: no
\* goroutine goes on ticking and testing.
ComesToRest == <>[](\A i \in Loops : ~Live(i))

-----------------------------------------------------------------------------
(* The two halves.                                                         *)

CONSTANTS Outbounds, Supports, Delays, Tolerance, Width, Dialers

VARIABLES half, test, scan, history, selected, dial, external

Group == INSTANCE URLTestGroup

groupVars == <<test, scan, history, selected, dial, external>>

\* The first outbound of the list carries no UDP.
MCOutbounds == <<"a", "b", "c">>
MCSupports == [o \in {"a", "b", "c"} |-> IF o = "a" THEN {"tcp"} ELSE {"tcp", "udp"}]

\* The selection before any dial, with one choice of the dials' parameters.
AtRest ==
    /\ Group!Init /\ external = FALSE
    /\ \A d \in Dialers : dial[d] = [Group!NoDial EXCEPT !.net = "tcp"]

\* The flag is left out where no connection is external.
FlagMatters == external => \E d \in Dialers : dial[d].external

MCInit == /\ Init
          /\ \/ half = "selection" /\ Group!Init /\ FlagMatters
             \/ half = "ticker" /\ AtRest

MCNext == /\ \/ half = "selection" /\ Group!Next /\ UNCHANGED vars
             \/ half = "ticker" /\ Next /\ UNCHANGED groupVars
          /\ UNCHANGED half

MCSpec == MCInit /\ [][MCNext]_<<vars, groupVars, half>> /\ Fairness

\* The variables have their types, and between tests no connection that
\* Interrupt may close has outlived the selection it belongs to, the one it met
\* when it entered the group or the first one after that (performUpdateCheck,
\* interrupt.Group).
NoStaleConnection == TypeOK /\ Group!NoStaleConnection

\* A selection once made is given up only for an outbound that was measured
\* faster, by more than the tolerance (Select).
SwitchJustified == Group!SwitchJustified
=============================================================================
