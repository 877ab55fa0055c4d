------------------------ MODULE URLTestGroupProofs ------------------------
(***************************************************************************)
(* Proofs about a urltest group: its ticker, for any number of tickers, and *)
(* its selection, for any list of outbounds, any delays and any dials.      *)
(***************************************************************************)
EXTENDS MCURLTestGroup, Sequences, TLAPS

\* Tests are attributed to the loops that wait for them, and the loops of
\* tickers to come do not run.
Inv ==
    /\ tickers \in Nat /\ ticker \in 1..tickers \cup {None}
    /\ loop \in [Loops -> {"none", "first", "wait", "testing", "stop", "done"}]
    /\ checking \in Loops \cup {0, None}
    /\ \A i \in Loops : loop[i] = "testing" <=> checking = i
    /\ \A i \in Loops : Live(i) => ticker = i
    /\ ticker # None /\ ~closed => ticker \in Loops /\ Live(ticker)

\* The numbers of the tickers, and the bounds on what is counted.
Numbered == MaxTickers \in Nat /\ MaxTouches \in Nat /\ MaxCalls \in Nat /\ None \notin Int

LEMMA Inductive == ASSUME Numbered, Inv, [Next]_vars PROVE Inv'
<1> USE DEF Numbered, Loops
<1>1. CASE PostStart \/ PostStartTest \/ Call
  BY <1>1 DEF PostStart, PostStartTest, Call, CallTest, Inv, Live, tickerVars
<1>2. CASE TestReturns
  BY <1>2 DEF TestReturns, Inv, Live, tickerVars
<1>3. CASE Touch
  <2>1. CASE UNCHANGED <<tickerVars, loop>>
    BY <1>3, <2>1 DEF Touch, Inv, Live, tickerVars
  <2>2. CASE /\ ticker = None /\ tickers < MaxTickers
             /\ tickers' = tickers + 1 /\ ticker' = tickers + 1
             /\ loop' = [loop EXCEPT ![tickers + 1] = "first"]
    <3>1. \A i \in Loops : loop[i] \in {"none", "done"}
      BY <2>2 DEF Inv, Live
    <3>2. UNCHANGED <<closed, checking>>
      BY <1>3 DEF Touch
    <3> QED
      BY <2>2, <3>1, <3>2 DEF Inv, Live
  <2> QED
    BY <1>3, <2>1, <2>2 DEF Touch, NeedsTicker
<1>4. CASE Close \/ Elapse \/ Tick
  BY <1>4 DEF Close, Elapse, Tick, Inv, Live, tickerVars
<1>5. ASSUME NEW i \in Loops, LoopFirst(i) PROVE Inv'
  BY <1>5 DEF LoopFirst, AfterCall, CallTest, Inv, Live, tickerVars
<1>6. ASSUME NEW i \in Loops, LoopClosed(i) PROVE Inv'
  BY <1>6 DEF LoopClosed, Inv, Live, tickerVars
<1>7. ASSUME NEW i \in Loops, LoopTick(i) PROVE Inv'
  BY <1>7 DEF LoopTick, AfterCall, CallTest, Inv, Live, tickerVars
<1>8. ASSUME NEW i \in Loops, LoopStop(i) PROVE Inv'
  BY <1>8 DEF LoopStop, Inv, Live, tickerVars
<1>9. CASE UNCHANGED vars
  BY <1>9 DEF vars, Inv, Live, tickerVars
<1> QED
  BY <1>1, <1>2, <1>3, <1>4, <1>5, <1>6, <1>7, <1>8, <1>9 DEF Next, LoopStep

\* A goroutine loopCheck owns the ticker it reads without the lock, however many
\* dials, idle times and tickers there are (LoopOwnsTicker of Touch, loopCheck
\* and Close).
THEOREM LoopOwnsTickerHolds == ASSUME Numbered PROVE Spec => []LoopOwnsTicker
<1>1. Init => Inv
  BY DEF Init, Inv, Live, Loops, Numbered
<1>2. Inv /\ [Next]_vars => Inv'
  BY Inductive
<1>3. Inv => LoopOwnsTicker
  BY DEF Inv, LoopOwnsTicker
<1> QED
  BY <1>1, <1>2, <1>3, PTL DEF Spec

LEMMA TickerTyped == ASSUME Numbered, Inv, TypeOK, [Next]_vars PROVE TypeOK'
<1> USE DEF Numbered, tickerVars
<1>1. tick' \in BOOLEAN /\ stopped' \in BOOLEAN /\ closed' \in BOOLEAN
  <2>1. tick \in BOOLEAN /\ stopped \in BOOLEAN /\ closed \in BOOLEAN
    BY DEF TypeOK
  <2>2. /\ tick' \in {tick, TRUE, FALSE} /\ stopped' \in {stopped, TRUE, FALSE} /\ closed' \in {closed, TRUE}
    BY ZenonT(30) DEF Next, vars, PostStart, PostStartTest, TestReturns, Call, Touch, Close, Elapse, Tick,
           LoopStep, LoopFirst, LoopClosed, LoopTick, LoopStop
  <2> QED
    BY ZenonT(30), <2>1, <2>2
<1>2. started' \in {"no", "yes", "tested"} /\ age' \in 0 .. 2
  BY DEF TypeOK, Next, vars, PostStart, PostStartTest, TestReturns, Call, Touch, Close, Elapse, Tick,
         LoopStep, LoopFirst, LoopClosed, LoopTick, LoopStop
<1>3. touches' \in 0 .. MaxTouches /\ calls' \in 0 .. MaxCalls /\ tickers' \in 0 .. MaxTickers
  BY DEF TypeOK, Next, vars, PostStart, PostStartTest, TestReturns, Call, Touch, Close, Elapse, Tick,
         LoopStep, LoopFirst, LoopClosed, LoopTick, LoopStop
<1>4. Inv'
  BY Inductive
<1> QED
  BY <1>1, <1>2, <1>3, <1>4 DEF TypeOK, Inv, Loops

\* The ticker's variables keep their types.
THEOREM TickerTypeCorrect == ASSUME Numbered PROVE Spec => []TypeOK
<1>1. Init => Inv /\ TypeOK
  <2>1. Init => Inv
    BY DEF Init, Inv, Live, Loops, Numbered
  <2>2. ASSUME Init PROVE TypeOK
    <3>1. tick \in BOOLEAN /\ stopped \in BOOLEAN /\ closed \in BOOLEAN
      BY <2>2, Zenon DEF Init
    <3>2. /\ started \in {"no", "yes", "tested"} /\ age \in 0 .. 2
          /\ ticker \in 1 .. tickers \cup {None} /\ tickers \in 0 .. MaxTickers
          /\ loop \in [Loops -> {"none", "first", "wait", "testing", "stop", "done"}]
          /\ checking \in 0 .. MaxTickers \cup {None}
          /\ touches \in 0 .. MaxTouches /\ calls \in 0 .. MaxCalls
      BY <2>2 DEF Init, Numbered
    <3> QED
      BY <3>1, <3>2 DEF TypeOK
  <2> QED
    BY <2>1, <2>2
<1>2. Inv /\ TypeOK /\ [Next]_vars => Inv' /\ TypeOK'
  BY Inductive, TickerTyped
<1> QED
  BY <1>1, <1>2, PTL DEF Spec

-----------------------------------------------------------------------------
(* The selection. *)

Nets == {"tcp", "udp"}
Tests == [pc : {"none", "walk", "select", "interrupt"}, next : Nat \ {0}, testing : SUBSET Group!Members,
          net : 1 .. 2, updated : BOOLEAN]
Scans == [i : 0 .. (Len(Outbounds) + 1), min : Group!Members \cup {None}, minDelay : Nat, seen : Nat \cup {None}]
Dials == [pc : {"load", "select", "dial", "enter", "open", "closed"}, net : Nets, external : BOOLEAN,
          via : Group!Members \cup {None}, scan : Scans, since : Group!Members \cup {None}]

\* The outbounds are a list, the delays are numbers, and None is neither.
GroupNamed ==
    /\ Outbounds \in Seq(Group!Members) /\ Supports \in [Group!Members -> SUBSET Nets]
    /\ Delays \subseteq Nat /\ Tolerance \in Nat /\ Width \in Nat
    /\ None \notin Nat /\ None \notin Group!Members

\* No measured delay is so long that the tolerance takes it over the width.
NoOverflow == \A delay \in Delays : delay + Tolerance < Width

GroupTyped ==
    /\ test \in Tests /\ scan \in Scans
    /\ history \in [Group!Members -> Delays \cup {None}]
    /\ selected \in [Nets -> Group!Members \cup {None}]
    /\ \A n \in Nets : selected[n] # None => n \in Supports[selected[n]]
    /\ dial \in [Dialers -> Dials] /\ external \in BOOLEAN
    /\ \A d \in Dialers : dial[d].pc \in {"dial", "enter", "open"} => dial[d].via # None

\* The scan of a test is for one network, and found an outbound for it.
Scanning ==
    /\ test.pc # "select" => scan = Group!NoScan
    /\ test.pc = "select" /\ scan.min # None => Group!Networks[test.net] \in Supports[scan.min]

\* Until a connection that belongs to another selection is interrupted, the test
\* knows that it has to.
Reaches(d) == dial[d].pc = "open" /\ (~dial[d].external \/ external)
Interrupts ==
    /\ test.pc \in {"none", "walk"} \/ (test.pc = "select" /\ test.net = 1) => ~test.updated
    /\ test.pc = "walk" => test.net = 1
    /\ ~test.updated => \A d \in Dialers : Reaches(d) => dial[d].since = selected[dial[d].net]

GroupInv == GroupTyped /\ Scanning /\ Interrupts

LEMMA GroupNets == Group!Range(Group!Networks) = Nets /\ Group!Networks[1] = "tcp" /\ Group!Networks[2] = "udp"
                   /\ Len(Group!Networks) = 2
  BY DEF Group!Range, Group!Networks, Nets

LEMMA GroupMember == ASSUME GroupNamed, NEW i \in 1 .. Len(Outbounds) PROVE Outbounds[i] \in Group!Members
  BY DEF GroupNamed

\* One load of the history keeps a scan a scan for its network.
LEMMA GroupScanStep ==
    ASSUME GroupNamed, GroupTyped, NEW s \in Scans, NEW n \in Nets, ~Group!Scanned(s)
    PROVE  /\ Group!ScanStep(s, n) \in Scans
           /\ (s.min # None => n \in Supports[s.min]) =>
                  (Group!ScanStep(s, n).min # None => n \in Supports[Group!ScanStep(s, n).min])
<1> USE DEF GroupNamed
<1>1. Len(Outbounds) \in Nat /\ s.i \in 0 .. Len(Outbounds)
  BY DEF Scans, Group!Scanned
<1>2. \A o \in Group!Members : history[o] # None => history[o] \in Nat
  BY ZenonT(30) DEF GroupTyped
<1>3. CASE s.i = 0
  <2>1. /\ Group!ScanStep(s, n) \in Scans
        /\ \/ Group!ScanStep(s, n).min = s.min
           \/ Group!ScanStep(s, n).min = selected[n] /\ selected[n] # None
    <3>1. CASE selected[n] # None /\ history[selected[n]] # None
      <4>1. Group!ScanStep(s, n) = [i |-> 1, min |-> selected[n], minDelay |-> history[selected[n]],
                                  seen |-> history[selected[n]]]
        BY <1>3, <3>1 DEF Group!ScanStep, Group!ScanCurrent
      <4>2. selected[n] \in Group!Members /\ history[selected[n]] \in Nat
        BY <1>2, <3>1 DEF GroupTyped
      <4> QED
        BY <1>1, <3>1, <4>1, <4>2 DEF Scans
    <3>2. CASE ~(selected[n] # None /\ history[selected[n]] # None)
      <4>1. Group!ScanStep(s, n) = [s EXCEPT !.i = 1]
        BY <1>3, <3>2 DEF Group!ScanStep, Group!ScanCurrent
      <4> QED
        BY <1>1, <4>1 DEF Scans
    <3> QED
      BY <3>1, <3>2
  <2> QED
    BY <2>1 DEF GroupTyped
<1>4. CASE s.i # 0
  <2> DEFINE o == Outbounds[s.i]
  <2>1. o \in Group!Members /\ (history[o] # None => history[o] \in Nat)
    BY <1>1, <1>2, <1>4, GroupMember
  <2>2. /\ Group!ScanStep(s, n) \in Scans
        /\ \/ Group!ScanStep(s, n).min = s.min
           \/ Group!ScanStep(s, n).min = o /\ n \in Supports[o]
    <3> HIDE DEF o
    <3>1. Group!ScanStep(s, n) =
            IF n \in Supports[o] /\ history[o] # None /\ Group!Better(history[o], s.minDelay)
            THEN [i |-> s.i + 1, min |-> o, minDelay |-> history[o],
                  seen |-> IF history[o] = 0 THEN 0 ELSE s.seen]
            ELSE [s EXCEPT !.i = @ + 1]
      BY <1>4 DEF Group!ScanStep, Group!ScanNext, o
    <3>2. [s EXCEPT !.i = @ + 1] \in Scans /\ [s EXCEPT !.i = @ + 1].min = s.min
      BY SMTT(30), <1>1 DEF Scans
    <3>3. ASSUME history[o] # None
          PROVE  LET w == [i |-> s.i + 1, min |-> o, minDelay |-> history[o],
                           seen |-> IF history[o] = 0 THEN 0 ELSE s.seen]
                 IN  w \in Scans /\ w.min = o
      BY <1>1, <2>1, <3>3 DEF Scans
    <3> QED
      BY <3>1, <3>2, <3>3
  <2> QED
    BY <2>2
<1> QED
  BY <1>3, <1>4

LEMMA GroupSelect ==
    ASSUME GroupNamed, NEW s \in Scans, NEW n \in Nets
    PROVE  /\ Group!Select(s, n) \in Group!Members \cup {None}
           /\ (s.min # None => n \in Supports[s.min]) =>
                  (Group!Select(s, n) # None => n \in Supports[Group!Select(s, n)])
<1> USE DEF GroupNamed
<1>1. CASE s.min # None
  BY <1>1 DEF Group!Select, Scans
<1>2. CASE s.min = None /\ Group!FirstSupporting(n) # {}
  <2> DEFINE i == CHOOSE i \in Group!FirstSupporting(n) : TRUE
  <2>1. i \in Group!FirstSupporting(n)
    BY <1>2
  <2>2. i \in 1 .. Len(Outbounds) /\ n \in Supports[Outbounds[i]]
    BY <2>1 DEF Group!FirstSupporting
  <2>3. Group!Select(s, n) = Outbounds[i]
    BY <1>2 DEF Group!Select
  <2> QED
    BY <2>2, <2>3, GroupMember
<1>3. CASE s.min = None /\ Group!FirstSupporting(n) = {}
  BY <1>3 DEF Group!Select
<1> QED
  BY <1>1, <1>2, <1>3
-----------------------------------------------------------------------------
(* Steps of the selection.                                                 *)

\* What a change of some fields makes of a record.
LEMMA TestExcept ==
    ASSUME NEW v, NEW p, NEW k, NEW S, NEW n, NEW u,
           v = [pc |-> v.pc, next |-> v.next, testing |-> v.testing, net |-> v.net, updated |-> v.updated]
    PROVE  /\ [v EXCEPT !.next = k, !.testing = S]
              = [pc |-> v.pc, next |-> k, testing |-> S, net |-> v.net, updated |-> v.updated]
           /\ [v EXCEPT !.pc = p, !.next = k]
              = [pc |-> p, next |-> k, testing |-> v.testing, net |-> v.net, updated |-> v.updated]
           /\ [v EXCEPT !.net = n, !.updated = u]
              = [pc |-> v.pc, next |-> v.next, testing |-> v.testing, net |-> n, updated |-> u]
           /\ [v EXCEPT !.pc = p, !.updated = u]
              = [pc |-> p, next |-> v.next, testing |-> v.testing, net |-> v.net, updated |-> u]
<1>1. ASSUME NEW w, w = [pc |-> w.pc, next |-> w.next, testing |-> w.testing, net |-> w.net, updated |-> w.updated]
      PROVE  /\ [w EXCEPT !.pc = p]
                = [pc |-> p, next |-> w.next, testing |-> w.testing, net |-> w.net, updated |-> w.updated]
             /\ [w EXCEPT !.next = k]
                = [pc |-> w.pc, next |-> k, testing |-> w.testing, net |-> w.net, updated |-> w.updated]
             /\ [w EXCEPT !.testing = S]
                = [pc |-> w.pc, next |-> w.next, testing |-> S, net |-> w.net, updated |-> w.updated]
             /\ [w EXCEPT !.net = n]
                = [pc |-> w.pc, next |-> w.next, testing |-> w.testing, net |-> n, updated |-> w.updated]
             /\ [w EXCEPT !.updated = u]
                = [pc |-> w.pc, next |-> w.next, testing |-> w.testing, net |-> w.net, updated |-> u]
  BY <1>1
<1>2. [v EXCEPT !.next = k, !.testing = S]
      = [pc |-> v.pc, next |-> k, testing |-> S, net |-> v.net, updated |-> v.updated]
  <2> DEFINE w1 == [v EXCEPT !.next = k]
  <2> DEFINE w2 == [w1 EXCEPT !.testing = S]
  <2>0. [v EXCEPT !.next = k, !.testing = S] = w2
    OBVIOUS
  <2>1. w1 = [pc |-> v.pc, next |-> k, testing |-> v.testing, net |-> v.net, updated |-> v.updated]
    BY <1>1, Zenon
  <2>2. w2 = [pc |-> v.pc, next |-> k, testing |-> S, net |-> v.net, updated |-> v.updated]
    <3> HIDE DEF w1
    <3>1. w1 = [pc |-> w1.pc, next |-> w1.next, testing |-> w1.testing, net |-> w1.net, updated |-> w1.updated]
      BY <2>1
    <3>2. w2 = [pc |-> w1.pc, next |-> w1.next, testing |-> S, net |-> w1.net, updated |-> w1.updated]
      BY <1>1, <3>1, Zenon
    <3> QED
      BY <2>1, <3>2
  <2> QED
    BY <2>0, <2>2, Zenon
<1>3. [v EXCEPT !.pc = p, !.next = k]
      = [pc |-> p, next |-> k, testing |-> v.testing, net |-> v.net, updated |-> v.updated]
  <2> DEFINE w1 == [v EXCEPT !.pc = p]
  <2> DEFINE w2 == [w1 EXCEPT !.next = k]
  <2>0. [v EXCEPT !.pc = p, !.next = k] = w2
    OBVIOUS
  <2>1. w1 = [pc |-> p, next |-> v.next, testing |-> v.testing, net |-> v.net, updated |-> v.updated]
    BY <1>1, Zenon
  <2>2. w2 = [pc |-> p, next |-> k, testing |-> v.testing, net |-> v.net, updated |-> v.updated]
    <3> HIDE DEF w1
    <3>1. w1 = [pc |-> w1.pc, next |-> w1.next, testing |-> w1.testing, net |-> w1.net, updated |-> w1.updated]
      BY <2>1
    <3>2. w2 = [pc |-> w1.pc, next |-> k, testing |-> w1.testing, net |-> w1.net, updated |-> w1.updated]
      BY <1>1, <3>1, Zenon
    <3> QED
      BY <2>1, <3>2
  <2> QED
    BY <2>0, <2>2, Zenon
<1>4. [v EXCEPT !.net = n, !.updated = u]
      = [pc |-> v.pc, next |-> v.next, testing |-> v.testing, net |-> n, updated |-> u]
  <2> DEFINE w1 == [v EXCEPT !.net = n]
  <2> DEFINE w2 == [w1 EXCEPT !.updated = u]
  <2>0. [v EXCEPT !.net = n, !.updated = u] = w2
    OBVIOUS
  <2>1. w1 = [pc |-> v.pc, next |-> v.next, testing |-> v.testing, net |-> n, updated |-> v.updated]
    BY <1>1, Zenon
  <2>2. w2 = [pc |-> v.pc, next |-> v.next, testing |-> v.testing, net |-> n, updated |-> u]
    <3> HIDE DEF w1
    <3>1. w1 = [pc |-> w1.pc, next |-> w1.next, testing |-> w1.testing, net |-> w1.net, updated |-> w1.updated]
      BY <2>1
    <3>2. w2 = [pc |-> w1.pc, next |-> w1.next, testing |-> w1.testing, net |-> w1.net, updated |-> u]
      BY <1>1, <3>1, Zenon
    <3> QED
      BY <2>1, <3>2
  <2> QED
    BY <2>0, <2>2, Zenon
<1>5. [v EXCEPT !.pc = p, !.updated = u]
      = [pc |-> p, next |-> v.next, testing |-> v.testing, net |-> v.net, updated |-> u]
  <2> DEFINE w1 == [v EXCEPT !.pc = p]
  <2> DEFINE w2 == [w1 EXCEPT !.updated = u]
  <2>0. [v EXCEPT !.pc = p, !.updated = u] = w2
    OBVIOUS
  <2>1. w1 = [pc |-> p, next |-> v.next, testing |-> v.testing, net |-> v.net, updated |-> v.updated]
    BY <1>1, Zenon
  <2>2. w2 = [pc |-> p, next |-> v.next, testing |-> v.testing, net |-> v.net, updated |-> u]
    <3> HIDE DEF w1
    <3>1. w1 = [pc |-> w1.pc, next |-> w1.next, testing |-> w1.testing, net |-> w1.net, updated |-> w1.updated]
      BY <2>1
    <3>2. w2 = [pc |-> w1.pc, next |-> w1.next, testing |-> w1.testing, net |-> w1.net, updated |-> u]
      BY <1>1, <3>1, Zenon
    <3> QED
      BY <2>1, <3>2
  <2> QED
    BY <2>0, <2>2, Zenon
<1> QED
  BY <1>1, <1>2, <1>3, <1>4, <1>5, Zenon

LEMMA DialExcept ==
    ASSUME NEW v, NEW p, NEW s,
           v = [pc |-> v.pc, net |-> v.net, external |-> v.external, via |-> v.via, scan |-> v.scan, since |-> v.since]
    PROVE  /\ [v EXCEPT !.pc = p]
              = [pc |-> p, net |-> v.net, external |-> v.external, via |-> v.via, scan |-> v.scan, since |-> v.since]
           /\ [v EXCEPT !.scan = s]
              = [pc |-> v.pc, net |-> v.net, external |-> v.external, via |-> v.via, scan |-> s, since |-> v.since]
  OBVIOUS

LEMMA DialEnters ==
    ASSUME NEW v, NEW l,
           v = [pc |-> v.pc, net |-> v.net, external |-> v.external, via |-> v.via, scan |-> v.scan, since |-> v.since]
    PROVE  [v EXCEPT !.pc = "open", !.since = l]
           = [pc |-> "open", net |-> v.net, external |-> v.external, via |-> v.via, scan |-> v.scan, since |-> l]
<1> DEFINE w == [v EXCEPT !.pc = "open"]
<1>1. [v EXCEPT !.pc = "open", !.since = l] = [w EXCEPT !.since = l]
  OBVIOUS
<1>2. w = [pc |-> "open", net |-> v.net, external |-> v.external, via |-> v.via, scan |-> v.scan, since |-> v.since]
  OBVIOUS
<1> HIDE DEF w
<1>3. [w EXCEPT !.since = l]
      = [pc |-> "open", net |-> v.net, external |-> v.external, via |-> v.via, scan |-> v.scan, since |-> l]
  BY <1>2
<1> QED
  BY <1>1, <1>3, Zenon

\* The two updates of a dial that set several of its fields, as operators of their own.
Via(v, a, p) == [v EXCEPT !.via = a, !.pc = p]
ViaScan(v, a, s, p) == [v EXCEPT !.via = a, !.scan = s, !.pc = p]
ViaScanned(v, a, s, p) ==
    [pc |-> p, net |-> v.net, external |-> v.external, via |-> a, scan |-> s, since |-> v.since]

LEMMA DialExceptVia ==
    ASSUME NEW v, NEW p, NEW a,
           v = [pc |-> v.pc, net |-> v.net, external |-> v.external, via |-> v.via, scan |-> v.scan, since |-> v.since]
    PROVE  Via(v, a, p)
           = [pc |-> p, net |-> v.net, external |-> v.external, via |-> a, scan |-> v.scan, since |-> v.since]
<1>1. ASSUME NEW w, w = [pc |-> w.pc, net |-> w.net, external |-> w.external, via |-> w.via, scan |-> w.scan, since |-> w.since]
      PROVE  /\ [w EXCEPT !.pc = p]
                = [pc |-> p, net |-> w.net, external |-> w.external, via |-> w.via, scan |-> w.scan, since |-> w.since]
             /\ [w EXCEPT !.via = a]
                = [pc |-> w.pc, net |-> w.net, external |-> w.external, via |-> a, scan |-> w.scan, since |-> w.since]
  BY <1>1
<1>2. Via(v, a, p)
      = [pc |-> p, net |-> v.net, external |-> v.external, via |-> a, scan |-> v.scan, since |-> v.since]
  <2> DEFINE w1 == [v EXCEPT !.via = a]
  <2> DEFINE w2 == [w1 EXCEPT !.pc = p]
  <2>0. Via(v, a, p) = w2
    BY DEF Via
  <2>1. w1 = [pc |-> v.pc, net |-> v.net, external |-> v.external, via |-> a, scan |-> v.scan, since |-> v.since]
    BY <1>1, Zenon
  <2>2. w2 = [pc |-> p, net |-> v.net, external |-> v.external, via |-> a, scan |-> v.scan, since |-> v.since]
    <3> HIDE DEF w1
    <3>1. w1 = [pc |-> w1.pc, net |-> w1.net, external |-> w1.external, via |-> w1.via, scan |-> w1.scan, since |-> w1.since]
      BY <2>1
    <3>2. w2 = [pc |-> p, net |-> w1.net, external |-> w1.external, via |-> w1.via, scan |-> w1.scan, since |-> w1.since]
      BY <1>1, <3>1, Zenon
    <3> QED
      BY <2>1, <3>2
  <2> QED
    BY <2>0, <2>2, Zenon
<1> QED
  BY <1>1, <1>2, Zenon

LEMMA DialExceptScan ==
    ASSUME NEW v, NEW p, NEW a, NEW s,
           v = [pc |-> v.pc, net |-> v.net, external |-> v.external, via |-> v.via, scan |-> v.scan, since |-> v.since]
    PROVE  ViaScan(v, a, s, p) = ViaScanned(v, a, s, p)
<1>1. ASSUME NEW w, w = [pc |-> w.pc, net |-> w.net, external |-> w.external, via |-> w.via, scan |-> w.scan, since |-> w.since]
      PROVE  /\ [w EXCEPT !.pc = p]
                = [pc |-> p, net |-> w.net, external |-> w.external, via |-> w.via, scan |-> w.scan, since |-> w.since]
             /\ [w EXCEPT !.via = a]
                = [pc |-> w.pc, net |-> w.net, external |-> w.external, via |-> a, scan |-> w.scan, since |-> w.since]
             /\ [w EXCEPT !.scan = s]
                = [pc |-> w.pc, net |-> w.net, external |-> w.external, via |-> w.via, scan |-> s, since |-> w.since]
  BY <1>1
<1>2. ViaScan(v, a, s, p)
      = [pc |-> p, net |-> v.net, external |-> v.external, via |-> a, scan |-> s, since |-> v.since]
  <2> DEFINE w1 == [v EXCEPT !.via = a]
  <2> DEFINE w2 == [w1 EXCEPT !.scan = s]
  <2> DEFINE w3 == [w2 EXCEPT !.pc = p]
  <2>0. ViaScan(v, a, s, p) = w3
    BY DEF ViaScan
  <2>1. w1 = [pc |-> v.pc, net |-> v.net, external |-> v.external, via |-> a, scan |-> v.scan, since |-> v.since]
    BY <1>1, Zenon
  <2>2. w2 = [pc |-> v.pc, net |-> v.net, external |-> v.external, via |-> a, scan |-> s, since |-> v.since]
    <3> HIDE DEF w1
    <3>1. w1 = [pc |-> w1.pc, net |-> w1.net, external |-> w1.external, via |-> w1.via, scan |-> w1.scan, since |-> w1.since]
      BY <2>1
    <3>2. w2 = [pc |-> w1.pc, net |-> w1.net, external |-> w1.external, via |-> w1.via, scan |-> s, since |-> w1.since]
      BY <1>1, <3>1, Zenon
    <3> QED
      BY <2>1, <3>2
  <2>3. w3 = [pc |-> p, net |-> v.net, external |-> v.external, via |-> a, scan |-> s, since |-> v.since]
    <3> HIDE DEF w2
    <3>1. w2 = [pc |-> w2.pc, net |-> w2.net, external |-> w2.external, via |-> w2.via, scan |-> w2.scan, since |-> w2.since]
      BY <2>2
    <3>2. w3 = [pc |-> p, net |-> w2.net, external |-> w2.external, via |-> w2.via, scan |-> w2.scan, since |-> w2.since]
      BY <1>1, <3>1, Zenon
    <3> QED
      BY <2>2, <3>2
  <2> QED
    BY <2>0, <2>3, Zenon
<1> QED
  BY <1>2, Zenon DEF ViaScanned

LEMMA GroupInitInv == ASSUME GroupNamed, Group!Init PROVE GroupInv
<1> USE DEF GroupNamed
<1>1. /\ test = [pc |-> "none", next |-> 1, testing |-> {}, net |-> 1, updated |-> FALSE]
      /\ scan = [i |-> 0, min |-> None, minDelay |-> 0, seen |-> None]
  BY ZenonT(30) DEF Group!Init, Group!NoTest, Group!NoScan
<1>2. Group!NoScan \in Scans
  BY DEF Group!NoScan, Scans
<1>3. test \in Tests /\ scan \in Scans
  BY SMTT(30), <1>1 DEF Tests, Scans
<1>4. history \in [Group!Members -> Delays \cup {None}] /\ selected = [n \in Nets |-> None]
  BY ZenonT(30), GroupNets DEF Group!Init
<1>5. /\ dial \in [Dialers -> Dials] /\ external \in BOOLEAN
      /\ \A d \in Dialers : dial[d].pc = "load"
  <2> DEFINE Fresh(n, e) == [Group!NoDial EXCEPT !.net = n, !.external = e]
  <2>1. ASSUME NEW n \in Nets, NEW e \in BOOLEAN
        PROVE  Fresh(n, e) \in Dials /\ Fresh(n, e).pc = "load"
    BY ZenonT(30), <1>2, <2>1 DEF Group!NoDial, Dials
  <2>2. PICK nt \in [Dialers -> Nets], ext \in [Dialers -> BOOLEAN] :
          dial = [d \in Dialers |-> Fresh(nt[d], ext[d])]
    BY GroupNets, Zenon DEF Group!Init
  <2> HIDE DEF Fresh
  <2>3. \A d \in Dialers : dial[d] \in Dials /\ dial[d].pc = "load"
    <3> TAKE d \in Dialers
    <3>1. nt[d] \in Nets /\ ext[d] \in BOOLEAN
      BY <2>2, Zenon
    <3>2. dial[d] = Fresh(nt[d], ext[d])
      BY <2>2, Zenon
    <3> QED
      BY <2>1, <3>1, <3>2, Zenon
  <2>4. dial = [d \in Dialers |-> dial[d]] /\ external \in BOOLEAN
    <3>1. external \in BOOLEAN
      BY Zenon DEF Group!Init
    <3> QED
      BY <2>2, <3>1, Zenon
  <2> QED
    BY <2>3, <2>4, Zenon
<1>6. GroupTyped
  BY <1>3, <1>4, <1>5 DEF GroupTyped
<1> QED
  BY SMTT(30), <1>1, <1>5, <1>6 DEF GroupInv, Scanning, Interrupts, Reaches, Group!NoScan

\* What the steps of a test before performUpdateCheck do.
LEMMA GroupWalkSteps ==
    ASSUME GroupNamed, GroupInv,
           Group!Call \/ Group!Walk \/ (\E o \in Group!Members : Group!TestEnds(o)) \/ Group!Wait
    PROVE  GroupInv'
<1> USE DEF GroupNamed
<1>1. /\ test' \in Tests /\ history' \in [Group!Members -> Delays \cup {None}]
      /\ scan' = scan /\ selected' = selected /\ dial' = dial /\ external' = external
      /\ \/ test.pc = "none" /\ test'.pc = "walk" /\ test'.net = 1 /\ test'.updated = FALSE
         \/ test'.pc = test.pc /\ test'.net = test.net /\ test'.updated = test.updated
         \/ test.pc = "walk" /\ test'.pc = "select" /\ test'.net = test.net
            /\ test'.updated = test.updated
  <2>1. CASE Group!Call
    <3>1. test' = [pc |-> "walk", next |-> 1, testing |-> {}, net |-> 1, updated |-> FALSE]
      BY ZenonT(30), <2>1 DEF Group!Call, Group!NoTest
    <3>2. test' \in Tests
      BY <3>1 DEF Tests
    <3> QED
      BY <2>1, <3>1, <3>2 DEF Group!Call, GroupInv, GroupTyped
  <2>2. CASE Group!Walk
    <3>1. Len(Outbounds) \in Nat /\ test.next \in Nat \ {0}
      BY DEF GroupInv, GroupTyped, Tests
    <3>3. Group!Walk => test.next \in 1 .. Len(Outbounds)
      BY <3>1 DEF Group!Walk, GroupInv, GroupTyped, Tests
    <3>2. \E S \in SUBSET Group!Members :
            test' = [test EXCEPT !.next = test.next + 1, !.testing = S]
      <4> DEFINE o == Outbounds[test.next]
      <4>1. CASE test' = [test EXCEPT !.next = @ + 1]
        <5>1. test' = [test EXCEPT !.next = test.next + 1, !.testing = test.testing]
          BY ZenonT(30), <4>1 DEF GroupInv, GroupTyped, Tests
        <5> QED
          BY ZenonT(30), <5>1 DEF GroupInv, GroupTyped, Tests
      <4>2. CASE test' = [test EXCEPT !.next = @ + 1, !.testing = @ \cup {o}]
        <5>1. test.testing \in SUBSET Group!Members
          BY DEF GroupInv, GroupTyped, Tests
        <5>2. CASE o \in Group!Members
          <6>1. test.testing \cup {o} \in SUBSET Group!Members
            BY <5>1, <5>2
          <6> QED
            BY <4>2, <6>1, Zenon
        <5>3. o \in Group!Members
          BY SMTT(30), <2>2, <3>1, GroupMember, <3>3
        <5> QED
          BY ZenonT(30), <5>2, <5>3
      <4> QED
        BY <2>2, <4>1, <4>2, Zenon DEF Group!Walk
    <3>4. PICK S \in SUBSET Group!Members : test' = [test EXCEPT !.next = test.next + 1, !.testing = S]
      BY ZenonT(30), <3>2
    <3>5. test' \in Tests /\ test'.pc = test.pc /\ test'.net = test.net /\ test'.updated = test.updated
      <4>1. test = [pc |-> test.pc, next |-> test.next, testing |-> test.testing, net |-> test.net,
                    updated |-> test.updated]
        BY DEF GroupInv, GroupTyped, Tests
      <4>2. test' = [pc |-> test.pc, next |-> test.next + 1, testing |-> S, net |-> test.net,
                     updated |-> test.updated]
        BY <3>4, <4>1, TestExcept, Zenon
      <4> QED
        BY <3>1, <4>2 DEF GroupInv, GroupTyped, Tests
    <3> QED
      BY <2>2, <3>5 DEF Group!Walk, GroupInv, GroupTyped
  <2>3. CASE \E o \in Group!Members : Group!TestEnds(o)
    <3>1. PICK o \in Group!Members : Group!TestEnds(o)
      BY <2>3
    <3>2. PICK delay \in Delays \cup {None} : history' = [history EXCEPT ![o] = delay]
      BY ZenonT(30), <3>1 DEF Group!TestEnds
    <3>3. test' \in Tests /\ test'.pc = test.pc /\ test'.net = test.net /\ test'.updated = test.updated
      BY <3>1 DEF Group!TestEnds, GroupInv, GroupTyped, Tests
    <3>4. history' \in [Group!Members -> Delays \cup {None}]
      BY <3>2 DEF GroupInv, GroupTyped
    <3> QED
      BY ZenonT(30), <3>1, <3>3, <3>4 DEF Group!TestEnds
  <2>4. CASE Group!Wait
    <3>1. test = [pc |-> test.pc, next |-> test.next, testing |-> test.testing, net |-> test.net,
                  updated |-> test.updated]
      BY DEF GroupInv, GroupTyped, Tests
    <3>2. test' = [test EXCEPT !.pc = "select", !.next = 1]
      BY <2>4 DEF Group!Wait
    <3>3. test' = [pc |-> "select", next |-> 1, testing |-> test.testing, net |-> test.net,
                   updated |-> test.updated]
      BY <3>1, <3>2, TestExcept, Zenon
    <3>4. test' \in Tests
      BY <3>3 DEF GroupInv, GroupTyped, Tests
    <3> QED
      BY <2>4, <3>3, <3>4 DEF Group!Wait, GroupInv, GroupTyped
  <2> QED
    BY ZenonT(30), <2>1, <2>2, <2>3, <2>4
<1>2. GroupTyped'
  BY <1>1 DEF GroupInv, GroupTyped
<1>3. Scanning'
  BY <1>1 DEF GroupInv, Scanning, Group!NoScan
<1>4. Interrupts'
  BY <1>1 DEF GroupInv, Interrupts, Reaches
<1> QED
  BY <1>2, <1>3, <1>4 DEF GroupInv

LEMMA GroupUpdateScan == ASSUME GroupNamed, GroupInv, Group!UpdateScan PROVE GroupInv'
<1> DEFINE n == Group!Networks[test.net]
<1>1. n \in Nets
  BY GroupNets DEF GroupInv, GroupTyped, Tests, Nets
<1>2. /\ scan' \in Scans
      /\ scan'.min # None => n \in Supports[scan'.min]
  <2> HIDE DEF n
  <2>1. test.pc = "select" /\ ~Group!Scanned(scan) /\ scan' = Group!ScanStep(scan, n)
    BY DEF Group!UpdateScan, n
  <2>2. scan \in Scans /\ (scan.min # None => n \in Supports[scan.min])
    BY <2>1 DEF GroupInv, GroupTyped, Scanning, n
  <2> QED
    BY <1>1, <2>1, <2>2, GroupScanStep DEF GroupInv
<1>3. test.pc = "select" /\ UNCHANGED <<test, history, selected, dial, external>>
  BY DEF Group!UpdateScan
<1>4. GroupTyped'
  BY <1>2, <1>3 DEF GroupInv, GroupTyped
<1>5. Scanning'
  BY <1>2, <1>3 DEF Scanning
<1>6. Interrupts'
  BY <1>3 DEF GroupInv, Interrupts, Reaches
<1> QED
  BY <1>4, <1>5, <1>6 DEF GroupInv

\* performUpdateCheck stores the selection of a network, and remembers that it
\* replaced one.
LEMMA GroupUpdateStore == ASSUME GroupNamed, GroupInv, Group!UpdateStore PROVE GroupInv'
<1> USE DEF GroupNamed
<1> DEFINE n == Group!Networks[test.net]
           o == Group!Select(scan, n)
<1>1. n \in Nets /\ test.net \in {1, 2}
  BY GroupNets DEF GroupInv, GroupTyped, Tests, Nets
<1>2. /\ test.pc = "select" /\ scan' = Group!NoScan
      /\ selected' = IF Group!Switches(n) THEN [selected EXCEPT ![n] = o] ELSE selected
      /\ UNCHANGED <<history, external>>
      /\ dial' = IF selected[n] = None THEN Group!Adopted(n, selected'[n]) ELSE dial
  BY DEF Group!UpdateStore
<1>3. o \in Group!Members \cup {None} /\ (o # None => n \in Supports[o])
  <2> HIDE DEF n
  <2>1. scan \in Scans /\ (scan.min # None => n \in Supports[scan.min])
    BY <1>2 DEF GroupInv, GroupTyped, Scanning, n
  <2> QED
    BY <1>1, <2>1, GroupSelect
<1>4. Group!Switches(n) => o # None
  BY DEF Group!Switches
<1>5. Group!Updated(n) = (Group!Switches(n) /\ selected[n] # None) /\ Group!Updated(n) \in BOOLEAN
  BY DEF Group!Updated
<1>6. /\ test' \in Tests
      /\ \/ test.net = 1 /\ test'.net = 2 /\ test'.pc = "select" /\ test'.updated = Group!Updated(n)
         \/ /\ test.net = 2 /\ test'.pc = "interrupt"
            /\ test'.updated = (test.updated \/ Group!Updated(n))
  <2>1. test = [pc |-> test.pc, next |-> test.next, testing |-> test.testing, net |-> test.net,
                updated |-> test.updated]
    BY DEF GroupInv, GroupTyped, Tests
  <2>2. CASE test.net = 1
    <3>1. test' = [test EXCEPT !.net = test.net + 1, !.updated = Group!Updated(n)]
      BY <2>2, GroupNets DEF Group!UpdateStore
    <3>2. test' = [pc |-> test.pc, next |-> test.next, testing |-> test.testing, net |-> test.net + 1,
                   updated |-> Group!Updated(n)]
      BY <2>1, <3>1, TestExcept, Zenon
    <3> HIDE DEF n
    <3> QED
      BY <1>2, <1>5, <2>2, <3>2 DEF GroupInv, GroupTyped, Tests
  <2>3. CASE test.net = 2
    <3>1. test' = [test EXCEPT !.pc = "interrupt", !.updated = test.updated \/ Group!Updated(n)]
      BY <2>3, GroupNets DEF Group!UpdateStore
    <3>2. test' = [pc |-> "interrupt", next |-> test.next, testing |-> test.testing, net |-> test.net,
                   updated |-> test.updated \/ Group!Updated(n)]
      BY <2>1, <3>1, TestExcept, Zenon
    <3>3. (test.updated \/ Group!Updated(n)) \in BOOLEAN
      OBVIOUS
    <3> HIDE DEF n
    <3> QED
      BY <2>3, <3>2, <3>3 DEF GroupInv, GroupTyped, Tests
  <2> QED
    BY <1>1, <2>2, <2>3
<1> HIDE DEF n, o
<1>7. /\ selected' \in [Nets -> Group!Members \cup {None}]
      /\ \A m \in Nets : selected'[m] # None => m \in Supports[selected'[m]]
  BY <1>1, <1>2, <1>3 DEF GroupInv, GroupTyped
<1>8. scan' \in Scans
  BY <1>2 DEF Scans, Group!NoScan
<1>12. \A d \in Dialers :
         /\ dial'[d] \in Dials /\ dial'[d].pc = dial[d].pc /\ dial'[d].net = dial[d].net
         /\ dial'[d].external = dial[d].external /\ dial'[d].via = dial[d].via
         /\ dial'[d].since = IF selected[n] = None /\ dial[d].pc = "open" /\ dial[d].net = n
                             THEN selected'[n] ELSE dial[d].since
  <2> TAKE d \in Dialers
  <2> DEFINE v == dial[d]
             a == selected'[n]
  <2>1. v \in Dials
    BY DEF GroupInv, GroupTyped
  <2>2. a \in Group!Members \cup {None}
    BY <1>1, <1>7
  <2>3. dial'[d] = IF selected[n] = None /\ v.pc = "open" /\ v.net = n THEN [v EXCEPT !.since = a] ELSE v
    BY <1>2 DEF Group!Adopted
  <2> HIDE DEF v, a
  <2>4. /\ [v EXCEPT !.since = a] \in Dials /\ [v EXCEPT !.since = a].since = a
        /\ [v EXCEPT !.since = a].pc = v.pc /\ [v EXCEPT !.since = a].net = v.net
        /\ [v EXCEPT !.since = a].external = v.external /\ [v EXCEPT !.since = a].via = v.via
    BY <2>1, <2>2 DEF Dials
  <2> QED
    BY <2>1, <2>3, <2>4 DEF v, a
<1>13. dial' \in [Dialers -> Dials]
  <2>1. dial' = [d \in Dialers |-> dial'[d]]
    BY <1>2 DEF Group!Adopted, GroupInv, GroupTyped
  <2> QED
    BY <1>12, <2>1, Zenon
<1>9. GroupTyped'
  <2>1. \A d \in Dialers : dial'[d].pc \in {"dial", "enter", "open"} => dial'[d].via # None
    BY <1>12 DEF GroupInv, GroupTyped
  <2> QED
    BY <1>2, <1>6, <1>7, <1>8, <1>13, <2>1 DEF GroupInv, GroupTyped
<1>10. Scanning'
  BY <1>2 DEF Scanning, Group!NoScan
<1>11. Interrupts'
  <2>1. (test'.pc \in {"none", "walk"} \/ (test'.pc = "select" /\ test'.net = 1) => ~test'.updated)
        /\ (test'.pc = "walk" => test'.net = 1)
    BY <1>6
  <2>2. ASSUME ~test'.updated, NEW d \in Dialers, Reaches(d)'
        PROVE  dial'[d].since = selected'[dial'[d].net]
    <3>1. ~test.updated /\ ~Group!Updated(n)
      BY ZenonT(30), <1>2, <1>6, <2>2 DEF GroupInv, Interrupts
    <3>2. Reaches(d)
      BY <1>2, <1>12, <2>2 DEF Reaches
    <3>3. dial[d].since = selected[dial[d].net] /\ dial[d].net \in Nets /\ dial'[d].net = dial[d].net
      BY <1>12, <3>1, <3>2 DEF GroupInv, GroupTyped, Interrupts, Dials
    <3>4. Group!Switches(n) => selected[n] = None
      BY ZenonT(30), <1>5, <3>1
    <3>5. CASE dial[d].net = n /\ selected[n] = None
      BY <1>12, <3>2, <3>5 DEF Reaches
    <3>6. CASE ~(dial[d].net = n /\ selected[n] = None)
      <4>1. selected'[dial[d].net] = selected[dial[d].net]
        BY <1>1, <1>2, <3>3, <3>4, <3>6 DEF GroupInv, GroupTyped
      <4> QED
        BY <1>12, <3>3, <3>6, <4>1
    <3> QED
      BY <3>5, <3>6
  <2> QED
    BY <2>1, <2>2 DEF Interrupts
<1> QED
  BY <1>9, <1>10, <1>11 DEF GroupInv

LEMMA GroupInterrupt == ASSUME GroupNamed, GroupInv, Group!Interrupt PROVE GroupInv'
<1> USE DEF GroupNamed
<1>1. /\ test' = [pc |-> "none", next |-> 1, testing |-> {}, net |-> 1, updated |-> FALSE]
      /\ test.pc = "interrupt" /\ UNCHANGED <<scan, history, selected, external>>
  BY DEF Group!Interrupt, Group!NoTest
<1>2. test' \in Tests
  BY <1>1 DEF Tests
<1>3. /\ dial' \in [Dialers -> Dials]
      /\ \A d \in Dialers :
            \/ dial'[d].pc = "closed"
            \/ dial'[d] = dial[d] /\ (test.updated => ~Reaches(d))
  <2> DEFINE Hit(d) == test.updated /\ dial[d].pc = "open" /\ (~dial[d].external \/ external)
  <2>1. dial' = [d \in Dialers |-> IF Hit(d) THEN [dial[d] EXCEPT !.pc = "closed"] ELSE dial[d]]
    BY DEF Group!Interrupt
  <2>2. \A d \in Dialers : (test.updated /\ Reaches(d)) => Hit(d)
    BY DEF Reaches
  <2> HIDE DEF Hit
  <2>3. ASSUME NEW d \in Dialers
        PROVE  /\ dial[d] \in Dials
               /\ [dial[d] EXCEPT !.pc = "closed"] \in Dials
               /\ [dial[d] EXCEPT !.pc = "closed"].pc = "closed"
    BY ZenonT(30) DEF GroupInv, GroupTyped, Dials
  <2> QED
    BY <2>1, <2>2, <2>3
<1>4. GroupTyped'
  BY <1>1, <1>2, <1>3 DEF GroupInv, GroupTyped
<1>5. Scanning'
  BY <1>1 DEF GroupInv, Scanning, Group!NoScan
<1>6. Interrupts'
  <2>1. ASSUME NEW d \in Dialers, Reaches(d)' PROVE dial'[d].since = selected'[dial'[d].net]
    BY <1>1, <1>3, <2>1 DEF GroupInv, Interrupts, Reaches
  <2> QED
    BY <1>1, <2>1 DEF Interrupts
<1> QED
  BY <1>4, <1>5, <1>6 DEF GroupInv

\* A step of one dial.
LEMMA GroupDialSteps ==
    ASSUME GroupNamed, GroupInv, NEW d \in Dialers,
           \/ Group!Load(d) \/ Group!DialSelect(d) \/ Group!DialFails(d) \/ Group!DialSucceeds(d)
           \/ Group!NewConn(d) \/ Group!CloseConn(d)
    PROVE  GroupInv'
<1> USE DEF GroupNamed
<1> DEFINE v == dial[d]
<1>1. /\ v \in Dials
      /\ v = [pc |-> v.pc, net |-> v.net, external |-> v.external, via |-> v.via, scan |-> v.scan,
              since |-> v.since]
      /\ v.pc \in {"dial", "enter", "open"} => v.via # None
  BY DEF GroupInv, GroupTyped, Dials
<1>2. /\ UNCHANGED <<test, scan, selected, external>>
      /\ history' \in [Group!Members -> Delays \cup {None}]
  <2>1. CASE Group!DialFails(d)
    <3>1. v.via \in Group!Members
      BY <1>1, <2>1 DEF Group!DialFails, Dials
    <3> QED
      BY <2>1, <3>1 DEF Group!DialFails, GroupInv, GroupTyped
  <2> QED
    BY <2>1 DEF Group!Load, Group!DialSelect, Group!DialSucceeds, Group!NewConn, Group!CloseConn,
                GroupInv, GroupTyped
<1>3. \E w \in Dials :
        /\ dial' = [dial EXCEPT ![d] = w]
        /\ w.pc \in {"dial", "enter", "open"} => w.via # None
        /\ w.pc = "open" => w.since = selected[w.net]
  <2>1. CASE Group!Load(d)
    <3> DEFINE o == selected[v.net]
               p == IF o = None THEN "select" ELSE "dial"
               w == [pc |-> p, net |-> v.net, external |-> v.external, via |-> o, scan |-> v.scan,
                     since |-> v.since]
    <3>1. dial' = [dial EXCEPT ![d] = Via(v, o, p)]
      BY <2>1 DEF Group!Load, Via
    <3>2. o \in Group!Members \cup {None}
      BY <1>1 DEF Dials, GroupInv, GroupTyped
    <3>5. p \in {"select", "dial"} /\ (p = "dial" => o # None)
      OBVIOUS
    <3> HIDE DEF v, o, p
    <3>3. Via(v, o, p) = w
      BY <1>1, DialExceptVia, Zenon
    <3>4. w \in Dials /\ (w.pc \in {"dial", "enter", "open"} => w.via # None) /\ w.pc # "open"
      BY <1>1, <3>2, <3>5 DEF Dials
    <3> HIDE DEF w
    <3> QED
      BY ZenonT(30), <3>1, <3>3, <3>4
  <2>2. CASE Group!DialSelect(d)
    <3>1. v.pc = "select" /\ v.scan \in Scans /\ v.net \in Nets
      BY <1>1, <2>2 DEF Dials, Group!DialSelect
    <3>2. CASE ~Group!Scanned(v.scan)
      <4> DEFINE s == Group!ScanStep(v.scan, v.net)
                 w == [pc |-> v.pc, net |-> v.net, external |-> v.external, via |-> v.via, scan |-> s,
                       since |-> v.since]
      <4>1. dial' = [dial EXCEPT ![d] = [v EXCEPT !.scan = s]]
        BY <2>2, <3>2 DEF Group!DialSelect
      <4>2. s \in Scans
        BY <3>1, <3>2, GroupScanStep DEF GroupInv
      <4> HIDE DEF v, s
      <4>3. [v EXCEPT !.scan = s] = w
        BY <1>1, DialExcept, Zenon
      <4>4. w \in Dials /\ w.pc = "select"
        BY <1>1, <3>1, <4>2 DEF Dials
      <4> HIDE DEF w
      <4> QED
        BY ZenonT(30), <4>1, <4>3, <4>4
    <3>3. CASE Group!Scanned(v.scan)
      <4> DEFINE o == Group!Select(v.scan, v.net)
                 p == IF o = None THEN "closed" ELSE "dial"
                 w == [pc |-> p, net |-> v.net, external |-> v.external, via |-> o,
                       scan |-> Group!NoScan, since |-> v.since]
      <4>1. dial' = [dial EXCEPT ![d] = ViaScan(v, o, Group!NoScan, p)]
        BY <2>2, <3>3 DEF Group!DialSelect, ViaScan
      <4>2. o \in Group!Members \cup {None} /\ Group!NoScan \in Scans
        BY <3>1, GroupSelect DEF Group!NoScan, Scans
      <4>5. p \in {"closed", "dial"} /\ (p = "dial" => o # None)
        OBVIOUS
      <4> HIDE DEF v, o, p
      <4>3. ViaScan(v, o, Group!NoScan, p) = w
        <5>1. v = [pc |-> v.pc, net |-> v.net, external |-> v.external, via |-> v.via,
                   scan |-> v.scan, since |-> v.since]
          BY <1>1, Zenon
        <5>2. ViaScan(v, o, Group!NoScan, p) = ViaScanned(v, o, Group!NoScan, p)
          BY ONLY <5>1, DialExceptScan, Zenon
        <5> QED
          BY <5>2, Zenon DEF ViaScanned
      <4>4. w \in Dials /\ w.pc # "open" /\ (w.pc \in {"dial", "enter", "open"} => w.via # None)
        BY <1>1, <4>2, <4>5 DEF Dials
      <4> HIDE DEF w
      <4> QED
        BY ZenonT(30), <4>1, <4>3, <4>4
    <3> QED
      BY <3>2, <3>3
  <2>3. CASE Group!DialFails(d) \/ Group!DialSucceeds(d) \/ Group!CloseConn(d)
    <3>1. PICK p \in {"closed", "enter"} :
            dial' = [dial EXCEPT ![d] = [v EXCEPT !.pc = p]] /\ (p = "enter" => v.pc = "dial")
      BY <2>3 DEF Group!DialFails, Group!DialSucceeds, Group!CloseConn
    <3> DEFINE w == [pc |-> p, net |-> v.net, external |-> v.external, via |-> v.via, scan |-> v.scan,
                     since |-> v.since]
    <3> HIDE DEF v
    <3>2. [v EXCEPT !.pc = p] = w
      BY <1>1, DialExcept, Zenon
    <3>3. w \in Dials /\ w.pc # "open" /\ (w.pc \in {"dial", "enter", "open"} => w.via # None)
      BY <1>1, <3>1 DEF Dials
    <3> HIDE DEF w
    <3> QED
      BY ZenonT(30), <3>1, <3>2, <3>3
  <2>4. CASE Group!NewConn(d)
    <3> DEFINE l == selected[v.net]
               w == [pc |-> "open", net |-> v.net, external |-> v.external, via |-> v.via,
                     scan |-> v.scan, since |-> l]
    <3>1. dial' = [dial EXCEPT ![d] = [v EXCEPT !.pc = "open", !.since = l]] /\ v.pc = "enter"
      BY <2>4 DEF Group!NewConn
    <3>2. l \in Group!Members \cup {None} /\ l = selected[v.net]
      BY <1>1 DEF Dials, GroupInv, GroupTyped
    <3> HIDE DEF v, l
    <3>3. [v EXCEPT !.pc = "open", !.since = l] = w
      <4>1. v = [pc |-> v.pc, net |-> v.net, external |-> v.external, via |-> v.via, scan |-> v.scan,
                 since |-> v.since]
        BY <1>1, Zenon
      <4>2. [v EXCEPT !.pc = "open", !.since = l]
            = [pc |-> "open", net |-> v.net, external |-> v.external, via |-> v.via, scan |-> v.scan,
               since |-> l]
        BY ONLY <4>1, DialEnters, Zenon
      <4> QED
        BY <4>2
    <3>4. w \in Dials /\ w.via # None /\ w.since = selected[w.net]
      BY <1>1, <3>1, <3>2 DEF Dials
    <3> HIDE DEF w
    <3> QED
      BY ZenonT(30), <3>1, <3>3, <3>4
  <2> QED
    BY <2>1, <2>2, <2>3, <2>4
<1>4. PICK w \in Dials :
        /\ dial' = [dial EXCEPT ![d] = w]
        /\ w.pc \in {"dial", "enter", "open"} => w.via # None
        /\ w.pc = "open" => w.since = selected[w.net]
  BY ZenonT(30), <1>3
<1>5. \A e \in Dialers : dial'[e] = IF e = d THEN w ELSE dial[e]
  BY <1>4 DEF GroupInv, GroupTyped
<1>6. dial' \in [Dialers -> Dials]
  BY <1>4 DEF GroupInv, GroupTyped
<1>7. GroupTyped'
  BY <1>2, <1>4, <1>5, <1>6 DEF GroupInv, GroupTyped
<1>8. Scanning'
  BY <1>2 DEF GroupInv, Scanning, Group!NoScan
<1>9. Interrupts'
  <2>1. ASSUME ~test.updated, NEW e \in Dialers, Reaches(e)'
        PROVE  dial'[e].since = selected[dial'[e].net]
    BY <1>2, <1>4, <1>5, <2>1 DEF GroupInv, Interrupts, Reaches
  <2> QED
    BY <1>2, <2>1 DEF GroupInv, Interrupts
<1> QED
  BY <1>7, <1>8, <1>9 DEF GroupInv

LEMMA GroupInductive == ASSUME GroupNamed, GroupInv, [Group!Next]_(Group!vars) PROVE GroupInv'
<1>1. CASE UNCHANGED Group!vars
  BY <1>1 DEF Group!vars, GroupInv, GroupTyped, Scanning, Interrupts, Reaches
<1>2. CASE Group!Next
  BY <1>2, GroupWalkSteps, GroupUpdateScan, GroupUpdateStore, GroupInterrupt, GroupDialSteps DEF Group!Next
<1> QED
  BY SMTT(30), <1>1, <1>2

-----------------------------------------------------------------------------
(* What a switch is justified by.                                          *)

\* While a test scans: a measurement of the selected outbound is kept, and
\* what replaced it as the minimum is shorter by more than the tolerance.  A
\* minimum of 0 counts as none, and is remembered.
Measured ==
    test.pc = "select" =>
        /\ scan.seen # None => scan.min # None
        /\ scan.min # None /\ scan.minDelay = 0 => scan.seen = 0
        /\ scan.seen \notin {None, 0} =>
              \/ scan.minDelay + Tolerance < scan.seen
              \/ scan.min = selected[Group!Networks[test.net]] /\ scan.minDelay = scan.seen

LEMMA BetterMeans ==
    ASSUME GroupNamed, NoOverflow, NEW h \in Delays, NEW m \in Nat, Group!Better(h, m)
    PROVE  m = 0 \/ h + Tolerance < m
<1>1. h \in Nat /\ Tolerance \in Nat /\ Width \in Nat /\ h + Tolerance < Width
  BY DEF GroupNamed, NoOverflow
<1>2. (h + Tolerance) % Width = h + Tolerance
  BY SMTT(30), <1>1
<1> QED
  BY <1>1, <1>2 DEF Group!Better

LEMMA MeasuredScan ==
    ASSUME GroupNamed, NoOverflow, GroupInv, Measured, Group!UpdateScan
    PROVE  Measured'
<1> USE DEF GroupNamed
<1> DEFINE n == Group!Networks[test.net]
           s == scan
<1>1. /\ n \in Nets /\ s \in Scans
      /\ selected \in [Nets -> Group!Members \cup {None}]
      /\ history \in [Group!Members -> Delays \cup {None}]
  BY GroupNets DEF GroupInv, GroupTyped, Tests, Nets
<1>2. /\ test.pc = "select" /\ test' = test /\ selected' = selected
      /\ ~Group!Scanned(s) /\ scan' = Group!ScanStep(s, n)
  BY DEF Group!UpdateScan
<1>3. Len(Outbounds) \in Nat /\ s.i \in 0 .. Len(Outbounds) /\ s.minDelay \in Nat
      /\ s.seen \in Nat \cup {None} /\ Tolerance \in Nat
  BY SMTT(30), <1>1, <1>2 DEF Scans, Group!Scanned
<1>4. /\ s.seen # None => s.min # None
      /\ s.min # None /\ s.minDelay = 0 => s.seen = 0
      /\ s.seen \notin {None, 0} =>
            s.minDelay + Tolerance < s.seen \/ (s.min = selected[n] /\ s.minDelay = s.seen)
  BY <1>2 DEF Measured
<1>5. s = [i |-> s.i, min |-> s.min, minDelay |-> s.minDelay, seen |-> s.seen]
  BY <1>1 DEF Scans
<1> DEFINE Good(t) ==
             /\ t.seen # None => t.min # None
             /\ t.min # None /\ t.minDelay = 0 => t.seen = 0
             /\ t.seen \notin {None, 0} =>
                   t.minDelay + Tolerance < t.seen \/ (t.min = selected[n] /\ t.minDelay = t.seen)
<1>6. Good(scan')
  <2>1. ASSUME NEW i
        PROVE  Good([s EXCEPT !.i = i])
    <3>1. [s EXCEPT !.i = i] = [i |-> i, min |-> s.min, minDelay |-> s.minDelay, seen |-> s.seen]
      BY SMTT(30), <1>5
    <3> HIDE DEF n
    <3> QED
      BY <1>4, <3>1
  <2>2. CASE s.i = 0
    <3>1. scan' = IF selected[n] # None /\ history[selected[n]] # None
                  THEN [i |-> 1, min |-> selected[n], minDelay |-> history[selected[n]],
                        seen |-> history[selected[n]]]
                  ELSE [s EXCEPT !.i = 1]
      BY <1>2, <2>2 DEF Group!ScanStep, Group!ScanCurrent
    <3>2. CASE selected[n] # None /\ history[selected[n]] # None
      <4> DEFINE h == history[selected[n]]
      <4>1. scan' = [i |-> 1, min |-> selected[n], minDelay |-> h, seen |-> h] /\ selected[n] # None
        BY <3>1, <3>2
      <4> HIDE DEF n, h
      <4> QED
        BY <4>1
    <3>3. CASE ~(selected[n] # None /\ history[selected[n]] # None)
      <4>1. scan' = [s EXCEPT !.i = 1]
        BY <3>1, <3>3
      <4> HIDE DEF Good, n
      <4> QED
        BY ZenonT(30), <2>1, <4>1
    <3> QED
      BY <3>2, <3>3
  <2>3. CASE s.i # 0
    <3> DEFINE o == Outbounds[s.i]
               h == history[o]
               B == n \in Supports[o] /\ h # None /\ Group!Better(h, s.minDelay)
    <3>1. scan' = IF B THEN [i |-> s.i + 1, min |-> o, minDelay |-> h, seen |-> IF h = 0 THEN 0 ELSE s.seen]
                  ELSE [s EXCEPT !.i = s.i + 1]
      BY <1>2, <2>3 DEF Group!ScanStep, Group!ScanNext
    <3>2. CASE B
      <4>1. o \in Group!Members
        BY <1>3, <2>3, GroupMember
      <4>2. h \in Delays /\ h \in Nat /\ o # None
        BY ZenonT(30), <1>1, <3>2, <4>1
      <4>3. s.minDelay = 0 \/ h + Tolerance < s.minDelay
        BY <1>3, <3>2, <4>2, BetterMeans
      <4>4. scan' = [i |-> s.i + 1, min |-> o, minDelay |-> h, seen |-> IF h = 0 THEN 0 ELSE s.seen]
        BY <3>1, <3>2
      <4> HIDE DEF n, o, h
      <4>5. scan'.min = o /\ scan'.minDelay = h /\ scan'.seen = IF h = 0 THEN 0 ELSE s.seen
        BY <4>4
      <4> HIDE DEF s
      <4> QED
        BY <1>3, <1>4, <4>2, <4>3, <4>5
    <3>3. CASE ~B
      <4>1. scan' = [s EXCEPT !.i = s.i + 1]
        BY <3>1, <3>3
      <4> HIDE DEF Good, n
      <4> QED
        BY ZenonT(30), <2>1, <4>1
    <3> QED
      BY <3>2, <3>3
  <2> QED
    BY <2>2, <2>3
<1> QED
  BY <1>2, <1>6 DEF Measured

\* Every step keeps it, and a step that gives up a selection is justified.
LEMMA Justified ==
    ASSUME GroupNamed, NoOverflow, GroupInv, Measured, [Group!Next]_(Group!vars)
    PROVE  /\ Measured'
           /\ \A n \in Group!Range(Group!Networks) : (selected'[n] # selected[n] /\ selected[n] # None) =>
                 /\ scan.min = selected'[n]
                 /\ scan.seen \notin {None, 0} => scan.minDelay + Tolerance < scan.seen
<1> USE DEF GroupNamed
<1>1. CASE Group!UpdateStore
  <2> DEFINE n == Group!Networks[test.net]
             o == Group!Select(scan, n)
  <2>1. test.pc = "select" /\ scan' = [i |-> 0, min |-> None, minDelay |-> 0, seen |-> None]
        /\ selected' = IF Group!Switches(n) THEN [selected EXCEPT ![n] = o] ELSE selected
    BY <1>1 DEF Group!UpdateStore, Group!NoScan
  <2>2. n \in Nets /\ selected \in [Nets -> Group!Members \cup {None}] /\ scan \in Scans
    BY SMTT(30), GroupNets DEF GroupInv, GroupTyped, Tests, Nets
  <2>3. Measured'
    BY SMTT(30), <2>1 DEF Measured
  <2>4. ASSUME NEW m \in Nets, selected'[m] # selected[m], selected[m] # None
        PROVE  /\ scan.min = selected'[m]
               /\ scan.seen \notin {None, 0} => scan.minDelay + Tolerance < scan.seen
    <3>1. m = n /\ Group!Switches(n) /\ selected'[n] = o
      <4> HIDE DEF n, o
      <4> QED
        BY SMTT(30), <2>1, <2>2, <2>4
    <3>2. scan.min # None /\ o = scan.min /\ scan.min # selected[n]
      BY <2>4, <3>1 DEF Group!Switches, Group!Select
    <3> QED
      BY <2>1, <3>1, <3>2 DEF Measured
  <2> QED
    BY <2>3, <2>4, GroupNets
<1>2. CASE Group!UpdateScan
  <2>1. selected' = selected
    BY <1>2 DEF Group!UpdateScan
  <2> QED
    BY <1>2, <2>1, MeasuredScan
<1>3. CASE ~Group!UpdateStore /\ ~Group!UpdateScan
  <2>1. selected' = selected /\ scan' = scan /\ (test'.pc = "select" => test'.net = test.net)
        /\ (test'.pc = "select" => (test.pc = "select" \/ scan = Group!NoScan))
    <3>1. CASE Group!Call \/ Group!Interrupt
      <4>1. selected' = selected /\ scan' = scan /\ test'.pc # "select"
        BY <3>1 DEF Group!Call, Group!Interrupt, Group!NoTest
      <4> QED
        BY <4>1
    <3>2. CASE Group!Walk \/ (\E o \in Group!Members : Group!TestEnds(o))
      <4>1. selected' = selected /\ scan' = scan /\ test'.pc = test.pc /\ test'.net = test.net
        BY ZenonT(30), <3>2 DEF Group!Walk, Group!TestEnds, GroupInv, GroupTyped, Tests
      <4> QED
        BY <4>1
    <3>3. CASE Group!Wait
      <4>1. selected' = selected /\ scan' = scan /\ test.pc = "walk" /\ test'.net = test.net
        BY <3>3 DEF Group!Wait, GroupInv, GroupTyped, Tests
      <4> QED
        BY <4>1 DEF GroupInv, Scanning
    <3>4. CASE \/ UNCHANGED Group!vars
               \/ \E d \in Dialers :
                    \/ Group!Load(d) \/ Group!DialSelect(d) \/ Group!DialFails(d) \/ Group!DialSucceeds(d)
                    \/ Group!NewConn(d) \/ Group!CloseConn(d)
      <4>1. selected' = selected /\ scan' = scan /\ test' = test
        BY ZenonT(30), <3>4 DEF Group!vars, Group!Load, Group!DialSelect, Group!DialFails, Group!DialSucceeds,
                    Group!NewConn, Group!CloseConn
      <4> QED
        BY <4>1
    <3> QED
      BY <1>3, <3>1, <3>2, <3>3, <3>4 DEF Group!Next
  <2>2. Measured'
    BY <2>1 DEF Measured, Group!NoScan
  <2> QED
    BY SMTT(30), <2>1, <2>2
<1> QED
  BY <1>1, <1>2, <1>3

\* Between tests, no connection that Interrupt may close has outlived the
\* selection it belongs to, the one it met when it entered the group or the
\* first one after that: for any list of outbounds and number of dials
\* (performUpdateCheck, interrupt.Group).
THEOREM NoStaleConnectionHolds ==
    ASSUME Numbered, GroupNamed PROVE Spec /\ Group!Spec => []NoStaleConnection
<1>1. Group!Init => GroupInv
  BY GroupInitInv
<1>2. GroupInv /\ [Group!Next]_(Group!vars) => GroupInv'
  BY GroupInductive
<1>3. ASSUME GroupInv, TypeOK PROVE NoStaleConnection
  <2>1. Group!TypeOK
    BY SMTT(30), <1>3, GroupNets DEF GroupInv, GroupTyped, Tests, Scans, Dials, Group!TypeOK
  <2>2. ASSUME test.pc \notin {"select", "interrupt"}, NEW d \in Dialers, dial[d].pc = "open",
               ~dial[d].external \/ external
        PROVE  dial[d].since = selected[dial[d].net]
    <3>1. ~test.updated
      BY <1>3, <2>2 DEF GroupInv, GroupTyped, Tests, Interrupts
    <3> QED
      BY SMTT(30), <1>3, <2>2, <3>1 DEF GroupInv, Interrupts, Reaches
  <2> QED
    BY SMTT(30), <1>3, <2>1, <2>2 DEF NoStaleConnection, Group!NoStaleConnection
<1>4. Spec => []TypeOK
  BY TickerTypeCorrect
<1> QED
  BY <1>1, <1>2, <1>3, <1>4, PTL DEF Group!Spec

\* A selection once made is given up only for an outbound that was measured
\* faster, by more than the tolerance unless the old one has no measurement:
\* for any delays that the tolerance does not take over the width (Select).
THEOREM SwitchJustifiedHolds ==
    ASSUME GroupNamed, NoOverflow PROVE Group!Spec => SwitchJustified
<1>1. Group!Init => GroupInv /\ Measured
  <2>1. Group!Init => test = [pc |-> "none", next |-> 1, testing |-> {}, net |-> 1, updated |-> FALSE]
    BY Zenon DEF Group!Init, Group!NoTest
  <2> QED
    BY <2>1, GroupInitInv DEF Measured
<1>2. GroupInv /\ Measured /\ [Group!Next]_(Group!vars) => GroupInv' /\ Measured'
  BY SMTT(30), GroupInductive, Justified
<1>3. GroupInv /\ Measured /\ [Group!Next]_(Group!vars) =>
        [\A n \in Group!Range(Group!Networks) : selected'[n] # selected[n] /\ selected[n] # None =>
            /\ scan.min = selected'[n]
            /\ scan.seen \notin {None, 0} => scan.minDelay + Tolerance < scan.seen]_(Group!vars)
  BY Justified
<1> QED
  BY <1>1, <1>2, <1>3, PTL DEF Group!Spec, SwitchJustified, Group!SwitchJustified

=============================================================================
