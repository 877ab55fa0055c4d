---------------------------- MODULE URLTestGroup ----------------------------
(***************************************************************************)
(* A urltest group (protocol/group/urltest.go) with its interrupt group    *)
(* (common/interrupt): connections are dialled through the selected        *)
(* outbound, tests update the history of delays and then the selection,    *)
(* and a change of it interrupts the connections made before.              *)
(*                                                                         *)
(* A test may be called at any time: MCURLTestGroup says when it is.  The  *)
(* history is read and written one entry at a time, by the test and by     *)
(* dials that fail.  The members are no groups themselves, no other group  *)
(* writes their history, and the outbound manager has them all.            *)
(***************************************************************************)
EXTENDS Integers, Sequences, Functions

CONSTANTS
    Outbounds,  \* g.outbounds, a sequence
    Supports,   \* the networks of each
    Delays,     \* what a test may measure
    Tolerance,
    Width,      \* delays are computed modulo it: 2^16 in the code
    Dialers,    \* the dials: each makes one connection
    None

Networks == <<"tcp", "udp">>
Members == Range(Outbounds)

VARIABLES
    test,      \* the urlTest that runs, g.checking being set
    scan,      \* its Select
    history,   \* g.history
    selected,  \* g.selectedTCPRef and g.selectedUDPRef
    dial,      \* each dial, and the connection it made
    external   \* g.interruptExternalConnections

vars == <<test, scan, history, selected, dial, external>>

NoTest == [pc |-> "none", next |-> 1, testing |-> {}, net |-> 1, updated |-> FALSE]
\* seen is for the properties: the delay of the selected outbound, or 0 once the
\* minimum was 0.
NoScan == [i |-> 0, min |-> None, minDelay |-> 0, seen |-> None]
\* since is for them too: the selection that an open connection belongs to, the
\* one it met when it entered the group, or the first one after that.
NoDial == [pc |-> "load", net |-> None, external |-> FALSE, via |-> None, scan |-> NoScan,
           since |-> None]

Init ==
    /\ test = NoTest /\ scan = NoScan
    /\ history = [o \in Members |-> None]
    /\ selected = [n \in Range(Networks) |-> None]
    /\ \E net \in [Dialers -> Range(Networks)], ext \in [Dialers -> BOOLEAN] :
         dial = [d \in Dialers |-> [NoDial EXCEPT !.net = net[d], !.external = ext[d]]]
    /\ external \in BOOLEAN

-----------------------------------------------------------------------------
(* Select, one load of the history at a time.                              *)

\* The selected outbound comes first, if it has a history.
ScanCurrent(s, n) ==
    LET cur == selected[n]
    IN  IF cur # None /\ history[cur] # None
        THEN [i |-> 1, min |-> cur, minDelay |-> history[cur], seen |-> history[cur]]
        ELSE [s EXCEPT !.i = 1]

\* Fault: the tolerance favours the newcomer.
EagerlyBetter(delay, min) == min = 0 \/ (min + Tolerance) % Width > delay

Better(delay, min) == min = 0 \/ min > (delay + Tolerance) % Width

ScanNext(s, n) ==
    LET o == Outbounds[s.i]
    IN  IF n \in Supports[o] /\ history[o] # None /\ Better(history[o], s.minDelay)
        THEN [i |-> s.i + 1, min |-> o, minDelay |-> history[o],
              seen |-> IF history[o] = 0 THEN 0 ELSE s.seen]
        ELSE [s EXCEPT !.i = @ + 1]

ScanStep(s, n) == IF s.i = 0 THEN ScanCurrent(s, n) ELSE ScanNext(s, n)

Scanned(s) == s.i > Len(Outbounds)

\* Where the list has its first outbound that supports the network, if it has one.
FirstSupporting(n) ==
    {i \in DOMAIN Outbounds : /\ n \in Supports[Outbounds[i]]
                              /\ \A j \in 1..(i - 1) : n \notin Supports[Outbounds[j]]}

\* The result: without any history, that first one.
Select(s, n) ==
    IF s.min # None THEN s.min
    ELSE IF FirstSupporting(n) = {} THEN None
    ELSE Outbounds[CHOOSE i \in FirstSupporting(n) : TRUE]

-----------------------------------------------------------------------------
(* The test.                                                               *)

\* urlTest; a call while one runs returns at once.
Call ==
    /\ test.pc = "none"
    /\ test' = [NoTest EXCEPT !.pc = "walk"]
    /\ UNCHANGED <<scan, history, selected, dial, external>>

\* The next outbound is tested, or skipped if its history is recent and the
\* call does not force the test.
Walk ==
    /\ test.pc = "walk" /\ test.next <= Len(Outbounds)
    /\ LET o == Outbounds[test.next]
       IN  \/ test' = [test EXCEPT !.next = @ + 1, !.testing = @ \cup {o}]
           \/ /\ history[o] # None
              /\ test' = [test EXCEPT !.next = @ + 1]
    /\ UNCHANGED <<scan, history, selected, dial, external>>

\* The test of an outbound ends with a delay, or with an error or a timeout.
TestEnds(o) ==
    /\ o \in test.testing
    /\ \E delay \in Delays \cup {None} : history' = [history EXCEPT ![o] = delay]
    /\ test' = [test EXCEPT !.testing = @ \ {o}]
    /\ UNCHANGED <<scan, selected, dial, external>>

Wait ==
    /\ test.pc = "walk" /\ test.next > Len(Outbounds) /\ test.testing = {}
    /\ test' = [test EXCEPT !.pc = "select", !.next = 1]
    /\ UNCHANGED <<scan, history, selected, dial, external>>

\* performUpdateCheck, for one network after the other.
UpdateScan ==
    /\ test.pc = "select" /\ ~Scanned(scan)
    /\ scan' = ScanStep(scan, Networks[test.net])
    /\ UNCHANGED <<test, history, selected, dial, external>>

Switches(n) ==
    LET o == Select(scan, n)
    IN  o # None /\ (selected[n] = None \/ (scan.min # None /\ o # selected[n]))

\* Fault: only a switch of the first network counts.
UpdatedFirst(n) == Switches(n) /\ selected[n] # None /\ test.net = 1

Updated(n) == Switches(n) /\ selected[n] # None

\* The first selection is no update, and keeps the connections there are.
Adopted(n, o) ==
    [d \in Dialers |-> IF dial[d].pc = "open" /\ dial[d].net = n THEN [dial[d] EXCEPT !.since = o]
                       ELSE dial[d]]

UpdateStore ==
    /\ test.pc = "select" /\ Scanned(scan)
    /\ LET n == Networks[test.net]
       IN  /\ selected' = IF Switches(n) THEN [selected EXCEPT ![n] = Select(scan, n)] ELSE selected
           /\ dial' = IF selected[n] = None THEN Adopted(n, selected'[n]) ELSE dial
           /\ test' = IF test.net < Len(Networks)
                      THEN [test EXCEPT !.net = @ + 1, !.updated = Updated(n)]
                      ELSE [test EXCEPT !.pc = "interrupt", !.updated = @ \/ Updated(n)]
    /\ scan' = NoScan
    /\ UNCHANGED <<history, external>>

\* Interrupt closes the connections in the group, the external ones if so
\* configured.
Interrupt ==
    /\ test.pc = "interrupt"
    /\ dial' = [d \in Dialers |->
         IF test.updated /\ dial[d].pc = "open" /\ (~dial[d].external \/ external)
         THEN [dial[d] EXCEPT !.pc = "closed"] ELSE dial[d]]
    /\ test' = NoTest
    /\ UNCHANGED <<scan, history, selected, external>>

-----------------------------------------------------------------------------
(* The dials, of DialContext and ListenPacket.                             *)

\* The selected outbound is loaded; Select is asked if there is none.
Load(d) ==
    /\ dial[d].pc = "load"
    /\ LET o == selected[dial[d].net]
       IN  dial' = [dial EXCEPT ![d] = [@ EXCEPT !.via = o, !.pc = IF o = None THEN "select" ELSE "dial"]]
    /\ UNCHANGED <<test, scan, history, selected, external>>

DialSelect(d) ==
    /\ dial[d].pc = "select"
    /\ LET s == dial[d].scan
           n == dial[d].net
       IN  dial' = IF ~Scanned(s) THEN [dial EXCEPT ![d].scan = ScanStep(s, n)]
                   ELSE [dial EXCEPT ![d] =
                           [@ EXCEPT !.via = Select(s, n), !.scan = NoScan,
                                     !.pc = IF Select(s, n) = None THEN "closed" ELSE "dial"]]
    /\ UNCHANGED <<test, scan, history, selected, external>>

\* A dial that fails deletes the history of the outbound.
DialFails(d) ==
    /\ dial[d].pc = "dial"
    /\ dial' = [dial EXCEPT ![d].pc = "closed"]
    /\ history' = [history EXCEPT ![dial[d].via] = None]
    /\ UNCHANGED <<test, scan, selected, external>>

\* The connection is made, and then enters the interrupt group.
DialSucceeds(d) ==
    /\ dial[d].pc = "dial"
    /\ dial' = [dial EXCEPT ![d].pc = "enter"]
    /\ UNCHANGED <<test, scan, history, selected, external>>

NewConn(d) ==
    /\ dial[d].pc = "enter"
    /\ dial' = [dial EXCEPT ![d] = [@ EXCEPT !.pc = "open", !.since = selected[dial[d].net]]]
    /\ UNCHANGED <<test, scan, history, selected, external>>

CloseConn(d) ==
    /\ dial[d].pc = "open"
    /\ dial' = [dial EXCEPT ![d].pc = "closed"]
    /\ UNCHANGED <<test, scan, history, selected, external>>

Next ==
    \/ Call \/ Walk \/ (\E o \in Members : TestEnds(o)) \/ Wait
    \/ UpdateScan \/ UpdateStore \/ Interrupt
    \/ \E d \in Dialers : Load(d) \/ DialSelect(d) \/ DialFails(d) \/ DialSucceeds(d)
                          \/ NewConn(d) \/ CloseConn(d)

Spec == Init /\ [][Next]_vars

-----------------------------------------------------------------------------
TypeOK ==
    /\ test.pc \in {"none", "walk", "select", "interrupt"} /\ test.testing \subseteq Members
    /\ scan.i \in 0..(Len(Outbounds) + 1)
    /\ history \in [Members -> Delays \cup {None}]
    /\ \A n \in Range(Networks) : selected[n] \in {o \in Members : n \in Supports[o]} \cup {None}
    /\ \A d \in Dialers : dial[d].pc \in {"load", "select", "dial", "enter", "open", "closed"}
    /\ external \in BOOLEAN

\* A selection once made is given up only for an outbound that was measured
\* faster, by more than the tolerance unless the old one has no measurement;
\* a delay of 0 counts as none, and delay and tolerance must not overflow.
SwitchJustified ==
    [][\A n \in Range(Networks) : selected'[n] # selected[n] /\ selected[n] # None =>
         /\ scan.min = selected'[n]
         /\ scan.seen \notin {None, 0} => scan.minDelay + Tolerance < scan.seen]_vars

\* Between tests, a connection that is open and that Interrupt may close has
\* not outlived the selection it belongs to: a switch closed what it found in
\* the group.  The first selection is no switch, and keeps what entered before
\* it; what enters late, its dial having loaded an earlier selection, belongs
\* to the selection it meets, and goes with that one.
NoStaleConnection ==
    /\ TypeOK
    /\ test.pc \notin {"select", "interrupt"} =>
         \A d \in Dialers : dial[d].pc = "open" /\ (~dial[d].external \/ external) =>
             dial[d].since = selected[dial[d].net]
=============================================================================
