----------------------------- MODULE RouteRules -----------------------------
(***************************************************************************)
(* The router's way with one connection (route/route.go): matchRule with   *)
(* its sniff and resolve actions, and what routeConnection and route-      *)
(* PacketConnection do with the rule it selects and the payload it has     *)
(* read; or PreMatch, that a tun inbound asks before it accepts.           *)
(*                                                                         *)
(* A rule says when it matches: always, never, once a protocol is known    *)
(* (sniffed) or once there are addresses (resolved).  ok says whether a    *)
(* resolve succeeds and whether an outbound exists and has the network;    *)
(* names stands for the sniffers of a sniff action.  Payload is the se-    *)
(* quence 1, 2, ... of segments or packets; a buffer is a sequence of them.*)
(***************************************************************************)
EXTENDS Integers, Sequences

CONSTANTS
    None,
    MaxRead  \* segments or packets that arrive while a sniff action reads

VARIABLES
    rules,  \* Router.rules
    conn    \* the connection that is routed

rvars == <<rules, conn>>

Arrive(network, preMatch, supportBypass) ==
    [network |-> network, phase |-> IF preMatch THEN "pre" ELSE "match",
     bypass |-> supportBypass, index |-> 0, protocol |-> FALSE, resolved |-> FALSE,
     names |-> None, error |-> None, buffers |-> <<>>, read |-> 0, readers |-> 0,
     verdict |-> None, via |-> 0, result |-> None, output |-> <<>>, onClose |-> 0]

Pre == conn.phase = "pre"

Matches(r) ==
    CASE r.when = "always" -> TRUE
      [] r.when = "sniffed" -> conn.protocol
      [] r.when = "resolved" -> conn.resolved
      [] OTHER -> FALSE

Current == rules[conn.index + 1]
At(action) ==
    /\ conn.phase \in {"pre", "match"} /\ conn.index < Len(rules)
    /\ Matches(Current) /\ Current.action = action

Passed == [conn EXCEPT !.index = @ + 1]

-----------------------------------------------------------------------------
\* matchRule goes on to the next rule: this one does not match, sets options
\* only, or is a bypass without an outbound where bypass is not supported.
PassOver ==
    /\ conn.phase \in {"pre", "match"} /\ conn.index < Len(rules)
    /\ \/ ~Matches(Current)
       \/ Current.action = "options"
       \/ Current.action = "bypass" /\ ~(Pre /\ conn.bypass)
    /\ conn' = Passed

\* Both end the walk with a fatal error, in PreMatch and in routeConnection,
\* whose caller closes with onClose.
Fatal == [conn EXCEPT !.phase = "done", !.result = "error",
            !.verdict = IF Pre THEN "error" ELSE @,
            !.onClose = IF Pre THEN @ ELSE @ + 1]

\* actionResolve
Resolve ==
    /\ At("resolve")
    /\ conn' = IF Current.ok THEN [Passed EXCEPT !.resolved = TRUE] ELSE Fatal

\* Fault: PreMatch goes on past a sniff action.
SniffsOn == At("sniff") /\ Pre /\ conn' = Passed

\* PreMatch cannot sniff: the walk stops at a sniff rule and the connection
\* is let in.
PreMatchSniff ==
    /\ At("sniff") /\ Pre
    /\ conn' = [conn EXCEPT !.phase = "done", !.verdict = "continue"]

\* The early returns of actionSniff; not ok is a server-first port, or sniffers
\* for the other network only.
SniffSkipped ==
    \/ ~Current.ok \/ conn.protocol
    \/ conn.names = Current.names /\ conn.error = "other"

SkipSniff ==
    /\ At("sniff") /\ ~Pre /\ SniffSkipped
    /\ conn' = Passed

Segments(n) == [i \in 1..n |-> conn.read + i]

\* PeekStream of n segments into one buffer; the sniffers say what it is
\* ("known"), that it is nothing they know ("other") or, when no more arrives,
\* that they need more.
SniffStream(n, end) ==
    /\ At("sniff") /\ ~Pre /\ ~SniffSkipped /\ conn.network = "tcp"
    /\ n = 0 => end = "other"
    /\ conn' = [Passed EXCEPT
                 !.protocol = (end = "known"), !.names = Current.names,
                 !.error = IF end = "known" THEN None ELSE end,
                 !.buffers = IF n = 0 THEN @ ELSE Append(@, Segments(n)),
                 !.read = @ + n, !.readers = @ + (IF n = 0 THEN 0 ELSE 1)]

\* actionSniff of packets, when one of the buffered ones settles it, perhaps
\* after parts of a QUIC hello
SniffBuffered(known, more) ==
    /\ At("sniff") /\ ~Pre /\ ~SniffSkipped /\ conn.network = "udp"
    /\ conn.buffers # <<>>
    /\ more => Len(conn.buffers) > 1
    /\ conn' = [Passed EXCEPT !.protocol = (known \/ more), !.names = Current.names,
                  !.error = IF known THEN None ELSE "other"]

\* The same, when every buffered packet is a part of a QUIC hello and n more
\* are read: it ends with a packet that settles it or with the deadline.  What
\* was buffered is handed back together with what was read, and matchRule
\* appends both.
SniffPackets(n, end) ==
    /\ At("sniff") /\ ~Pre /\ ~SniffSkipped /\ conn.network = "udp"
    /\ end \in {"known", "other"} => n > 0
    /\ LET fresh == [i \in 1..n |-> <<conn.read + i>>]
           more == conn.buffers # <<>> \/ n > 1 \/ (n = 1 /\ end = "deadline")
       IN  conn' = [Passed EXCEPT
                     !.protocol = (end = "known" \/ more),
                     !.names = IF n > 0 \/ conn.buffers # <<>> THEN Current.names ELSE @,
                     !.error = CASE end = "known" -> None
                                 [] end = "deadline" -> IF more THEN "more" ELSE @
                                 [] OTHER -> end,
                     !.buffers = @ \o (@ \o fresh),
                     !.read = @ + n,
                     !.readers = @ + (IF n = 0 /\ conn.buffers = <<>> THEN 0 ELSE 1)]

\* A read that fails for another reason than the deadline, or the caller's
\* context, is fatal.
SniffFails ==
    /\ At("sniff") /\ ~Pre /\ ~SniffSkipped /\ conn.network = "udp"
    /\ conn' = Fatal

-----------------------------------------------------------------------------
\* What PreMatch says of the selected rule: a reject or a supported bypass is
\* final, anything else lets the connection in.
PreMatchEnds ==
    /\ Pre
    /\ \/ conn.index = Len(rules)
       \/ \E a \in {"route", "reject", "hijack", "bypass", "bypassTo"} : At(a)
    /\ ~(conn.index < Len(rules) /\ Current.action = "bypass" /\ ~conn.bypass)
    /\ LET reject == conn.index < Len(rules) /\ Current.action = "reject"
           bypass == conn.index < Len(rules) /\ conn.bypass
                       /\ Current.action \in {"bypass", "bypassTo"}
       IN  conn' = IF reject \/ bypass
                   THEN [conn EXCEPT !.phase = "done", !.via = conn.index + 1,
                           !.verdict = IF reject THEN "reject" ELSE "bypass"]
                   ELSE [conn EXCEPT !.phase = "done", !.verdict = "continue"]

Flat(bs) ==
    LET upTo[n \in 0..Len(bs)] == IF n = 0 THEN <<>> ELSE upTo[n - 1] \o bs[n]
    IN  upTo[Len(bs)]

\* Fault: a buffer replaces the ones before it.
LastOnly(bs) == IF bs = <<>> THEN <<>> ELSE bs[Len(bs)]

\* NewCachedConn wraps once per buffer: the last one is read first.
Replay(bs) == Flat([i \in 1..Len(bs) |-> bs[Len(bs) + 1 - i]])

\* The buffers are released and the caller closes with onClose.
Refuse(result) ==
    [conn EXCEPT !.phase = "done", !.via = conn.index + 1, !.result = result, !.onClose = @ + 1]

\* Handed to the outbound, or to the connection manager.
Forward == [conn EXCEPT !.phase = "done", !.result = "forward", !.output = Replay(conn.buffers)]

RouteTo ==
    /\ ~Pre /\ (At("route") \/ At("bypassTo"))
    /\ conn' = IF Current.ok THEN [Forward EXCEPT !.via = conn.index + 1] ELSE Refuse("error")

Reject == ~Pre /\ At("reject") /\ conn' = Refuse("reject")

\* hijackDNSStream runs to its end and closes; hijackDNSPacket hands the
\* packets over, and when it fails both it and its caller close.
HijackDNS(fails) ==
    /\ ~Pre /\ At("hijack")
    /\ conn' = [conn EXCEPT !.phase = "done", !.via = conn.index + 1, !.result = "hijack",
                  !.output = IF conn.network = "tcp" THEN Replay(conn.buffers)
                             ELSE Flat(conn.buffers),
                  !.onClose = IF conn.network = "udp" /\ fails THEN @ + 2 ELSE @ + 1]

DefaultOutbound(ok) ==
    /\ conn.phase = "match" /\ conn.index = Len(rules)
    /\ conn' = IF ok THEN Forward ELSE [Refuse("error") EXCEPT !.via = 0]

RouteStep ==
    /\ UNCHANGED rules
    /\ \/ PassOver \/ Resolve \/ PreMatchSniff \/ SkipSniff \/ SniffFails
       \/ \E n \in 0..MaxRead, end \in {"known", "other", "more"} : SniffStream(n, end)
       \/ \E known, more \in BOOLEAN : SniffBuffered(known, more)
       \/ \E n \in 0..MaxRead, end \in {"known", "other", "deadline"} : SniffPackets(n, end)
       \/ PreMatchEnds \/ RouteTo \/ Reject
       \/ \E fails \in BOOLEAN : HijackDNS(fails)
       \/ \E ok \in BOOLEAN : DefaultOutbound(ok)

-----------------------------------------------------------------------------
\* A connection that is handed over carries what was read from it: a stream
\* in order, packets each once, as long as one sniff action read it (a second
\* one reorders segments and repeats packets, route.go:149 and 572).  One that
\* is not is closed with onClose, once: only a packet hijack that fails calls
\* it again in its caller (dns.go:58).
HandedOver ==
    conn.phase = "done" /\ conn.verdict = None =>
       /\ conn.result \in {"forward", "hijack"} /\ conn.readers < 2 =>
            IF conn.network = "tcp" THEN conn.output = [i \in 1..conn.read |-> i]
            ELSE /\ {conn.output[i] : i \in DOMAIN conn.output} = 1..conn.read
                 /\ Len(conn.output) = conn.read
       /\ conn.result = "forward" <=> conn.onClose = 0
       /\ conn.onClose > 1 => conn.result = "hijack" /\ conn.network = "udp"
=============================================================================
