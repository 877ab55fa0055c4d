-------------------------------- MODULE STUN --------------------------------
(***************************************************************************)
(* The NAT test of common/stun: a binding request, then the two mapping    *)
(* tests and the two filtering tests of RFC 5780, all on one socket.  The  *)
(* network drops packets and roundTrip sends a request up to three times.  *)
(*                                                                         *)
(* An address is a pair of an IP and a port of the server; the server is   *)
(* asked at Primary and announces Other.  The NAT gives the socket an      *)
(* external address by where it sends to, and lets a packet in by where    *)
(* that external address has sent to.                                      *)
(***************************************************************************)
EXTENDS Naturals

CONSTANTS None

VARIABLES
    nat,       \* what the NAT does: its mapping and its filtering
    sent,      \* what has passed the NAT outwards: the external address and where it went
    phase,     \* the request that is being made
    retransmitCount,
    external,  \* per test, the external address the server saw
    report,    \* the Result
    stopped,   \* history: the NAT has stopped a response to this test
    lost       \* history: the tests that failed without the NAT stopping a response

stunVars == <<nat, sent, phase, retransmitCount, external, report, stopped, lost>>

Kinds == {"independent", "address", "port"}
Primary == <<"ip", "p">>
Other == <<"other", "q">>
maxRetransmit == 2

\* External addresses: of the NAT itself, one per destination IP, or one per
\* destination IP and port.
Mapped(to) ==
    CASE nat.mapping = "independent" -> <<>>
      [] nat.mapping = "address"     -> <<to[1]>>
      [] nat.mapping = "port"        -> to

\* A packet from the server address src to the external address e gets in,
\* when out has gone out.
LetsIn(out, e, src) ==
    \E s \in out :
        /\ s.by = e
        /\ nat.filtering \in {"address", "port"} => s.to[1] = src[1]
        /\ nat.filtering = "port" => s.to[2] = src[2]

Tests == {"binding", "mapping2", "mapping3", "filtering2", "filtering3"}

\* Where a test sends its request, and where it asks to be answered from.
To(test) == CASE test = "mapping2" -> <<Other[1], Primary[2]>>
              [] test = "mapping3" -> Other
              [] OTHER             -> Primary

\* Fault: the change of the port alone is asked for as a change of both.
FromBoth(test) == IF test \in {"filtering2", "filtering3"} THEN Other ELSE To(test)

From(test) == CASE test = "filtering2" -> Other
                [] test = "filtering3" -> <<Primary[1], Other[2]>>
                [] OTHER               -> To(test)

Unknown == "unknown"

Init ==
    /\ nat \in [mapping : Kinds, filtering : Kinds]
    /\ sent = {} /\ retransmitCount = 0
    /\ phase = "binding"
    /\ external = [t \in Tests |-> None]
    /\ report = [mapping |-> Unknown, filtering |-> Unknown, supported |-> FALSE]
    /\ stopped = FALSE /\ lost = {}

\* Run goes on with the next test, unless its context is done between phases.
Goto(test) ==
    /\ retransmitCount' = 0 /\ stopped' = FALSE
    /\ phase' \in {test} \cup (IF test \in {"mapping2", "filtering2"} THEN {"done"} ELSE {})

Decided(r) == report' = r

-----------------------------------------------------------------------------
\* Fault: any change of the address counts as one by port.
EitherDiffers(second, third) == "port"

\* detectNATMapping, once the answer to its second test differs.
MappingOf(second, third) == IF second = third THEN "address" ELSE "port"

\* The response to a test has come: what Run, detectNATMapping and
\* detectNATFiltering make of it.
Answered(test) ==
    /\ external' = [external EXCEPT ![test] = Mapped(To(test))]
    /\ UNCHANGED lost
    /\ CASE test = "binding" ->
              \/ Decided([report EXCEPT !.supported = TRUE]) /\ Goto("mapping2")
              \/ UNCHANGED report /\ Goto("done")          \* no OTHER-ADDRESS
         [] test = "mapping2" ->
              IF external'[test] = external["binding"]
              THEN Decided([report EXCEPT !.mapping = "independent"]) /\ Goto("filtering2")
              ELSE UNCHANGED report /\ Goto("mapping3")
         [] test = "mapping3" ->
              Decided([report EXCEPT !.mapping = MappingOf(external["mapping2"], external'[test])]) /\ Goto("filtering2")
         [] test = "filtering2" -> Decided([report EXCEPT !.filtering = "independent"]) /\ Goto("done")
         [] test = "filtering3" -> Decided([report EXCEPT !.filtering = "address"]) /\ Goto("done")

\* roundTrip has failed; was says whether the NAT stopped a response.
Failed(test, was) ==
    /\ lost' = IF was THEN lost ELSE lost \cup {test}
    /\ UNCHANGED external
    /\ CASE test = "binding" -> UNCHANGED report /\ Goto("failed")
         [] test \in {"mapping2", "mapping3"} -> UNCHANGED report /\ Goto("filtering2")
         [] test = "filtering2" -> UNCHANGED report /\ Goto("filtering3")
         [] test = "filtering3" -> Decided([report EXCEPT !.filtering = "port"]) /\ Goto("done")

\* One attempt of roundTrip: the request gets out or is lost, the response gets
\* in, is stopped by the NAT, or is lost; and after the last one it gives up.
\* A response to an earlier test carries another transaction ID and is skipped.
Attempt ==
    /\ phase \in Tests
    /\ \E leaves, comes \in BOOLEAN :
         LET by == Mapped(To(phase))
             out == IF leaves THEN sent \cup {[by |-> by, to |-> To(phase)]} ELSE sent
             back == leaves /\ comes
             in == back /\ LetsIn(out, by, From(phase))
             was == stopped \/ (back /\ ~in)
         IN /\ sent' = out
            /\ \/ in /\ Answered(phase)
               \/ /\ ~in /\ retransmitCount < maxRetransmit
                  /\ retransmitCount' = retransmitCount + 1 /\ stopped' = was
                  /\ UNCHANGED <<phase, external, report, lost>>
               \/ ~in /\ retransmitCount = maxRetransmit /\ Failed(phase, was)
    /\ UNCHANGED nat

\* The request cannot be written, or the response is an error or names no
\* address: roundTrip fails at once.
Refused == phase \in Tests /\ Failed(phase, stopped) /\ UNCHANGED <<nat, sent>>

Next == Attempt \/ Refused

Spec == Init /\ [][Next]_stunVars

-----------------------------------------------------------------------------
\* The mapping that is reported is the NAT's, whatever was lost; it is left
\* unknown when a test failed (detectNATMapping).
MappingRight == report.mapping \in {Unknown, nat.mapping}

\* The mapping tests sent to the other IP from the same socket, and with it
\* from the same external address.
HolePunched == nat.mapping = "independent" /\ nat.filtering = "address" /\ report.filtering = "independent"

\* The filtering that is reported is the NAT's.  It is stricter only if every
\* response to a test was lost, and laxer only in one case: with a mapping that
\* does not depend on the destination, the mapping test has already opened the
\* NAT for the other IP (detectNATFiltering).
FilteringRight ==
    \/ report.filtering = Unknown
    \/ report.filtering = nat.filtering
    \/ HolePunched
    \/ report.filtering # "independent" /\ lost \cap {"filtering2", "filtering3"} # {}

\* What Run reports of the NAT is what the NAT does, within those limits.
NATTypeRight == MappingRight /\ FilteringRight

\* The tests are those of RFC 5780, sections 4.3 and 4.4, and find the NAT's
\* behaviour when nothing is lost.
NATFilteringFound == lost = {} /\ report.filtering # Unknown => report.filtering = nat.filtering
=============================================================================
