--------------------------- MODULE PlatformProofs ---------------------------
(***************************************************************************)
(* Proofs about the parts that work beside the traffic: the NAT test, the  *)
(* network manager, the memory guard and the accounts of the Shadowsocks   *)
(* manager, for every value of their constants and without the bounds of   *)
(* the model-checked instance.                                             *)
(***************************************************************************)
EXTENDS MCPlatform, Integers, TLAPS

-----------------------------------------------------------------------------
(* The NAT test. *)

\* What the tests know of the NAT when they decide: the addresses the server
\* saw, where the socket has sent to (to the other port of the other IP only
\* behind a NAT whose mapping depends on the destination), and what a stopped
\* response says of its filtering.
NATInv ==
    /\ nat \in [mapping : NAT!Kinds, filtering : NAT!Kinds]
    /\ phase \in NAT!Tests \cup {"done", "failed"}
    /\ stopped \in BOOLEAN
    /\ DOMAIN external = NAT!Tests
    /\ phase \in {"mapping2", "mapping3"} => external["binding"] = NAT!Mapped(NAT!Primary)
    /\ phase = "mapping3" =>
         /\ external["mapping2"] = NAT!Mapped(NAT!To("mapping2"))
         /\ nat.mapping # "independent"
    /\ \A s \in sent :
         /\ s.by = NAT!Mapped(s.to)
         /\ s.to \in {NAT!To(test) : test \in NAT!Tests}
         /\ s.to = NAT!Other => nat.mapping # "independent"
    /\ report \in [mapping : {NAT!Unknown, nat.mapping},
                   filtering : {NAT!Unknown} \cup NAT!Kinds, supported : BOOLEAN]
    /\ phase \in NAT!Tests => report.filtering = NAT!Unknown
    /\ phase = "filtering2" /\ stopped => nat.filtering # "independent"
    /\ phase = "filtering3" => "filtering2" \in lost \/ nat.filtering # "independent"
    /\ phase = "filtering3" /\ stopped => nat.filtering = "port"
    /\ NAT!FilteringRight

\* Where a test sends to, and where its answer comes from, for each test.
LEMMA NATTo ==
    /\ NAT!To("binding") = <<"ip", "p">> /\ NAT!To("mapping2") = <<"other", "p">>
    /\ NAT!To("mapping3") = <<"other", "q">> /\ NAT!To("filtering2") = <<"ip", "p">>
    /\ NAT!To("filtering3") = <<"ip", "p">>
    /\ NAT!From("filtering2") = <<"other", "q">> /\ NAT!From("filtering3") = <<"ip", "q">>
  BY DEF NAT!To, NAT!From, NAT!Primary, NAT!Other

LEMMA NATInit == NAT!Init => NATInv
<1> SUFFICES ASSUME NAT!Init PROVE NATInv
  OBVIOUS
<1> USE DEF NAT!Init, NAT!Kinds, NAT!Tests, NAT!Unknown
<1>1. nat \in [mapping : NAT!Kinds, filtering : NAT!Kinds]
  OBVIOUS
<1>2. phase \in NAT!Tests \cup {"done", "failed"} /\ stopped \in BOOLEAN
  BY ZenonT(30)
<1>3. DOMAIN external = NAT!Tests
  OBVIOUS
<1>4. report \in [mapping : {NAT!Unknown, nat.mapping},
                   filtering : {NAT!Unknown} \cup NAT!Kinds, supported : BOOLEAN]
  OBVIOUS
<1>5. NAT!FilteringRight
  BY DEF NAT!FilteringRight
<1> QED
  BY <1>1, <1>2, <1>3, <1>4, <1>5 DEF NATInv

\* A test that has failed, of which the NAT may have stopped a response, leaves
\* what the tests know.
LEMMA NATFailed ==
    ASSUME NATInv, phase \in NAT!Tests, NEW was \in BOOLEAN, NAT!Failed(phase, was),
           phase = "filtering2" /\ was => nat.filtering # "independent",
           phase = "filtering3" /\ was => nat.filtering = "port",
           nat' = nat,
           \A s \in sent' : /\ s.by = NAT!Mapped(s.to)
                            /\ s.to \in {NAT!To(test) : test \in NAT!Tests}
                            /\ s.to = NAT!Other => nat.mapping # "independent"
    PROVE  NATInv'
<1> USE DEF NAT!Kinds, NAT!Tests, NAT!Unknown
<1>1. /\ lost' = IF was THEN lost ELSE lost \cup {phase}
      /\ external' = external /\ stopped' = FALSE
  BY ZenonT(30) DEF NAT!Failed, NAT!Goto
<1>2. NAT!FilteringRight /\ report.filtering = "unknown"
  BY DEF NATInv
<1>3. CASE phase = "binding"
  BY ZenonT(30), <1>1, <1>2, <1>3 DEF NAT!Failed, NAT!Goto, NAT!Decided, NATInv, NAT!FilteringRight, NAT!Mapped
<1>4. CASE phase \in {"mapping2", "mapping3"}
  BY ZenonT(30), <1>1, <1>2, <1>4 DEF NAT!Failed, NAT!Goto, NAT!Decided, NATInv, NAT!FilteringRight, NAT!Mapped
<1>5. CASE phase = "filtering2"
  BY ZenonT(30), <1>1, <1>2, <1>5 DEF NAT!Failed, NAT!Goto, NAT!Decided, NATInv, NAT!FilteringRight, NAT!Mapped
<1>6. CASE phase = "filtering3"
  BY ZenonT(30), <1>1, <1>2, <1>6 DEF NAT!Failed, NAT!Goto, NAT!Decided, NATInv, NAT!FilteringRight, NAT!Mapped
<1> QED
  BY <1>3, <1>4, <1>5, <1>6

\* So does a test whose response has come, from an address the NAT lets in.
LEMMA NATAnswered ==
    ASSUME NATInv, phase \in NAT!Tests, NAT!Answered(phase),
           phase = "filtering2" =>
               nat.filtering = "independent" \/ (nat.filtering = "address" /\ nat.mapping = "independent"),
           phase = "filtering3" => nat.filtering # "port",
           nat' = nat,
           \A s \in sent' : /\ s.by = NAT!Mapped(s.to)
                            /\ s.to \in {NAT!To(test) : test \in NAT!Tests}
                            /\ s.to = NAT!Other => nat.mapping # "independent"
    PROVE  NATInv'
<1> USE DEF NAT!Kinds, NAT!Tests, NAT!Unknown
<1>1. /\ lost' = lost /\ stopped' = FALSE
      /\ external' = [external EXCEPT ![phase] = NAT!Mapped(NAT!To(phase))]
  BY ZenonT(30) DEF NAT!Answered, NAT!Goto
<1>2. NAT!FilteringRight /\ report.filtering = "unknown"
  BY DEF NATInv
<1>3. DOMAIN external' = NAT!Tests /\ external'[phase] = NAT!Mapped(NAT!To(phase))
      /\ \A test \in NAT!Tests \ {phase} : external'[test] = external[test]
  BY <1>1 DEF NATInv
<1>4. CASE phase = "binding"
  <2>1. /\ phase' \in {"mapping2", "done"}
        /\ report' = [report EXCEPT !.supported = TRUE] \/ report' = report
    BY <1>4 DEF NAT!Answered, NAT!Goto, NAT!Decided
  <2>2. external'["binding"] = NAT!Mapped(NAT!Primary)
    BY <1>3, <1>4, NATTo DEF NAT!Primary
  <2> QED
    BY ZenonT(30), <1>1, <1>2, <1>3, <2>1, <2>2 DEF NATInv, NAT!FilteringRight, NAT!Mapped
<1>5. CASE phase = "mapping2"
  <2>1. CASE external'["mapping2"] = external["binding"]
    <3>1. nat.mapping = "independent"
      BY <1>3, <1>5, <2>1, NATTo DEF NATInv, NAT!Mapped, NAT!Primary
    <3>2. /\ report' = [report EXCEPT !.mapping = "independent"]
          /\ phase' \in {"filtering2", "done"}
      BY <1>5, <2>1 DEF NAT!Answered, NAT!Goto, NAT!Decided
    <3> QED
      BY ZenonT(30), <1>1, <1>2, <1>3, <1>5, <3>1, <3>2 DEF NATInv, NAT!FilteringRight, NAT!Mapped
  <2>2. CASE external'["mapping2"] # external["binding"]
    <3>1. nat.mapping # "independent"
      BY <1>3, <1>5, <2>2, NATTo DEF NATInv, NAT!Mapped, NAT!Primary
    <3>2. report' = report /\ phase' = "mapping3"
      BY <1>5, <2>2 DEF NAT!Answered, NAT!Goto, NAT!Decided
    <3> QED
      BY ZenonT(30), <1>1, <1>2, <1>3, <1>5, <3>1, <3>2 DEF NATInv, NAT!FilteringRight, NAT!Mapped
  <2> QED
    BY <2>1, <2>2
<1>6. CASE phase = "mapping3"
  <2>1. NAT!MappingOf(external["mapping2"], external'["mapping3"]) = nat.mapping
    BY <1>3, <1>6, NATTo DEF NATInv, NAT!Mapped, NAT!MappingOf
  <2>2. /\ report' = [report EXCEPT !.mapping = nat.mapping]
        /\ phase' \in {"filtering2", "done"}
    BY <1>6, <2>1 DEF NAT!Answered, NAT!Goto, NAT!Decided
  <2> QED
    BY ZenonT(30), <1>1, <1>2, <1>3, <1>6, <2>2 DEF NATInv, NAT!FilteringRight, NAT!Mapped
<1>7. CASE phase = "filtering2"
  <2>1. phase' = "done" /\ report' = [report EXCEPT !.filtering = "independent"]
    BY <1>7 DEF NAT!Answered, NAT!Goto, NAT!Decided
  <2>2. NAT!FilteringRight'
    BY <1>7, <2>1 DEF NATInv, NAT!FilteringRight, NAT!HolePunched
  <2> QED
    BY ZenonT(30), <1>1, <1>3, <2>1, <2>2 DEF NATInv, NAT!Mapped
<1>8. CASE phase = "filtering3"
  <2>1. phase' = "done" /\ report' = [report EXCEPT !.filtering = "address"]
    BY <1>8 DEF NAT!Answered, NAT!Goto, NAT!Decided
  <2>2. NAT!FilteringRight'
    BY <1>1, <1>8, <2>1 DEF NATInv, NAT!FilteringRight
  <2> QED
    BY ZenonT(30), <1>1, <1>3, <2>1, <2>2 DEF NATInv, NAT!Mapped
<1> QED
  BY <1>4, <1>5, <1>6, <1>7, <1>8

LEMMA NATInductive == ASSUME NATInv, [NAT!Next]_(NAT!stunVars) PROVE NATInv'
<1> USE DEF NAT!Kinds, NAT!Tests, NAT!Unknown
<1>1. CASE NAT!Refused
  <2>1. phase \in NAT!Tests /\ NAT!Failed(phase, stopped) /\ nat' = nat /\ sent' = sent
    BY SMTT(30), <1>1 DEF NAT!Refused
  <2> QED
    BY <2>1, NATFailed DEF NATInv
<1>2. CASE NAT!Attempt
  <2> DEFINE by == NAT!Mapped(NAT!To(phase))
             packet == [by |-> by, to |-> NAT!To(phase)]
             Out(leaves) == IF leaves THEN sent \cup {packet} ELSE sent
             In(leaves, comes) == leaves /\ comes /\ NAT!LetsIn(Out(leaves), by, NAT!From(phase))
             Was(leaves, comes) == stopped \/ (leaves /\ comes /\ ~In(leaves, comes))
  <2>1. PICK leaves \in BOOLEAN, comes \in BOOLEAN :
          /\ sent' = Out(leaves)
          /\ \/ In(leaves, comes) /\ NAT!Answered(phase)
             \/ /\ ~In(leaves, comes)
                /\ retransmitCount' = retransmitCount + 1 /\ stopped' = Was(leaves, comes)
                /\ UNCHANGED <<phase, external, report, lost>>
             \/ ~In(leaves, comes) /\ NAT!Failed(phase, Was(leaves, comes))
    BY <1>2, Zenon DEF NAT!Attempt
  <2>2. phase \in NAT!Tests /\ nat' = nat
    BY <1>2 DEF NAT!Attempt
  <2>3. /\ packet.by = NAT!Mapped(packet.to)
        /\ packet.to \in {NAT!To(test) : test \in NAT!Tests}
        /\ packet.to = NAT!Other => nat.mapping # "independent"
    BY <2>2, NATTo DEF NATInv, NAT!Other
  <2>4. \A s \in sent' : /\ s.by = NAT!Mapped(s.to)
                         /\ s.to \in {NAT!To(test) : test \in NAT!Tests}
                         /\ s.to = NAT!Other => nat.mapping # "independent"
    BY <2>1, <2>3, Zenon DEF NATInv
  <2>5. In(leaves, comes) => \E s \in sent' :
          /\ s.by = by
          /\ nat.filtering \in {"address", "port"} => s.to[1] = NAT!From(phase)[1]
          /\ nat.filtering = "port" => s.to[2] = NAT!From(phase)[2]
    BY <2>1, Zenon DEF NAT!LetsIn
  <2>6. \A s \in sent' : s.to \in {<<"ip", "p">>, <<"other", "p">>, <<"other", "q">>}
    BY <2>4, NATTo
  <2>7. In(leaves, comes) /\ phase = "filtering2" =>
            nat.filtering = "independent" \/ (nat.filtering = "address" /\ nat.mapping = "independent")
    <3> SUFFICES ASSUME In(leaves, comes), phase = "filtering2", nat.filtering # "independent"
                 PROVE  nat.filtering = "address" /\ nat.mapping = "independent"
      OBVIOUS
    <3>1. nat.filtering \in {"address", "port"} /\ nat.mapping \in {"independent", "address", "port"}
      BY DEF NATInv
    <3>2. PICK s \in sent' : /\ s.by = by /\ s.to[1] = "other"
                             /\ nat.filtering = "port" => s.to[2] = "q"
      BY SMTT(30), <2>5, <3>1, NATTo
    <3>3. s.to \in {<<"other", "p">>, <<"other", "q">>} /\ NAT!Mapped(s.to) = NAT!Mapped(<<"ip", "p">>)
      BY <2>4, <2>6, <3>2, NATTo
    <3>4. nat.mapping = "independent"
      <4>1. ASSUME nat.mapping = "address" PROVE FALSE
        <5>1. NAT!Mapped(s.to) = <<"other">> /\ NAT!Mapped(<<"ip", "p">>) = <<"ip">>
          BY <3>2, <4>1 DEF NAT!Mapped
        <5> QED
          BY <3>3, <5>1
      <4>2. ASSUME nat.mapping = "port" PROVE FALSE
        <5>1. NAT!Mapped(s.to) = s.to /\ NAT!Mapped(<<"ip", "p">>) = <<"ip", "p">>
          BY SMTT(30), <4>2 DEF NAT!Mapped
        <5> QED
          BY <3>3, <5>1
      <4> QED
        BY <3>1, <4>1, <4>2
    <3> QED
      BY SMTT(30), <2>4, <3>1, <3>2, <3>3, <3>4 DEF NAT!Other
  <2>8. In(leaves, comes) /\ phase = "filtering3" => nat.filtering # "port"
    BY SMTT(30), <2>4, <2>5, <2>6, NATTo DEF NATInv
  <2>9. leaves => packet \in sent'
    BY <2>1
  <2>10. ~In(leaves, comes) /\ leaves /\ comes =>
           ~(/\ nat.filtering \in {"address", "port"} => NAT!To(phase)[1] = NAT!From(phase)[1]
             /\ nat.filtering = "port" => NAT!To(phase)[2] = NAT!From(phase)[2])
    BY ZenonT(30), <2>1, <2>9 DEF NAT!LetsIn
  <2>11. ~In(leaves, comes) /\ phase = "filtering2" /\ Was(leaves, comes) => nat.filtering # "independent"
    BY SMTT(30), <2>10 DEF NATInv
  <2>12. ~In(leaves, comes) /\ phase = "filtering3" /\ Was(leaves, comes) => nat.filtering = "port"
    BY SMTT(30), <2>10, NATTo DEF NATInv
  <2>13. CASE In(leaves, comes) /\ NAT!Answered(phase)
    BY SMTT(30), <2>2, <2>4, <2>7, <2>8, <2>13, NATAnswered
  <2>14. CASE /\ ~In(leaves, comes)
              /\ retransmitCount' = retransmitCount + 1 /\ stopped' = Was(leaves, comes)
              /\ UNCHANGED <<phase, external, report, lost>>
    <3>1. Was(leaves, comes) \in BOOLEAN
      BY DEF NATInv
    <3> HIDE DEF In, Was
    <3> QED
      BY SMTT(30), <2>2, <2>4, <2>11, <2>12, <2>14, <3>1 DEF NATInv, NAT!FilteringRight, NAT!HolePunched, NAT!Mapped
  <2>15. CASE ~In(leaves, comes) /\ NAT!Failed(phase, Was(leaves, comes))
    <3>1. Was(leaves, comes) \in BOOLEAN
      BY DEF NATInv
    <3> HIDE DEF In, Was
    <3> QED
      BY SMTT(30), <2>2, <2>4, <2>11, <2>12, <2>15, <3>1, NATFailed
  <2> QED
    BY <2>1, <2>13, <2>14, <2>15
<1>3. CASE UNCHANGED NAT!stunVars
  BY <1>3 DEF NAT!stunVars, NATInv, NAT!FilteringRight, NAT!HolePunched, NAT!Mapped
<1> QED
  BY SMTT(30), <1>1, <1>2, <1>3 DEF NAT!Next

\* What a NAT test reports of the NAT is what the NAT does, whichever packets
\* were lost and whichever the NAT stopped, within the limits NATTypeRight names
\* (detectNATMapping, detectNATFiltering, roundTrip).
THEOREM NATTypeRightHolds == NAT!Spec => []NATTypeRight
<1>1. NATInv => NATTypeRight
  BY DEF NATInv, NATTypeRight, NAT!NATTypeRight, NAT!MappingRight
<1>2. NATInv /\ [NAT!Next]_(NAT!stunVars) => NATInv'
  BY NATInductive
<1> QED
  BY <1>1, <1>2, NATInit, PTL DEF NAT!Spec

-----------------------------------------------------------------------------
(* The network manager. *)

Updates == [to : Interfaces \cup {Network!Nowhere}, at : {"listed", "notify", "reset"}]

\* No interface is called "nowhere", and an update under way is not None.
InterfacesNamed == Network!Nowhere \notin Interfaces /\ None \notin Updates

\* Every connection that a reset could reach runs over the default interface.
Follow ==
    default # None =>
        \A c \in Conns \ netExcused : conn[c].at \in {"dialing", "tracked"} => conn[c].on = default

\* The connections follow the default interface but from the change of the
\* default up to the end of notifyInterfaceUpdate or, where that resets the
\* network, up to the emptying of the table; meanwhile the update still knows
\* the interface.
NetworkInv ==
    /\ Network!TypeOK
    /\ update \in Updates \cup {None}
    /\ reset \in [Network!Resetters -> [at : {"none", "begun", "taken"}, closers : SUBSET Conns]]
    /\ conn \in [Conns -> [at : {"idle", "dialing", "tracked", "taken"}, on : Interfaces \cup {None}]]
    /\ reset["update"].at # "none" <=> update # None /\ update.at = "reset"
    /\ update = None \/ update.at = "listed" => Follow /\ (networkPaused => default = None)
    /\ update # None /\ update.at = "notify" =>
         default = IF update.to = Network!Nowhere THEN None ELSE update.to
    /\ update # None /\ update.at = "reset" =>
         /\ ~networkPaused
         /\ reset["update"].at = "taken" => Follow

LEMMA NetworkInit == ASSUME InterfacesNamed, Network!Init PROVE NetworkInv
<1> USE DEF Network!Init, Network!Resetters, Network!Quiet, Network!Idle
<1>1. Network!TypeOK
  BY ZenonT(30) DEF Network!TypeOK
<1>2. /\ reset \in [Network!Resetters -> [at : {"none", "begun", "taken"}, closers : SUBSET Conns]]
      /\ conn \in [Conns -> [at : {"idle", "dialing", "tracked", "taken"}, on : Interfaces \cup {None}]]
  OBVIOUS
<1>3. Follow
  BY DEF Follow
<1> QED
  BY <1>1, <1>2, <1>3 DEF NetworkInv

LEMMA NetworkInductive ==
    ASSUME InterfacesNamed, NetworkInv, [Network!Next]_(Network!netVars) PROVE NetworkInv'
<1> USE DEF InterfacesNamed, Network!Resetters
<1>1. CASE Network!StartMonitor \/ Network!StartListener \/ Network!PostStart \/ Network!Close
  <2>1. /\ UNCHANGED <<platform, default, finder, networkInterfaces, update, networkPaused,
                       devicePaused, reset, conn, netExcused>>
        /\ stage' \in {"new", "initialized", "listening", "closed"} /\ netStarted' \in BOOLEAN
    BY ZenonT(30), <1>1 DEF Network!StartMonitor, Network!StartListener, Network!PostStart, Network!Close,
                Network!tables, Network!Monitoring, NetworkInv, Network!TypeOK
  <2> QED
    BY <2>1 DEF NetworkInv, Network!TypeOK, Follow
<1>2. ASSUME NEW c \in Conns, Network!Dial(c) PROVE NetworkInv'
  BY <1>2 DEF Network!Dial, Network!tables, NetworkInv, Network!TypeOK, Follow
<1>3. ASSUME NEW c \in Conns, Network!TrackConn(c) PROVE NetworkInv'
  BY SMTT(30), <1>3 DEF Network!TrackConn, Network!tables, NetworkInv, Network!TypeOK, Follow
<1>4. ASSUME NEW c \in Conns, Network!Hangup(c) PROVE NetworkInv'
  BY SMTT(30), <1>4 DEF Network!Hangup, Network!Idle, Network!tables, NetworkInv, Network!TypeOK, Follow
<1>5. ASSUME NEW to \in Interfaces \cup {Network!Nowhere}, Network!UpdateInterfaces(to) PROVE NetworkInv'
  BY <1>5 DEF Network!UpdateInterfaces, Updates, NetworkInv, Network!TypeOK, Follow
<1>6. CASE Network!SetDefault
  BY <1>6 DEF Network!SetDefault, Network!SameInterface, Updates, NetworkInv, Network!TypeOK, Follow
<1>7. CASE Network!NotifyInterfaceUpdate
  <2> DEFINE resets == /\ update.to # Network!Nowhere /\ netStarted
                       /\ platform = "libbox" => update.to \in networkInterfaces
  <2>1. /\ update \in Updates /\ update.at = "notify"
        /\ networkPaused' = (update.to = Network!Nowhere)
        /\ update' = IF resets THEN [update EXCEPT !.at = "reset"] ELSE None
        /\ reset' = IF resets THEN [reset EXCEPT !["update"].at = "begun"] ELSE reset
        /\ netExcused' = IF resets \/ update.to = Network!Nowhere THEN netExcused
                         ELSE netExcused \cup Network!InUse
        /\ UNCHANGED <<platform, stage, netStarted, default, finder, networkInterfaces, devicePaused, conn>>
    BY <1>7 DEF Network!NotifyInterfaceUpdate, Network!tables, NetworkInv
  <2>2. CASE resets
    <3>1. /\ update' = [update EXCEPT !.at = "reset"] /\ update.to # Network!Nowhere
          /\ reset' = [reset EXCEPT !["update"].at = "begun"]
      BY <2>1, <2>2
    <3> HIDE DEF resets
    <3>2. /\ update' \in Updates /\ update'.at = "reset" /\ update' # None
          /\ reset' \in [Network!Resetters -> [at : {"none", "begun", "taken"}, closers : SUBSET Conns]]
          /\ reset'["update"].at = "begun" /\ networkPaused' = FALSE
      <4>1. networkPaused' = FALSE
        BY ZenonT(30), <2>1, <3>1
      <4>2. update' \in Updates /\ update'.at = "reset" /\ update' # None
        BY <2>1, <3>1 DEF Updates
      <4> QED
        BY <3>1, <4>1, <4>2 DEF NetworkInv
    <3>3. Network!TypeOK'
      BY <2>1, <3>2 DEF NetworkInv, Network!TypeOK, Updates
    <3> QED
      BY <2>1, <3>2, <3>3 DEF NetworkInv
  <2>3. CASE ~resets
    <3>1. /\ update' = None /\ reset' = reset
          /\ update.to # Network!Nowhere => netExcused' = netExcused \cup Network!InUse
      BY <2>1, <2>3
    <3>2. Follow' /\ (networkPaused' => default' = None)
      BY ZenonT(30), <2>1, <3>1 DEF NetworkInv, Follow, Network!InUse
    <3>3. reset["update"].at = "none"
      BY <2>1 DEF NetworkInv
    <3>4. Network!TypeOK'
      BY <2>1, <3>1 DEF NetworkInv, Network!TypeOK
    <3> QED
      BY <2>1, <3>1, <3>2, <3>3, <3>4 DEF NetworkInv
  <2> QED
    BY <2>2, <2>3
<1>8. ASSUME NEW r \in Network!Resetters, Network!TakeAll(r) PROVE NetworkInv'
  BY SMTT(30), <1>8 DEF Network!TakeAll, Network!tables, Updates, NetworkInv, Network!TypeOK, Follow
<1>9. ASSUME NEW r \in Network!Resetters, Network!CloseTaken(r) PROVE NetworkInv'
  BY <1>9 DEF Network!CloseTaken, Network!tables, Network!Idle, Network!Quiet, Updates, NetworkInv,
              Network!TypeOK, Follow
<1>10. ASSUME NEW event \in {"suspend", "resume", "automatic"}, Network!PowerEvent(event)
       PROVE NetworkInv'
  BY SMTT(30), <1>10 DEF Network!PowerEvent, Network!tables, Network!Quiet, Updates, NetworkInv, Network!TypeOK, Follow
<1>11. CASE UNCHANGED Network!netVars
  BY <1>11 DEF Network!netVars, NetworkInv, Network!TypeOK, Follow
<1> QED
  BY SMTT(30), <1>1, <1>2, <1>3, <1>4, <1>5, <1>6, <1>7, <1>8, <1>9, <1>10, <1>11 DEF Network!Next

\* Between updates every connection that a reset could reach runs over the
\* default interface, for any number of interfaces, connections, updates and
\* power events (updateDefaultInterface, notifyInterfaceUpdate, CloseAll).
THEOREM ConnectionsFollowHolds == ASSUME InterfacesNamed PROVE Network!Spec => []ConnectionsFollow
<1>1. NetworkInv => ConnectionsFollow
  BY DEF NetworkInv, ConnectionsFollow, Network!ConnectionsFollow, Follow
<1>2. Network!Init => NetworkInv
  BY NetworkInit
<1>3. NetworkInv /\ [Network!Next]_(Network!netVars) => NetworkInv'
  BY NetworkInductive
<1> QED
  BY <1>1, <1>2, <1>3, PTL DEF Network!Spec

-----------------------------------------------------------------------------
(* The memory guard. *)

PollRecords ==
    [of : Services, at : {"begun", "sampled", "reset"}, sample : Usages \cup {None}, old : BOOLEAN]

Timers ==
    [running : BOOLEAN, due : BOOLEAN, state : {"normal", "armed", "triggered"},
     pending : BOOLEAN, baseline : Usages \cup {None}]

\* Memory is counted in bytes; None is no poll and no list of services.
GuardNumbers ==
    /\ Usages \subseteq Nat /\ Limits \subseteq [memory : Nat, margin : Nat]
    /\ None \notin PollRecords /\ (\A S \in SUBSET Services : S # None)

GuardTyped ==
    /\ Guard!TypeOK
    /\ t \in [Services -> Timers]
    /\ poll \in [Guard!Polls -> PollRecords \cup {None}]
    /\ cleared \in [Services -> BOOLEAN]
    /\ callback \in (SUBSET Services) \cup {None}

\* What is below the resume mark clears every service, and a sample taken there
\* belongs to a cleared service or to a poll that a reset has overtaken.
Spaced ==
    /\ Guard!ResetsSpaced
    /\ Guard!Below(usage) => \A s \in Services : cleared[s]
    /\ \A g \in Guard!Polls : poll[g] # None /\ poll[g].at = "sampled" =>
         /\ poll[g].sample \in Usages
         /\ Guard!Below(poll[g].sample) => cleared[poll[g].of] \/ poll[g].old

\* A service whose Close has stopped the timer is in no callback's copy.
Quiet ==
    \A s \in Services :
        /\ s \in globalServices <=> life[s] \in {"listed", "up", "stopped"}
        /\ life[s] \in {"stopped", "unlisted", "closed"} /\ s \notin guardExcused =>
             ~t[s].running /\ (callback # None => s \notin callback)

\* While no two calls were underway together, the one that is knows whether it
\* is the first or the last.
Matches ==
    "monitor" \notin guardExcused =>
        /\ Guard!Underway = {} => monitor = (globalServices # {})
        /\ \A s, u \in Guard!Underway : s = u
        /\ \A s \in Services : /\ life[s] = "stopped" => monitor
                               /\ life[s] = "unlisted" => globalServices = {}

GuardInv == GuardTyped /\ Spaced /\ Quiet /\ Matches

LEMMA ResumeMark ==
    ASSUME GuardNumbers, limit \in Limits PROVE Guard!Thresholds.resume \in Nat
  BY DEF GuardNumbers, Guard!Thresholds, Guard!Margin, Guard!Least

\* A timer that has triggered leaves that state only on a sample below the mark.
LEMMA Hysteresis ==
    ASSUME GuardNumbers, limit \in Limits, NEW sample \in Usages,
           NEW current \in {"normal", "armed", "triggered"}
    PROVE  /\ Guard!NextPressureState(current, sample) \in {"normal", "armed", "triggered"}
           /\ current = "triggered" /\ Guard!NextPressureState(current, sample) # "triggered"
                => Guard!Below(sample)
<1>1. Guard!NextPressureState(current, sample) \in {"normal", "armed", "triggered"}
  BY DEF Guard!NextPressureState
<1>2. sample \in Nat /\ Guard!Thresholds.resume \in Nat
  BY ResumeMark DEF GuardNumbers
<1> QED
  BY <1>1, <1>2 DEF Guard!NextPressureState, Guard!Below

LEMMA GuardInit == ASSUME GuardNumbers, Guard!Init PROVE GuardInv
<1> USE DEF Guard!Init, GuardNumbers, Guard!NoTimer
<1>1. /\ t \in [Services -> Timers] /\ poll \in [Guard!Polls -> PollRecords \cup {None}]
      /\ cleared \in [Services -> BOOLEAN] /\ callback \in (SUBSET Services) \cup {None}
  BY DEF Timers
<1>2. Guard!TypeOK
  BY ZenonT(30) DEF Guard!TypeOK
<1>3. Spaced
  BY DEF Spaced, Guard!ResetsSpaced
<1>4. Quiet
  BY DEF Quiet
<1>5. Matches
  BY ZenonT(30) DEF Matches, Guard!Underway
<1> QED
  BY ZenonT(30), <1>1, <1>2, <1>3, <1>4, <1>5 DEF GuardInv, GuardTyped

\* Start and Close of a service, and the memory in use.
LEMMA GuardLifecycle ==
    ASSUME GuardNumbers, GuardInv, NEW s \in Services,
           \/ Guard!StartListed(s) \/ Guard!StartMonitor(s) \/ Guard!StopTimer(s)
           \/ Guard!CloseUnlisted(s) \/ Guard!StopMonitor(s)
    PROVE  GuardInv'
<1> USE DEF GuardNumbers, Guard!memory, Guard!registry
<1>1. CASE Guard!StartListed(s)
  <2>1. GuardTyped'
    BY SMTT(30), <1>1 DEF Guard!StartListed, GuardInv, GuardTyped, Guard!TypeOK
  <2>2. Spaced'
    BY SMTT(30), <1>1 DEF Guard!StartListed, GuardInv, Spaced, Guard!ResetsSpaced, Guard!Below,
                Guard!Thresholds, Guard!Margin
  <2>3. Quiet'
    BY SMTT(30), <1>1 DEF Guard!StartListed, GuardInv, GuardTyped, Guard!TypeOK, Quiet
  <2>4. Matches'
    BY SMTT(30), <1>1 DEF Guard!StartListed, Guard!SideBySide, GuardInv, GuardTyped, Guard!TypeOK, Quiet, Matches, Guard!Underway
  <2> QED
    BY SMTT(30), <2>1, <2>2, <2>3, <2>4 DEF GuardInv
<1>2. CASE Guard!StartMonitor(s)
  <2>1. GuardTyped'
    BY SMTT(30), <1>2 DEF Guard!StartMonitor, GuardInv, GuardTyped, Guard!TypeOK
  <2>2. Spaced'
    BY ZenonT(30), <1>2 DEF Guard!StartMonitor, GuardInv, Spaced, Guard!ResetsSpaced, Guard!Below,
                Guard!Thresholds, Guard!Margin
  <2>3. Quiet'
    BY SMTT(30), <1>2 DEF Guard!StartMonitor, GuardInv, GuardTyped, Guard!TypeOK, Quiet
  <2>4. Matches'
    <3>1. s \in globalServices /\ life[s] = "listed" /\ monitor' = TRUE
          /\ UNCHANGED <<globalServices, guardExcused>>
      BY <1>2 DEF Guard!StartMonitor, GuardInv, Quiet
    <3>2. life' = [life EXCEPT ![s] = "up"] /\ \A u \in Services \ {s} : life'[u] = life[u]
      BY <1>2 DEF Guard!StartMonitor, GuardInv, GuardTyped, Guard!TypeOK
    <3> QED
      BY ZenonT(30), <3>1, <3>2 DEF GuardInv, GuardTyped, Guard!TypeOK, Matches, Guard!Underway
  <2> QED
    BY <2>1, <2>2, <2>3, <2>4 DEF GuardInv
<1>3. CASE Guard!StopTimer(s)
  <2>1. GuardTyped'
    <3>1. t' = [t EXCEPT ![s].running = FALSE, ![s].due = FALSE] /\ t \in [Services -> Timers]
      BY <1>3 DEF Guard!StopTimer, GuardInv, GuardTyped
    <3>2. /\ t' \in [Services -> Timers] /\ t'[s].due = FALSE
          /\ \A u \in Services \ {s} : t'[u] = t[u]
      BY ZenonT(30), <3>1 DEF Timers
    <3> QED
      BY <1>3, <3>2 DEF Guard!StopTimer, GuardInv, GuardTyped, Guard!TypeOK, Timers
  <2>2. Spaced'
    BY <1>3 DEF Guard!StopTimer, GuardInv, GuardTyped, Timers, Spaced, Guard!ResetsSpaced, Guard!Below,
                Guard!Thresholds, Guard!Margin
  <2>3. Quiet'
    BY <1>3 DEF Guard!StopTimer, GuardInv, GuardTyped, Guard!TypeOK, Timers, Quiet
  <2>4. Matches'
    BY <1>3 DEF Guard!StopTimer, Guard!SideBySide, GuardInv, GuardTyped, Guard!TypeOK, Quiet, Matches, Guard!Underway
  <2> QED
    BY <2>1, <2>2, <2>3, <2>4 DEF GuardInv
<1>4. CASE Guard!CloseUnlisted(s)
  <2>1. GuardTyped'
    BY SMTT(30), <1>4 DEF Guard!CloseUnlisted, Guard!Without, GuardInv, GuardTyped, Guard!TypeOK
  <2>2. Spaced'
    BY ZenonT(30), <1>4 DEF Guard!CloseUnlisted, GuardInv, Spaced, Guard!ResetsSpaced, Guard!Below,
                Guard!Thresholds, Guard!Margin
  <2>3. Quiet'
    BY SMTT(30), <1>4 DEF Guard!CloseUnlisted, Guard!Without, GuardInv, GuardTyped, Guard!TypeOK, Quiet
  <2>4. Matches'
    BY SMTT(30), <1>4 DEF Guard!CloseUnlisted, Guard!Without, GuardInv, GuardTyped, Guard!TypeOK, Quiet, Matches, Guard!Underway
  <2> QED
    BY <2>1, <2>2, <2>3, <2>4 DEF GuardInv
<1>5. CASE Guard!StopMonitor(s)
  <2>1. GuardTyped'
    BY ZenonT(30), <1>5 DEF Guard!StopMonitor, GuardInv, GuardTyped, Guard!TypeOK
  <2>2. Spaced'
    BY ZenonT(30), <1>5 DEF Guard!StopMonitor, GuardInv, Spaced, Guard!ResetsSpaced, Guard!Below,
                Guard!Thresholds, Guard!Margin
  <2>3. Quiet'
    BY SMTT(30), <1>5 DEF Guard!StopMonitor, GuardInv, GuardTyped, Guard!TypeOK, Quiet
  <2>4. Matches'
    BY ZenonT(30), <1>5 DEF Guard!StopMonitor, GuardInv, GuardTyped, Guard!TypeOK, Quiet, Matches, Guard!Underway
  <2> QED
    BY <2>1, <2>2, <2>3, <2>4 DEF GuardInv
<1> QED
  BY SMTT(30), <1>1, <1>2, <1>3, <1>4, <1>5

\* The memory in use changes, and the monitor calls back.
LEMMA GuardPressure ==
    ASSUME GuardNumbers, GuardInv, Guard!Use \/ Guard!Pressure PROVE GuardInv'
<1> USE DEF GuardNumbers, Guard!memory, Guard!registry
<1>1. CASE Guard!Use
  <2>1. /\ usage' \in Usages
        /\ cleared' = [s \in Services |-> cleared[s] \/ Guard!Below(usage')]
        /\ UNCHANGED <<limit, life, globalServices, monitor, pressure, callback, t, poll, guardExcused>>
    BY SMTT(30), <1>1 DEF Guard!Use
  <2>2. Guard!Below(usage)' <=> Guard!Below(usage')
    BY SMTT(30), <2>1 DEF Guard!Below, Guard!Thresholds, Guard!Margin
  <2>3. \A g \in Guard!Polls : Guard!Below(poll[g].sample)' <=> Guard!Below(poll[g].sample)
    BY SMTT(30), <2>1 DEF Guard!Below, Guard!Thresholds, Guard!Margin
  <2>4. GuardTyped'
    BY SMTT(30), <2>1 DEF GuardInv, GuardTyped, Guard!TypeOK
  <2>5. Spaced'
    BY ZenonT(30), <2>1, <2>2, <2>3 DEF GuardInv, GuardTyped, Guard!TypeOK, Spaced, Guard!ResetsSpaced, PollRecords
  <2> QED
    BY SMTT(30), <2>1, <2>4, <2>5 DEF GuardInv, Quiet, Matches, Guard!Underway
<1>2. CASE Guard!Pressure
  <2>1. GuardTyped' /\ Spaced'
    BY <1>2 DEF Guard!Pressure, GuardInv, GuardTyped, Guard!TypeOK, Spaced, Guard!ResetsSpaced,
                Guard!Below, Guard!Thresholds, Guard!Margin
  <2>2. Quiet' /\ Matches'
    BY ZenonT(30), <1>2 DEF Guard!Pressure, GuardInv, GuardTyped, Guard!TypeOK, Quiet, Matches, Guard!Underway
  <2> QED
    BY SMTT(30), <2>1, <2>2 DEF GuardInv
<1> QED
  BY <1>1, <1>2

\* A timer is started by the callback, and a poll begins, samples and ends.
LEMMA GuardPolls ==
    ASSUME GuardNumbers, GuardInv,
           \/ \E s \in Services : Guard!Notify(s) \/ \E g \in TimerPolls : Guard!Fire(g, s)
           \/ \E g \in Guard!Polls : Guard!Sample(g) \/ Guard!Stopped(g) \/ Guard!Reset(g)
    PROVE  GuardInv'
<1> USE DEF GuardNumbers, Guard!memory, Guard!registry
<1>1. ASSUME NEW s \in Services, Guard!Notify(s) PROVE GuardInv'
  <2>1. /\ callback \in SUBSET Services /\ s \in callback /\ poll["callback"] = None
        /\ callback' = IF callback = {s} THEN None ELSE callback \ {s}
        /\ t' = [t EXCEPT ![s] = [Guard!Started(s) EXCEPT !.pending = TRUE]]
        /\ cleared' = [cleared EXCEPT ![s] = @ \/ ~t[s].running]
        /\ poll' = [poll EXCEPT !["callback"] = [of |-> s, at |-> "begun", sample |-> None, old |-> FALSE]]
        /\ UNCHANGED <<usage, limit, life, globalServices, monitor, pressure, guardExcused>>
    BY <1>1 DEF Guard!Notify, GuardInv, GuardTyped
  <2>2. /\ t' \in [Services -> Timers] /\ t'[s].running /\ \A u \in Services \ {s} : t'[u] = t[u]
        /\ t'[s].state # "triggered" => t[s].running = FALSE \/ t[s].state # "triggered"
    <3> DEFINE timer == [Guard!Started(s) EXCEPT !.pending = TRUE]
    <3>1. t[s] \in Timers
      BY DEF GuardInv, GuardTyped
    <3>2. /\ timer \in Timers /\ timer.running
          /\ timer.state # "triggered" => t[s].running = FALSE \/ t[s].state # "triggered"
      BY ZenonT(30), <3>1 DEF Timers, Guard!Started
    <3> HIDE DEF timer
    <3> QED
      BY SMTT(30), <2>1, <3>2 DEF GuardInv, GuardTyped, timer
  <2>3. /\ poll' \in [Guard!Polls -> PollRecords \cup {None}]
        /\ \A g \in Guard!Polls : poll'[g] = poll[g] \/ (poll'[g] # None /\ poll'[g].at = "begun")
        /\ callback' \in (SUBSET Services) \cup {None}
        /\ callback' # None => callback' \subseteq callback
    BY ZenonT(30), <2>1 DEF GuardInv, GuardTyped, PollRecords, Guard!Polls
  <2>4. cleared' \in [Services -> BOOLEAN] /\ (\A u \in Services : cleared[u] => cleared'[u])
        /\ (~t[s].running => cleared'[s])
    BY ZenonT(30), <2>1 DEF GuardInv, GuardTyped
  <2>5. GuardTyped'
    BY SMTT(30), <2>1, <2>2, <2>3, <2>4 DEF GuardInv, GuardTyped, Guard!TypeOK, Timers, PollRecords
  <2>6. Spaced'
    BY <2>1, <2>2, <2>3, <2>4 DEF GuardInv, GuardTyped, Timers, PollRecords, Spaced,
         Guard!ResetsSpaced, Guard!Below, Guard!Thresholds, Guard!Margin
  <2>7. Quiet' /\ Matches'
    BY <2>1, <2>2, <2>3 DEF GuardInv, Quiet, Matches, Guard!Underway
  <2> QED
    BY <2>5, <2>6, <2>7 DEF GuardInv
<1>2. ASSUME NEW s \in Services, NEW g \in TimerPolls, Guard!Fire(g, s) PROVE GuardInv'
  <2>1. /\ t' = [t EXCEPT ![s].due = FALSE]
        /\ poll' = [poll EXCEPT ![g] = [of |-> s, at |-> "begun", sample |-> None, old |-> FALSE]]
        /\ UNCHANGED <<usage, limit, life, globalServices, monitor, pressure, callback, cleared, guardExcused>>
    BY <1>2 DEF Guard!Fire
  <2>2. /\ t' \in [Services -> Timers] /\ t'[s].due = FALSE
        /\ \A u \in Services : t'[u].running = t[u].running /\ t'[u].state = t[u].state
        /\ \A u \in Services \ {s} : t'[u] = t[u]
    BY ZenonT(30), <2>1 DEF GuardInv, GuardTyped, Timers
  <2>3. /\ poll' \in [Guard!Polls -> PollRecords \cup {None}]
        /\ \A h \in Guard!Polls : poll'[h] = poll[h] \/ (poll'[h] # None /\ poll'[h].at = "begun")
    <3>1. [of |-> s, at |-> "begun", sample |-> None, old |-> FALSE] \in PollRecords
      BY DEF PollRecords
    <3> QED
      BY ZenonT(30), <2>1, <3>1 DEF GuardInv, GuardTyped
  <2>4. GuardTyped'
    BY <2>1, <2>2, <2>3 DEF GuardInv, GuardTyped, Guard!TypeOK, Timers, PollRecords
  <2>5. Spaced'
    BY <2>1, <2>2, <2>3 DEF GuardInv, GuardTyped, Timers, PollRecords, Spaced,
         Guard!ResetsSpaced, Guard!Below, Guard!Thresholds, Guard!Margin
  <2> QED
    BY <2>1, <2>2, <2>4, <2>5 DEF GuardInv, Quiet, Matches, Guard!Underway
<1>3. ASSUME NEW g \in Guard!Polls, Guard!Sample(g) PROVE GuardInv'
  <2>1. /\ poll[g] # None /\ poll' = [poll EXCEPT ![g].at = "sampled", ![g].sample = usage]
        /\ UNCHANGED <<usage, limit, life, globalServices, monitor, pressure, callback, t, cleared, guardExcused>>
    BY <1>3 DEF Guard!Sample
  <2>2. /\ poll' \in [Guard!Polls -> PollRecords \cup {None}] /\ poll'[g] \in PollRecords
        /\ poll'[g].sample = usage /\ \A h \in Guard!Polls \ {g} : poll'[h] = poll[h]
    BY ZenonT(60), <2>1 DEF GuardInv, GuardTyped, Guard!TypeOK, PollRecords
  <2>3. GuardTyped'
    BY <2>1, <2>2 DEF GuardInv, GuardTyped, Guard!TypeOK, PollRecords
  <2>4. Spaced'
    BY <2>1, <2>2 DEF GuardInv, GuardTyped, Guard!TypeOK, PollRecords, Spaced,
         Guard!ResetsSpaced, Guard!Below, Guard!Thresholds, Guard!Margin
  <2> QED
    BY <2>1, <2>3, <2>4 DEF GuardInv, Quiet, Matches, Guard!Underway
<1>4. ASSUME NEW g \in Guard!Polls, Guard!Stopped(g) \/ Guard!Reset(g) PROVE GuardInv'
  <2>1. /\ poll' = [poll EXCEPT ![g] = None]
        /\ UNCHANGED <<usage, limit, life, globalServices, monitor, pressure, callback, t, cleared, guardExcused>>
    BY <1>4 DEF Guard!Stopped, Guard!Reset
  <2>2. GuardTyped'
    BY ZenonT(30), <2>1 DEF GuardInv, GuardTyped, Guard!TypeOK, PollRecords
  <2>3. Spaced'
    BY ZenonT(30), <2>1 DEF GuardInv, GuardTyped, PollRecords, Spaced,
         Guard!ResetsSpaced, Guard!Below, Guard!Thresholds, Guard!Margin
  <2> QED
    BY <2>1, <2>2, <2>3 DEF GuardInv, Quiet, Matches, Guard!Underway
<1> QED
  BY <1>1, <1>2, <1>3, <1>4

\* A poll decides under the lock of the timer.
LEMMA GuardEvaluate ==
    ASSUME GuardNumbers, GuardInv, NEW g \in Guard!Polls, Guard!Evaluate(g) PROVE GuardInv'
<1> USE DEF GuardNumbers, Guard!memory, Guard!registry
<1> DEFINE s == poll[g].of
           sample == poll[g].sample
<1>1. /\ poll[g] \in PollRecords /\ s \in Services /\ sample \in Usages
      /\ t[s] \in Timers /\ t[s].running /\ poll[g].at = "sampled" /\ limit \in Limits
  BY DEF Guard!Evaluate, GuardInv, GuardTyped, Guard!TypeOK, PollRecords, Spaced
<1>2. UNCHANGED <<usage, limit, life, globalServices, monitor, pressure, callback, guardExcused>>
  BY DEF Guard!Evaluate
<1>3. PICK timer \in Guard!After(s, sample) :
        \/ /\ t' = [t EXCEPT ![s] = [timer EXCEPT !.state = "triggered"]]
           /\ poll' = [h \in Guard!Polls |-> CASE h = g -> [poll[h] EXCEPT !.at = "reset"]
                                               [] h \in Guard!Overtaken(g) -> [poll[h] EXCEPT !.old = TRUE]
                                               [] OTHER -> poll[h]]
           /\ cleared' = [cleared EXCEPT ![s] = Guard!Below(usage)]
        \/ /\ ~(t[s].state # "triggered" /\ timer.state = "triggered")
           /\ t' = [t EXCEPT ![s] = timer]
           /\ poll' = [poll EXCEPT ![g] = None]
           /\ cleared' = [cleared EXCEPT ![s] = @ \/ (poll[g].old /\ Guard!Below(sample))]
  BY ZenonT(30) DEF Guard!Evaluate
<1>4. /\ timer \in Timers /\ timer.running /\ timer.due
      /\ timer.state = Guard!NextPressureState(t[s].state, sample)
  <2> DEFINE new == Guard!NextPressureState(t[s].state, sample)
  <2>1. t[s].state \in {"normal", "armed", "triggered"} /\ t[s].baseline \in Usages \cup {None}
    BY <1>1 DEF Timers
  <2>2. new \in {"normal", "armed", "triggered"}
    BY ZenonT(30), <1>1, <2>1, Hysteresis
  <2>3. PICK b \in Usages \cup {None} :
          timer = [t[s] EXCEPT !.state = new, !.pending = FALSE, !.baseline = b, !.due = TRUE]
    BY <1>1, <2>1, Zenon DEF Guard!After
  <2> HIDE DEF new
  <2>4. timer \in Timers /\ timer.running /\ timer.due /\ timer.state = new
    BY ZenonT(30), <1>1, <2>2, <2>3 DEF Timers
  <2> QED
    BY SMTT(30), <2>4 DEF new
<1>5. \A amount : Guard!Below(amount)' <=> Guard!Below(amount)
  BY <1>2 DEF Guard!Below, Guard!Thresholds, Guard!Margin
<1>6. CASE /\ t' = [t EXCEPT ![s] = [timer EXCEPT !.state = "triggered"]]
           /\ poll' = [h \in Guard!Polls |-> CASE h = g -> [poll[h] EXCEPT !.at = "reset"]
                                               [] h \in Guard!Overtaken(g) -> [poll[h] EXCEPT !.old = TRUE]
                                               [] OTHER -> poll[h]]
           /\ cleared' = [cleared EXCEPT ![s] = Guard!Below(usage)]
  <2>1. /\ t' \in [Services -> Timers] /\ t'[s].state = "triggered" /\ t'[s].running
        /\ \A u \in Services \ {s} : t'[u] = t[u]
    BY <1>1, <1>4, <1>6 DEF GuardInv, GuardTyped, Timers
  <2>2. /\ cleared' \in [Services -> BOOLEAN] /\ (Guard!Below(usage) => cleared'[s])
        /\ \A u \in Services \ {s} : cleared'[u] = cleared[u]
    <3>1. Guard!Below(usage) \in BOOLEAN
      BY SMTT(30) DEF Guard!Below
    <3> QED
      BY <1>1, <1>6, <3>1 DEF GuardInv, GuardTyped
  <2>3. ASSUME NEW h \in Guard!Polls
        PROVE  /\ poll'[h] \in PollRecords \cup {None}
               /\ poll'[h] # None /\ poll'[h].at = "sampled" =>
                    /\ poll[h] # None /\ poll[h].at = "sampled"
                    /\ poll'[h].of = poll[h].of /\ poll'[h].sample = poll[h].sample
                    /\ poll[h].old => poll'[h].old
                    /\ poll[h].of = s => poll'[h].old
    <3>1. CASE h = g
      <4>1. poll'[h] = [poll[g] EXCEPT !.at = "reset"]
        BY <1>6, <3>1 DEF Guard!Overtaken
      <4> QED
        BY <1>1, <4>1 DEF PollRecords
    <3>2. CASE h # g /\ h \in Guard!Overtaken(g)
      <4>1. poll'[h] = [poll[h] EXCEPT !.old = TRUE] /\ poll[h] \in PollRecords /\ poll[h].at = "sampled"
        BY <1>6, <3>2 DEF Guard!Overtaken, GuardInv, GuardTyped
      <4> QED
        BY ZenonT(30), <4>1 DEF PollRecords
    <3>3. CASE h # g /\ h \notin Guard!Overtaken(g)
      <4>1. poll'[h] = poll[h]
        BY <1>6, <3>3
      <4> QED
        BY ZenonT(30), <3>3, <4>1 DEF Guard!Overtaken, GuardInv, GuardTyped
    <3> QED
      BY ZenonT(30), <3>1, <3>2, <3>3
  <2>4. DOMAIN poll' = Guard!Polls /\ poll' \in [Guard!Polls -> PollRecords \cup {None}]
    BY SMTT(30), <1>6, <2>3
  <2>5. GuardTyped'
    BY ZenonT(30), <1>2, <1>4, <2>1, <2>2, <2>4 DEF GuardInv, GuardTyped, Guard!TypeOK, Timers, PollRecords
  <2>6. Spaced'
    <3>1. Guard!ResetsSpaced'
      BY ZenonT(30), <2>1, <2>2 DEF GuardInv, Spaced, Guard!ResetsSpaced
    <3>2. Guard!Below(usage)' => \A u \in Services : cleared'[u]
      BY ZenonT(30), <1>2, <1>5, <2>2 DEF GuardInv, Spaced
    <3>3. \A h \in Guard!Polls : poll'[h] # None /\ poll'[h].at = "sampled" =>
             /\ poll'[h].sample \in Usages
             /\ Guard!Below(poll'[h].sample) => cleared'[poll'[h].of] \/ poll'[h].old
      BY ZenonT(30), <2>2, <2>3, <2>4 DEF GuardInv, GuardTyped, Spaced, PollRecords
    <3> QED
      BY ZenonT(30), <1>5, <3>1, <3>2, <3>3 DEF Spaced
  <2>7. Quiet' /\ Matches'
    BY ZenonT(30), <1>1, <1>2, <2>1 DEF GuardInv, Quiet, Matches, Guard!Underway
  <2> QED
    BY SMTT(30), <2>5, <2>6, <2>7 DEF GuardInv
<1>7. CASE /\ ~(t[s].state # "triggered" /\ timer.state = "triggered")
           /\ t' = [t EXCEPT ![s] = timer]
           /\ poll' = [poll EXCEPT ![g] = None]
           /\ cleared' = [cleared EXCEPT ![s] = @ \/ (poll[g].old /\ Guard!Below(sample))]
  <2>1. /\ t' \in [Services -> Timers] /\ t'[s] = timer
        /\ \A u \in Services \ {s} : t'[u] = t[u]
    BY ZenonT(30), <1>1, <1>4, <1>7 DEF GuardInv, GuardTyped
  <2>2. /\ cleared' \in [Services -> BOOLEAN]
        /\ cleared'[s] <=> cleared[s] \/ (poll[g].old /\ Guard!Below(sample))
        /\ \A u \in Services \ {s} : cleared'[u] = cleared[u]
    BY ZenonT(30), <1>1, <1>7 DEF GuardInv, GuardTyped, PollRecords, Guard!Below
  <2>3. /\ poll' \in [Guard!Polls -> PollRecords \cup {None}]
        /\ \A h \in Guard!Polls : poll'[h] # None => poll'[h] = poll[h]
    BY ZenonT(30), <1>7 DEF GuardInv, GuardTyped
  <2>4. GuardTyped'
    BY ZenonT(30), <1>2, <1>4, <2>1, <2>2, <2>3 DEF GuardInv, GuardTyped, Guard!TypeOK, Timers, PollRecords
  <2>5. timer.state # "triggered" => cleared'[s]
    <3>1. CASE t[s].state # "triggered"
      BY ZenonT(30), <1>1, <2>2, <3>1 DEF GuardInv, Spaced, Guard!ResetsSpaced
    <3>2. CASE t[s].state = "triggered"
      BY ZenonT(30), <1>1, <1>4, <2>2, <3>2, Hysteresis DEF GuardInv, Spaced
    <3> QED
      BY SMTT(30), <3>1, <3>2
  <2>6. Spaced'
    <3>1. Guard!ResetsSpaced'
      BY ZenonT(30), <1>1, <2>1, <2>2, <2>5 DEF GuardInv, Spaced, Guard!ResetsSpaced
    <3>2. Guard!Below(usage)' => \A u \in Services : cleared'[u]
      BY ZenonT(30), <1>2, <1>5, <2>2 DEF GuardInv, Spaced
    <3>3. \A h \in Guard!Polls : poll'[h] # None /\ poll'[h].at = "sampled" =>
             /\ poll'[h].sample \in Usages
             /\ Guard!Below(poll'[h].sample) => cleared'[poll'[h].of] \/ poll'[h].old
      BY SMTT(60), <2>2, <2>3 DEF GuardInv, GuardTyped, Spaced, PollRecords
    <3> QED
      BY ZenonT(30), <1>5, <3>1, <3>2, <3>3 DEF Spaced
  <2>7. Quiet' /\ Matches'
    BY ZenonT(30), <1>1, <1>2, <2>1 DEF GuardInv, Quiet, Matches, Guard!Underway
  <2> QED
    BY <2>4, <2>6, <2>7 DEF GuardInv
<1> QED
  BY SMTT(30), <1>3, <1>6, <1>7

LEMMA GuardInductive == ASSUME GuardNumbers, GuardInv, [Guard!Next]_(Guard!oomVars) PROVE GuardInv'
<1>1. CASE UNCHANGED Guard!oomVars
  BY ZenonT(30), <1>1 DEF Guard!oomVars, GuardInv, GuardTyped, Guard!TypeOK, Spaced, Guard!ResetsSpaced, Guard!Below,
       Guard!Thresholds, Guard!Margin, Quiet, Matches, Guard!Underway
<1> QED
  BY <1>1, GuardLifecycle, GuardPressure, GuardPolls, GuardEvaluate DEF Guard!Next

\* However many guards, polls and callbacks run side by side: two resets on the
\* threshold have the end of the pressure between them, a closed guard's timer
\* rests, and the monitor runs while it has a listener (adaptiveTimer.poll,
\* Service.Start, Service.Close).
THEOREM GuardSoundHolds == ASSUME GuardNumbers PROVE Guard!Spec => []GuardSound
<1>1. Guard!Init => GuardInv
  BY GuardInit
<1>2. GuardInv /\ [Guard!Next]_(Guard!oomVars) => GuardInv'
  BY GuardInductive
<1>3. GuardInv => GuardSound
  BY ZenonT(30) DEF GuardInv, GuardTyped, Spaced, Quiet, Matches, GuardSound, Guard!QuietAfterClose, Guard!MonitorMatches
<1> QED
  BY <1>1, <1>2, <1>3, PTL DEF Guard!Spec


-----------------------------------------------------------------------------
(* The Shadowsocks manager: the proof is in SSMAPIProofs. *)

Accounts == INSTANCE SSMAPIProofs WITH Requests <- Calls, req <- call, excused <- ssmExcused

\* Both instances of SSMAPI say the same.
LEMMA SameInit == SSM!Init <=> Accounts!Init
  BY DEF SSM!Init, SSM!Blank, SSM!Counters, SSM!Savers, SSM!NoSave, Accounts!Init, Accounts!Blank,
         Accounts!Counters, Accounts!Savers, Accounts!NoSave

LEMMA SameProperty == SSM!AccountsKept <=> Accounts!AccountsKept
  BY DEF SSM!AccountsKept, SSM!TypeOK, SSM!TrafficCountedOnce, SSM!ServedAsListed, SSM!FileAsSaved,
         SSM!Counters, SSM!Stored, SSM!Savers, SSM!Torn, Accounts!AccountsKept, Accounts!TypeOK,
         Accounts!TrafficCountedOnce, Accounts!ServedAsListed, Accounts!FileAsSaved,
         Accounts!Counters, Accounts!Stored, Accounts!Savers, Accounts!Torn

LEMMA SameNext == [SSM!Next]_(SSM!ssmVars) <=> [Accounts!Next]_(Accounts!ssmVars)
  BY DEF SSM!Next, SSM!ssmVars, SSM!Start, SSM!SaveTick, SSM!Close, SSM!Wait, SSM!Exit, SSM!Crash,
         SSM!Accept, SSM!TrackConnection, SSM!Transfer, SSM!Disconnect, SSM!AddUser, SSM!FindUser,
         SSM!ChangeUser, SSM!ListUsers, SSM!ReadUsers, SSM!ReadGlobal, SSM!Savers,
         SSM!EncodeCounter, SSM!EncodeUsers, SSM!SaveCache, SSM!WriteCache, SSM!userVars,
         SSM!trafficVars, SSM!cacheVars, SSM!Torn, SSM!DecodeCache, SSM!Goes, SSM!Begun, SSM!Late,
         SSM!NoSave, SSM!Ends, SSM!Counters, SSM!Idle, SSM!PostUpdate, SSM!Then, SSM!Clear,
         SSM!SameAsSaved, SSM!Content, SSM!Blank, SSM!KeptCounters, Accounts!Next,
         Accounts!ssmVars, Accounts!Start, Accounts!SaveTick, Accounts!Close, Accounts!Wait,
         Accounts!Exit, Accounts!Crash, Accounts!Accept, Accounts!TrackConnection,
         Accounts!Transfer, Accounts!Disconnect, Accounts!AddUser, Accounts!FindUser,
         Accounts!ChangeUser, Accounts!ListUsers, Accounts!ReadUsers, Accounts!ReadGlobal,
         Accounts!Savers, Accounts!EncodeCounter, Accounts!EncodeUsers, Accounts!SaveCache,
         Accounts!WriteCache, Accounts!userVars, Accounts!trafficVars, Accounts!cacheVars,
         Accounts!Torn, Accounts!DecodeCache, Accounts!Goes, Accounts!Begun, Accounts!Late,
         Accounts!NoSave, Accounts!Ends, Accounts!Counters, Accounts!Idle, Accounts!PostUpdate,
         Accounts!Then, Accounts!Clear, Accounts!SameAsSaved, Accounts!Content, Accounts!Blank,
         Accounts!KeptCounters

\* The manager that MCPlatform composes with the other parts keeps its
\* accounts: traffic is handed out once, the inbound serves the users the API
\* lists, and the file is what was last saved (TrafficManager,
\* UserManager.postUpdate, Service.saveCache).
THEOREM AccountsKeptHolds == ASSUME Accounts!AccountsNamed PROVE SSM!Spec => []AccountsKept
  BY SameInit, SameNext, SameProperty, Accounts!AccountsKeptHolds, PTL DEF SSM!Spec, Accounts!Spec, AccountsKept
=============================================================================
