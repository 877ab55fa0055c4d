------------------------------- MODULE Selector -------------------------------
(***************************************************************************)
(* The selector of protocol/group/selector.go and its interrupt group      *)
(* (common/interrupt/group.go): calls of SelectOutbound, the choice kept   *)
(* in the cache file, restarts, and connections made through what is       *)
(* selected.  An internal connection is dialed with DialContext or         *)
(* ListenPacket and joins the interrupt group; an inbound one arrives at   *)
(* NewConnectionEx or NewPacketConnectionEx.                               *)
(***************************************************************************)
EXTENDS Naturals

CONSTANTS
    Outbounds,   \* the tags of the group
    Default,     \* the one taken when nothing is stored
    Callers,     \* calls of SelectOutbound
    Links,       \* connections
    MaxStarts,   \* starts of the group
    None

VARIABLES
    selected,    \* the outbound in use, None before Start
    stored,      \* the tag in the cache file, or None
    caller,      \* where each call is, and the tag it was given
    link,        \* the connections
    starts,
    races        \* history: "swap" when two calls overlapped, "store" when the
                 \* cache file failed, "late" when a dial ended after a switch

vars == <<selected, stored, caller, link, starts, races>>

NoLink == [state |-> "none", via |-> None, inbound |-> FALSE]

Init ==
    /\ selected = None /\ stored = None /\ starts = 0 /\ races = {}
    /\ caller = [k \in Callers |-> [pc |-> "call", tag |-> None]]
    /\ link = [l \in Links |-> NoLink]

Busy(k) == caller[k].pc \in {"store", "interrupt"}

\* Start, in a new process: what the old one was doing is lost with it.
Start ==
    /\ starts < MaxStarts /\ starts' = starts + 1
    /\ selected' = IF stored # None THEN stored ELSE Default
    /\ caller' = [k \in Callers |-> IF Busy(k) THEN [caller[k] EXCEPT !.pc = "over"] ELSE caller[k]]
    /\ link' = [l \in Links |-> IF link[l].state = "none" THEN link[l]
                                ELSE [link[l] EXCEPT !.state = "closed"]]
    /\ races' = races \cup (IF \E k \in Callers : caller[k].pc = "store" THEN {"store"} ELSE {})
    /\ UNCHANGED stored

-----------------------------------------------------------------------------
\* Fault: the switch is not stored when the tag is the default.
StoreUnlessDefault(k) == caller[k].tag # Default

\* SelectOutbound: the swap
SelectOutbound(k, tag) ==
    /\ selected # None /\ caller[k].pc = "call"
    /\ selected' = tag
    /\ caller' = [caller EXCEPT ![k] = [pc |-> IF selected = tag THEN "over" ELSE "store",
                                        tag |-> tag]]
    /\ races' = races \cup (IF selected # tag /\ \E j \in Callers : caller[j].pc = "store"
                            THEN {"swap"} ELSE {})
    /\ UNCHANGED <<stored, link, starts>>

MustStore(k) == TRUE

\* cacheFile.StoreSelected
StoreSelected(k) ==
    /\ caller[k].pc = "store"
    /\ caller' = [caller EXCEPT ![k].pc = "interrupt"]
    /\ \/ stored' = (IF MustStore(k) THEN caller[k].tag ELSE stored) /\ UNCHANGED races
       \/ UNCHANGED stored /\ races' = races \cup {"store"}
    /\ UNCHANGED <<selected, link, starts>>

Joined(l) == link[l].state = "joined"

\* Fault: nothing is interrupted.
KeepAll(l) == FALSE

Interrupted(l) == Joined(l)

\* Group.Interrupt, with interrupt_exist_connections set
Interrupt(k) ==
    /\ caller[k].pc = "interrupt"
    /\ caller' = [caller EXCEPT ![k].pc = "over"]
    /\ link' = [l \in Links |-> IF Interrupted(l) THEN [link[l] EXCEPT !.state = "closed"] ELSE link[l]]
    /\ UNCHANGED <<selected, stored, starts, races>>

-----------------------------------------------------------------------------
\* DialContext and ListenPacket read what is selected,
Dial(l) ==
    /\ selected # None /\ link[l].state = "none"
    /\ link' = [link EXCEPT ![l] = [state |-> "dialing", via |-> selected, inbound |-> FALSE]]
    /\ UNCHANGED <<selected, stored, caller, starts, races>>

\* and what was dialed joins the group (NewConn, NewPacketConn).
Join(l) ==
    /\ link[l].state = "dialing"
    /\ \/ /\ link' = [link EXCEPT ![l].state = "joined"]
          /\ races' = races \cup (IF link[l].via # selected THEN {"late"} ELSE {})
       \/ link' = [link EXCEPT ![l].state = "closed"] /\ UNCHANGED races
    /\ UNCHANGED <<selected, stored, caller, starts>>

\* NewConnectionEx and NewPacketConnectionEx hand the connection to what is
\* selected, or to the connection manager with it as the dialer.
NewConnectionEx(l) ==
    /\ selected # None /\ link[l].state = "none"
    /\ link' = [link EXCEPT ![l] = [state |-> "relayed", via |-> selected, inbound |-> TRUE]]
    /\ UNCHANGED <<selected, stored, caller, starts, races>>

CloseLink(l) ==
    /\ link[l].state \in {"joined", "relayed"}
    /\ link' = [link EXCEPT ![l].state = "closed"]
    /\ UNCHANGED <<selected, stored, caller, starts, races>>

Next ==
    \/ Start
    \/ \E k \in Callers :
          (\E tag \in Outbounds : SelectOutbound(k, tag)) \/ StoreSelected(k) \/ Interrupt(k)
    \/ \E l \in Links : Dial(l) \/ Join(l) \/ NewConnectionEx(l) \/ CloseLink(l)

Spec == Init /\ [][Next]_vars

-----------------------------------------------------------------------------
Quiet == \A k \in Callers : ~Busy(k)

\* Between calls a restart would select what is selected now: the cache file
\* holds it, unless two calls overlapped between swap and store (selector.go:133)
\* or the cache file failed.
ChoiceSurvives ==
    selected # None /\ Quiet /\ races \cap {"swap", "store"} = {}
       => selected = (IF stored # None THEN stored ELSE Default)

\* Between calls no connection of the interrupt group goes through an outbound
\* that is no longer selected, unless it joined after the switch.
NoOldConnection ==
    Quiet /\ "late" \notin races => \A l \in Links : Joined(l) => link[l].via = selected

\* "Interrupt existing connections when the selected outbound has changed.
\* Only inbound connections are affected by this setting": with the setting on,
\* no inbound connection stays on an outbound that is no longer selected.
InboundInterrupted ==
    Quiet => \A l \in Links :
       link[l].inbound /\ link[l].state = "relayed" => link[l].via = selected
=============================================================================
