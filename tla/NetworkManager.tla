--------------------------- MODULE NetworkManager ---------------------------
(***************************************************************************)
(* The network manager (route/network.go) behind the platform's monitor of *)
(* the default interface (experimental/libbox/monitor.go), with the table  *)
(* of tracked connections that ResetNetwork closes (route/conn.go).        *)
(*                                                                         *)
(* The platform reports one change at a time; on Windows, where the        *)
(* monitor is a library (external, taken to work like libbox's), power     *)
(* events come from a listener of their own, and dials run beside both.  A *)
(* dial binds its socket to the default interface, connects, and is        *)
(* tracked only then.  Destinations on a directly attached network are     *)
(* left out.                                                               *)
(***************************************************************************)
EXTENDS FiniteSets

CONSTANTS Interfaces, Conns, None

VARIABLES
    platform,
    stage, started,   \* of Start and Close
    default,          \* defaultInterface of the monitor
    finder,           \* the interfaces the interface finder knows
    networkInterfaces,\* those of them that are up
    update,           \* the interface being reported and how far, or None
    networkPaused, devicePaused,
    reset,            \* per caller of ResetNetwork: how far, and what CloseAll took
    conn,             \* per connection: dialing or tracked, and the interface it is bound to
    excused           \* history: connections no reset could reach

netVars == <<platform, stage, started, default, finder, networkInterfaces, update, networkPaused, devicePaused, reset, conn, excused>>
tables == <<default, finder, networkInterfaces>>

Nowhere == "nowhere"     \* the platform has no default interface: index -1
Resetters == {"update", "power"}
Idle == [at |-> "idle", on |-> None]
Quiet == [at |-> "none", closers |-> {}]

TypeOK ==
    /\ platform \in {"libbox", "windows"}
    /\ stage \in {"new", "initialized", "listening", "closed"} /\ started \in BOOLEAN
    /\ default \in Interfaces \cup {None}
    /\ networkInterfaces \subseteq finder /\ finder \subseteq Interfaces
    /\ update # None => update.to \in Interfaces \cup {Nowhere}
    /\ networkPaused \in BOOLEAN /\ devicePaused \in BOOLEAN
    /\ \A r \in Resetters : reset[r].closers \subseteq Conns
    /\ \A c \in Conns : conn[c].at \in {"idle", "dialing", "tracked", "taken"}

Init ==
    /\ platform \in {"libbox", "windows"}
    /\ stage = "new" /\ started = FALSE /\ default = None
    /\ finder = {} /\ networkInterfaces = {}
    /\ update = None
    /\ networkPaused = FALSE /\ devicePaused = FALSE
    /\ reset = [r \in Resetters |-> Quiet]
    /\ conn = [c \in Conns |-> Idle]
    /\ excused = {}

-----------------------------------------------------------------------------
(* Start, Close and the dials. *)

\* StartStateInitialize starts the monitor.
StartMonitor ==
    /\ stage = "new" /\ stage' = "initialized"
    /\ UNCHANGED <<platform, started, tables, update, networkPaused, devicePaused, reset, conn, excused>>

\* StartStateStart starts the power listener.
StartListener ==
    /\ stage = "initialized" /\ stage' = "listening"
    /\ UNCHANGED <<platform, started, tables, update, networkPaused, devicePaused, reset, conn, excused>>

Monitoring == stage \in {"initialized", "listening"}

\* StartStatePostStart: from now on an update resets the network.
PostStart ==
    /\ stage = "listening" /\ ~started /\ started' = TRUE
    /\ UNCHANGED <<platform, stage, tables, update, networkPaused, devicePaused, reset, conn, excused>>

\* Close ends the monitors; started stays as it is for an update underway.
Close ==
    /\ Monitoring /\ stage' = "closed"
    /\ UNCHANGED <<platform, started, tables, update, networkPaused, devicePaused, reset, conn, excused>>

\* AutoDetectInterfaceFunc: no default interface, no dial.
Dial(c) ==
    /\ conn[c] = Idle /\ default # None
    /\ conn' = [conn EXCEPT ![c] = [at |-> "dialing", on |-> default]]
    /\ UNCHANGED <<platform, stage, started, tables, update, networkPaused, devicePaused, reset, excused>>

\* The dial has succeeded, and TrackConn adds the connection.
TrackConn(c) ==
    /\ conn[c].at = "dialing"
    /\ conn' = [conn EXCEPT ![c].at = "tracked"]
    /\ UNCHANGED <<platform, stage, started, tables, update, networkPaused, devicePaused, reset, excused>>

\* The dial fails, or the connection is closed by its user.
Hangup(c) ==
    /\ conn[c].at \in {"dialing", "tracked"}
    /\ conn' = [conn EXCEPT ![c] = Idle]
    /\ excused' = excused \ {c}
    /\ UNCHANGED <<platform, stage, started, tables, update, networkPaused, devicePaused, reset>>

-----------------------------------------------------------------------------
(* The monitor. *)

\* updateDefaultInterface first calls UpdateInterfaces, which may fail and
\* then leaves the tables alone.
UpdateInterfaces(to) ==
    /\ Monitoring /\ update = None
    /\ update' = [to |-> to, at |-> "listed"]
    /\ \/ UNCHANGED <<finder, networkInterfaces>>
       \/ finder' \in SUBSET Interfaces /\ networkInterfaces' \in SUBSET finder'
    /\ UNCHANGED <<platform, stage, started, default, networkPaused, devicePaused, reset, conn, excused>>

\* Fault: coming back from no interface at all is taken for no change.
NothingNew(to) == default \in {None, to}

SameInterface(to) == default = to

\* Under the lock of the monitor: the interface is gone, unknown, the one
\* there was, or a new one for the callbacks.
SetDefault ==
    /\ update # None /\ update.at = "listed"
    /\ \/ /\ update.to = Nowhere
          /\ default' = None /\ update' = [update EXCEPT !.at = "notify"]
       \/ /\ update.to # Nowhere /\ update.to \notin finder
          /\ update' = None /\ UNCHANGED default
       \/ /\ update.to \in finder
          /\ default' = update.to
          /\ update' = IF SameInterface(update.to) THEN None ELSE [update EXCEPT !.at = "notify"]
    /\ UNCHANGED <<platform, stage, started, finder, networkInterfaces, networkPaused, devicePaused, reset, conn, excused>>

InUse == {c \in Conns : conn[c].at \in {"dialing", "tracked"}}

\* notifyInterfaceUpdate: it pauses or wakes the network, gives up when the
\* platform does not have the interface among those that are up ("race"), and
\* resets the network only when the manager has started.
NotifyInterfaceUpdate ==
    /\ update # None /\ update.at = "notify"
    /\ networkPaused' = (update.to = Nowhere)
    /\ LET resets == /\ update.to # Nowhere /\ started
                     /\ platform = "libbox" => update.to \in networkInterfaces
       IN /\ update' = IF resets THEN [update EXCEPT !.at = "reset"] ELSE None
          /\ reset' = IF resets THEN [reset EXCEPT !["update"].at = "begun"] ELSE reset
          /\ excused' = IF resets \/ update.to = Nowhere THEN excused ELSE excused \cup InUse
    /\ UNCHANGED <<platform, stage, started, tables, devicePaused, conn>>

-----------------------------------------------------------------------------
(* ResetNetwork. *)

\* CloseAll empties the table under the lock, ...
TakeAll(r) ==
    /\ reset[r].at = "begun"
    /\ LET taken == {c \in Conns : conn[c].at = "tracked"}
       IN /\ reset' = [reset EXCEPT ![r] = [at |-> "taken", closers |-> taken]]
          /\ conn' = [c \in Conns |-> IF c \in taken THEN [conn[c] EXCEPT !.at = "taken"] ELSE conn[c]]
    /\ excused' = IF r = "update" THEN excused \cup {c \in Conns : conn[c].at = "dialing"} ELSE excused
    /\ UNCHANGED <<platform, stage, started, tables, update, networkPaused, devicePaused>>

\* ... and closes what was in it; then the endpoints, inbounds and outbounds
\* hear of the change.
CloseTaken(r) ==
    /\ reset[r].at = "taken"
    /\ conn' = [c \in Conns |-> IF c \in reset[r].closers THEN Idle ELSE conn[c]]
    /\ excused' = excused \ reset[r].closers
    /\ reset' = [reset EXCEPT ![r] = Quiet]
    /\ update' = IF r = "update" THEN None ELSE update
    /\ UNCHANGED <<platform, stage, started, tables, networkPaused, devicePaused>>

\* notifyWindowsPowerEvent: every event but a resume that finds the device
\* awake resets the network.
PowerEvent(event) ==
    /\ platform = "windows" /\ stage = "listening" /\ reset["power"] = Quiet
    /\ event = "resume" => devicePaused
    /\ devicePaused' = (event = "suspend")
    /\ reset' = [reset EXCEPT !["power"].at = "begun"]
    /\ UNCHANGED <<platform, stage, started, tables, update, networkPaused, conn, excused>>

Next ==
    \/ StartMonitor \/ StartListener \/ PostStart \/ Close
    \/ \E c \in Conns : Dial(c) \/ TrackConn(c) \/ Hangup(c)
    \/ \E to \in Interfaces \cup {Nowhere} : UpdateInterfaces(to)
    \/ SetDefault \/ NotifyInterfaceUpdate
    \/ \E r \in Resetters : TakeAll(r) \/ CloseTaken(r)
    \/ \E event \in {"suspend", "resume", "automatic"} : PowerEvent(event)

Spec == Init /\ [][Next]_netVars

-----------------------------------------------------------------------------
\* When no update is underway every tracked connection runs over the default
\* interface, if there is one, and the network is paused only while there is
\* none.  Excused are the connections no reset could reach: those
\* whose dial was not tracked yet when CloseAll emptied the table, and those
\* in use when notifyInterfaceUpdate returned early, before the manager had
\* started or because the interface was not among those that are up.
ConnectionsFollow ==
    update = None =>
        /\ default # None => \A c \in Conns \ excused : conn[c].at = "tracked" => conn[c].on = default
        /\ networkPaused => default = None
=============================================================================
