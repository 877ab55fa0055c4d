----------------------------- MODULE MCManagers -----------------------------
(***************************************************************************)
(* The managers of outbounds, DNS transports, inbounds, endpoints,         *)
(* services and certificate providers, which hold the same tables under    *)
(* much the same rules: a behaviour is one of one of them.  Three members  *)
(* over two tags are created, the outbounds and transports each alone or   *)
(* depending on a; the outbounds share the start with one endpoint, the    *)
(* transports of one tag may be fakeip servers.                            *)
(***************************************************************************)
EXTENDS Integers, Sequences

CONSTANTS Tags, Endpoints, DefaultTag, None

VARIABLES
    manager,   \* which of the managers this is
    started, stage, list, capacity, byTag, dependByTag, default, fakeIPTransport,
    walk, creating, closing, did, life, refused, wasClosed, panicked

vars == <<manager, started, stage, list, capacity, byTag, dependByTag, default,
          fakeIPTransport, walk, creating, closing, did, life, refused,
          wasClosed, panicked>>

DepLists == {<<>>, <<"a">>}

Outbound == INSTANCE OutboundManager WITH
    MaxOutbounds <- 3, outbounds <- list, outboundByTag <- byTag,
    defaultOutbound <- default

Transport == INSTANCE TransportManager WITH
    MaxTransports <- 3, FakeIPTags <- {"b"}, transports <- list,
    transportByTag <- byTag, defaultTransport <- default

Tagged == INSTANCE TagManager WITH
    MaxMembers <- 3, kind <- manager, members <- list, memberByTag <- byTag

\* What the simple managers have not.
Extras == <<dependByTag, default, fakeIPTransport, creating>>

Init ==
    \/ manager = "outbound" /\ Outbound!Init /\ fakeIPTransport = None
    \/ manager = "transport" /\ Transport!Init /\ creating = None /\ panicked = FALSE
    \/ /\ Tagged!Init
       /\ dependByTag = <<>> /\ default = None /\ fakeIPTransport = None /\ creating = None

\* Bound: after Close no member is made, registered or removed and Start goes no
\* further; the members are closed, and a call of Create that was begun returns.
MadeBeforeClose ==
    wasClosed => /\ UNCHANGED <<byTag, walk>>
                 /\ \A n \in DOMAIN life : life[n] = "none" => life'[n] = "none"

Next ==
    /\ \/ manager = "outbound" /\ Outbound!Next /\ UNCHANGED fakeIPTransport
       \/ manager = "transport" /\ Transport!Next /\ UNCHANGED <<creating, panicked>>
       \/ manager \in Tagged!Kinds /\ Tagged!Next /\ UNCHANGED Extras
    /\ MadeBeforeClose
    /\ UNCHANGED manager

Spec == Init /\ [][Next]_vars

-----------------------------------------------------------------------------
\* The variables of either manager have their types.
TypeOK ==
    CASE manager = "outbound" -> Outbound!TypeOK
      [] manager = "transport" -> Transport!TypeOK
      [] OTHER -> Tagged!TypeOK

\* The list and the map of a manager hold the same members, one for each
\* tag, until Close empties the list: Create and Remove panic when the index
\* of a member they found in the map is not in the list.
ListMatchesMap ==
    CASE manager = "outbound" -> Outbound!ListMatchesMap
      [] manager = "transport" -> Transport!ListMatchesMap
      [] OTHER -> Tagged!ListMatchesMap

\* The reverse dependencies name every registered member under each tag it
\* depends on, however often tags were replaced and removals refused, so
\* that Remove never takes one away silently from another that needs it.
DependByCovers ==
    /\ manager = "outbound" => Outbound!DependByCovers
    /\ manager = "transport" => Transport!DependByCovers

\* What the manager knows of its members, in the list, the map by tag and the
\* reverse dependencies, agrees.
TablesAgree == TypeOK /\ ListMatchesMap /\ DependByCovers

\* Until Close, a member that was started and is no longer registered is
\* closed, or the call that dropped it returned an error; the simple managers
\* keep that through Close, which holds the lock.
LeaksAreReported ==
    CASE manager = "outbound" -> Outbound!LeaksAreReported
      [] manager = "transport" -> Transport!LeaksAreReported
      [] OTHER -> Tagged!LeaksAreReported

\* When a Start call of a manager whose Create holds the lock returns without
\* error, every registered member has been through its stage, also those that
\* Create brought in while Start was walking its older list, unless a removal
\* moved members under that walk.
EveryoneStarted ==
    /\ manager = "transport" => Transport!EveryoneStarted
    /\ manager \in Tagged!Kinds => Tagged!EveryoneStarted

\* Remove and Create say "default server cannot be fakeip": the default
\* transport is never a fakeip server.
DefaultNeverFakeIP == manager = "transport" => Transport!DefaultNeverFakeIP
=============================================================================
