----------------------------- MODULE TagManager -----------------------------
(***************************************************************************)
(* The managers of inbounds, endpoints, services and certificate providers *)
(* (adapter/<kind>/manager.go): a list and a map by tag, without           *)
(* dependencies.  Three of them start a stage on the slice they took under *)
(* the lock; the endpoints' holds the lock, and leaves the stage start to  *)
(* the outbound manager.  Create starts its member under the lock, Close   *)
(* closes all under it, Remove closes after it.                            *)
(***************************************************************************)
EXTENDS Integers, Sequences, Functions, FiniteSets

CONSTANTS
    Tags,
    MaxMembers,  \* bound: members created
    None

VARIABLES
    kind,        \* whose manager this is
    started, stage, members, capacity, memberByTag,
    walk,        \* the Start call in progress
    closing,     \* the members whose Close a Remove still has to call
    did,         \* the stages each member has been started at
    life,        \* whether it exists and whether it was closed
    refused,     \* the members of the calls that returned an error
    wasClosed,   \* Close has run
    panicked

tables == <<members, capacity, memberByTag>>
vars == <<kind, started, stage, tables, walk, closing, did, life, refused, wasClosed, panicked>>

Walk == INSTANCE StartWalk

Stages == 0..3  \* initialize, start, post-start, finish-start
Kinds == {"inbound", "endpoint", "service", "certificate"}
Ids == 1..MaxMembers
Made == {n \in Ids : life[n] # "none"}
Objects == [n : Ids, tag : Tags]

TypeOK ==
    /\ kind \in Kinds /\ started \in BOOLEAN /\ stage \in Stages
    /\ members \in Seq(Objects) /\ Len(members) <= capacity
    /\ memberByTag \in [Tags -> Objects \cup {None}]
    /\ did \in [Ids -> SUBSET Stages]
    /\ life \in [Ids -> {"none", "open", "closed"}]
    /\ refused \subseteq Ids

Init ==
    /\ kind \in Kinds
    /\ started = FALSE /\ stage = 0
    /\ members = <<>> /\ capacity = 0
    /\ memberByTag = [t \in Tags |-> None]
    /\ walk = Walk!Idle /\ closing = <<>>
    /\ did = [n \in Ids |-> {}]
    /\ life = [n \in Ids |-> "none"]
    /\ refused = {} /\ wasClosed = FALSE /\ panicked = FALSE

Listed(o) == o \in Range(members)

Panic == panicked' = TRUE /\ UNCHANGED <<started, stage, tables, walk, closing, did,
                                         life, refused, wasClosed>>

-----------------------------------------------------------------------------
\* Create: the member is made, fails at one of its stages, and is dropped.
StartFails(o) ==
    /\ started
    /\ \E s \in Stages : did' = [did EXCEPT ![o.n] = 0..(s - 1)]
    /\ life' = [life EXCEPT ![o.n] = "open"]
    /\ refused' = refused \cup {o.n}
    /\ UNCHANGED <<tables, walk>>

Replaced(old) == IF old # None /\ started THEN [life EXCEPT ![old.n] = "closed"] ELSE life

\* The replaced member's Close returns an error.
CloseFails(o, old) ==
    /\ started /\ old # None
    /\ did' = [did EXCEPT ![o.n] = Stages]
    /\ life' = [Replaced(old) EXCEPT ![o.n] = "open"]
    /\ refused' = refused \cup {o.n}
    /\ UNCHANGED <<tables, walk>>

ListWithout(old) == IF old = None THEN members ELSE Walk!Without(members, old)

Register(o, old) ==
    /\ members' = Append(ListWithout(old), o)
    /\ capacity' = Walk!CapAfter(ListWithout(old), capacity)
    /\ memberByTag' = [memberByTag EXCEPT ![o.tag] = o]
    /\ walk' = Walk!AfterAppend(
                 IF old = None THEN walk ELSE Walk!AfterRemove(walk, members, old),
                 ListWithout(old), capacity, o)
    /\ did' = [did EXCEPT ![o.n] = IF started THEN Stages ELSE {}]
    /\ life' = [Replaced(old) EXCEPT ![o.n] = "open"]
    /\ UNCHANGED refused

\* Close leaves the map, so that replacing a tag panics after it.
Create(t) ==
    /\ Cardinality(Made) < MaxMembers
    /\ LET o == [n |-> Cardinality(Made) + 1, tag |-> t]  old == memberByTag[t]
       IN  \/ /\ \/ StartFails(o) \/ CloseFails(o, old)
                 \/ (old = None \/ Listed(old)) /\ Register(o, old)
              /\ UNCHANGED <<started, stage, closing, wasClosed, panicked>>
           \/ old # None /\ ~Listed(old) /\ Panic

CreateInbound(t) == kind = "inbound" /\ Create(t)
CreateEndpoint(t) == kind = "endpoint" /\ Create(t)
CreateService(t) == kind = "service" /\ Create(t)
CreateProvider(t) == kind = "certificate" /\ Create(t)

-----------------------------------------------------------------------------
RemoveTag(t) ==
    /\ memberByTag[t] # None
    /\ LET o == memberByTag[t]
       IN  IF ~Listed(o) THEN Panic
           ELSE /\ memberByTag' = [memberByTag EXCEPT ![t] = None]
                /\ members' = Walk!Without(members, o)
                /\ walk' = Walk!AfterRemove(walk, members, o)
                /\ closing' = IF started THEN Append(closing, o) ELSE closing
                /\ UNCHANGED <<started, stage, capacity, did, life, refused, wasClosed, panicked>>

RemoveClose ==
    /\ closing # <<>> /\ closing' = Tail(closing)
    /\ life' = [life EXCEPT ![Head(closing).n] = "closed"]
    /\ UNCHANGED <<started, stage, tables, walk, did, refused, wasClosed, panicked>>

RemoveInbound(t) == kind = "inbound" /\ RemoveTag(t)
RemoveEndpoint(t) == kind = "endpoint" /\ RemoveTag(t)
RemoveService(t) == kind = "service" /\ RemoveTag(t)
RemoveProvider(t) == kind = "certificate" /\ RemoveTag(t)

-----------------------------------------------------------------------------
\* Start(stage), called by the box for one stage after the other as long as
\* none fails: the slice is taken under the lock, and walked without it.
NextStage == IF walk = Walk!Idle THEN 0 ELSE stage + 1

MayCallStart == walk = Walk!Idle \/ (walk.phase = "done" /\ walk.result = "started")

StartUnlocked ==
    /\ MayCallStart /\ NextStage \in Stages
    /\ started' = TRUE /\ stage' = NextStage
    /\ walk' = [Walk!Begin(members) EXCEPT !.phase = "plain"]
    /\ UNCHANGED <<tables, closing, did, life, refused, wasClosed, panicked>>

StartOne ==
    /\ walk.phase = "plain" /\ ~Walk!AtEnd
    /\ \/ /\ walk' = [walk EXCEPT !.pos = @ + 1]
          /\ did' = [did EXCEPT ![Walk!Next1.n] = @ \cup {stage}]
       \/ walk' = Walk!End("failed") /\ UNCHANGED did
    /\ UNCHANGED <<started, stage, tables, closing, life, refused, wasClosed, panicked>>

StartReturns ==
    /\ walk.phase = "plain" /\ Walk!AtEnd /\ walk' = Walk!End("started")
    /\ UNCHANGED <<started, stage, tables, closing, did, life, refused, wasClosed, panicked>>

StartInbounds == kind = "inbound" /\ StartUnlocked
StartServices == kind = "service" /\ StartUnlocked
StartProviders == kind = "certificate" /\ StartUnlocked

\* The endpoints: the first n members are started, all of them if none fails.
StartEndpoints ==
    /\ kind = "endpoint" /\ MayCallStart /\ NextStage \in Stages
    /\ started' = TRUE /\ stage' = NextStage
    /\ \E n \in IF NextStage = 1 THEN {0} ELSE 0..Len(members) :
         /\ did' = [i \in Ids |-> IF \E k \in 1..n : members[k].n = i
                                  THEN did[i] \cup {NextStage} ELSE did[i]]
         /\ walk' = Walk!End(IF NextStage # 1 /\ n < Len(members) THEN "failed" ELSE "started")
    /\ UNCHANGED <<tables, closing, life, refused, wasClosed, panicked>>

-----------------------------------------------------------------------------
CloseAll ==
    /\ started /\ started' = FALSE
    /\ members' = <<>> /\ capacity' = 0
    /\ walk' = [walk EXCEPT !.shared = FALSE]
    /\ life' = [n \in Ids |-> IF \E o \in Range(members) : o.n = n THEN "closed" ELSE life[n]]
    /\ wasClosed' = TRUE
    /\ UNCHANGED <<stage, memberByTag, closing, did, refused, panicked>>

CloseInbounds == kind = "inbound" /\ CloseAll
CloseEndpoints == kind = "endpoint" /\ CloseAll
CloseServices == kind = "service" /\ CloseAll
CloseProviders == kind = "certificate" /\ CloseAll

Next ==
    /\ ~panicked
    /\ \/ \E t \in Tags :
            \/ CreateInbound(t) \/ CreateEndpoint(t) \/ CreateService(t) \/ CreateProvider(t)
            \/ RemoveInbound(t) \/ RemoveEndpoint(t) \/ RemoveService(t) \/ RemoveProvider(t)
       \/ RemoveClose
       \/ StartInbounds \/ StartServices \/ StartProviders \/ StartEndpoints
       \/ StartOne \/ StartReturns
       \/ CloseInbounds \/ CloseEndpoints \/ CloseServices \/ CloseProviders
    /\ UNCHANGED kind

-----------------------------------------------------------------------------
Registered == {memberByTag[t] : t \in Tags} \ {None}

\* The list and the map hold the same members until Close empties the list, so
\* that the lookups of Create and Remove do not panic.
ListMatchesMap ==
    ~wasClosed => /\ ~panicked
                  /\ Range(members) = Registered /\ Len(members) = Cardinality(Registered)

\* A member that was started and is not registered is closed, or being closed,
\* or the call that dropped it returned an error: Close leaves none behind.
LeaksAreReported ==
    \A n \in Ids : (did[n] # {} /\ life[n] = "open") =>
        \/ n \in refused
        \/ \E o \in Range(members) \cup Range(closing) : o.n = n

\* When a Start call for a stage returns without error, every registered member
\* has been through that stage, the endpoints but for the stage start.  It takes
\* a removal that moved members under the walk to break it.
EveryoneStarted ==
    (walk.result = "started" /\ ~walk.shifted /\ ~wasClosed) =>
        \A o \in Registered : stage \in did[o.n] \/ (kind = "endpoint" /\ stage = 1)
=============================================================================
