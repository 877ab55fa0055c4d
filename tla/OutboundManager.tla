-------------------------- MODULE OutboundManager --------------------------
(***************************************************************************)
(* The outbound manager (adapter/outbound/manager.go): the list, the map   *)
(* by tag and the reverse dependencies of the outbounds, the default one,  *)
(* and the stages the outbounds are started in.                            *)
(*                                                                         *)
(* What runs under m.access is one action.  Create starts its outbound     *)
(* before it takes the lock, Start walks the list it took under the lock,  *)
(* and Close closes what it took, so these interleave.  The box calls      *)
(* Start with one stage after the other; Close, Create and Remove may come *)
(* at any time.                                                            *)
(*                                                                         *)
(* An outbound is a record of its identity n, its tag and the sequence of  *)
(* tags it depends on.                                                     *)
(***************************************************************************)
EXTENDS Integers, Sequences, Functions, FiniteSets

CONSTANTS
    Tags,         \* the tags outbounds are created with
    Endpoints,    \* the tags of the endpoint manager's endpoints
    DefaultTag,   \* m.defaultTag, route.final; "" when not set
    DepLists,     \* the dependencies an outbound may have
    MaxOutbounds, \* bound: outbounds created
    None

VARIABLES
    started, stage, outbounds, outboundByTag, dependByTag, defaultOutbound,
    capacity,     \* of the slice outbounds
    walk,         \* the Start call in progress
    creating,     \* the Create call that does not hold the lock
    closing,      \* the outbounds a Close call still has to close
    did,          \* the outbounds that have been started at some stage
    life,         \* whether it exists and whether it was closed
    refused,      \* the outbounds of the calls that returned an error
    wasClosed,    \* Close has run
    panicked

vars == <<started, stage, outbounds, capacity, outboundByTag, dependByTag, defaultOutbound,
          walk, creating, closing, did, life, refused, wasClosed, panicked>>

Walk == INSTANCE StartWalk

Stages == 0..3      \* initialize, start, post-start, finish-start
Direct == "direct"  \* the tag of the fallback outbound
AllTags == Tags \cup {Direct}
Ids == 1..(MaxOutbounds + 1)
Made == {n \in Ids : life[n] # "none"}
Fresh == CHOOSE n \in Ids \ Made : \A k \in Ids \ Made : n <= k
Objects == [n : Ids, tag : AllTags, deps : DepLists]

Endpoint(t) == [n |-> 0, tag |-> t, deps |-> <<>>]

\* m.endpoint.Endpoints(), in an order of its own
EndpointList ==
    LET all == {Endpoint(t) : t \in Endpoints}
    IN  CHOOSE s \in [1..Cardinality(Endpoints) -> all] : Range(s) = all

TypeOK ==
    /\ started \in BOOLEAN /\ stage \in Stages
    /\ outbounds \in Seq(Objects) /\ Len(outbounds) <= capacity
    /\ outboundByTag \in [AllTags -> Objects \cup {None}]
    /\ \A t \in AllTags : outboundByTag[t] # None => outboundByTag[t].tag = t
    /\ DOMAIN dependByTag = AllTags
    /\ \A t \in AllTags : dependByTag[t] \in Seq(AllTags)
    /\ defaultOutbound \in Objects \cup {None} \cup {Endpoint(t) : t \in Endpoints}
    /\ did \subseteq Ids
    /\ life \in [Ids -> {"none", "open", "closed"}]
    /\ refused \subseteq Ids

Init ==
    /\ started = FALSE /\ stage = 0
    /\ outbounds = <<>> /\ capacity = 0
    /\ outboundByTag = [t \in AllTags |-> None]
    /\ dependByTag = [t \in AllTags |-> <<>>]
    /\ defaultOutbound = None
    /\ walk = Walk!Idle
    /\ creating = None
    /\ closing = <<>>
    /\ did = {}
    /\ life = [n \in Ids |-> "none"]
    /\ refused = {}
    /\ wasClosed = FALSE
    /\ panicked = FALSE

tables == <<outbounds, capacity, outboundByTag, dependByTag, defaultOutbound>>

Listed(o) == o \in Range(outbounds)

\* The lock is never released after a panic; nothing of the manager runs on.
Running == ~panicked /\ walk.result # "panicked"

Panic == panicked' = TRUE /\ UNCHANGED <<started, stage, tables, walk, creating,
                                         closing, did, life, refused, wasClosed>>

ClosedNow(S) == [n \in Ids |-> IF n \in S THEN "closed" ELSE life[n]]

-----------------------------------------------------------------------------
\* Create: the registry makes the outbound, and m.started is read without
\* the lock.
CreateBegin(t, deps) ==
    /\ Running /\ creating = None /\ Cardinality(Made) < MaxOutbounds
    /\ creating' = [o |-> [n |-> Fresh, tag |-> t, deps |-> deps],
                    phase |-> IF started THEN "start" ELSE "insert"]
    /\ life' = [life EXCEPT ![Fresh] = "open"]
    /\ UNCHANGED <<started, stage, tables, walk, closing, did, refused,
                   wasClosed, panicked>>

\* All four stages of the new outbound; an error ends Create.
CreateStart ==
    /\ Running /\ creating # None /\ creating.phase = "start"
    /\ \/ /\ did' = did \cup {creating.o.n}
          /\ creating' = [creating EXCEPT !.phase = "insert"]
          /\ UNCHANGED refused
       \/ /\ creating' = None
          /\ refused' = refused \cup {creating.o.n}
          /\ UNCHANGED did
    /\ UNCHANGED <<started, stage, tables, walk, closing, life, wasClosed, panicked>>

\* The dependencies on endpoints are recorded as well, and never read.
DependByWith(o) ==
    [t \in AllTags |-> IF t \in Range(o.deps) THEN Append(dependByTag[t], o.tag)
                       ELSE dependByTag[t]]

BecomesDefault(o) == o.tag = DefaultTag \/ (DefaultTag = "" /\ defaultOutbound = None)

\* Fault: the replaced outbound is not closed.
ReplacedForgotten(old) == life

Replaced(old) == IF old # None /\ started THEN ClosedNow({old.n}) ELSE life

\* Fault: the outbound that is replaced stays in the list.
ListKept(old) == outbounds

ListWithout(old) == IF old = None THEN outbounds ELSE Walk!Without(outbounds, old)

FiledUnder(o) == o.tag

\* The part under the lock.
CreateInsert ==
    /\ Running /\ creating # None /\ creating.phase = "insert"
    /\ LET o == creating.o  old == outboundByTag[o.tag]
       IN  IF old # None /\ ~Listed(old) THEN Panic
           ELSE /\ outbounds' = Append(ListWithout(old), o)
                /\ capacity' = Walk!CapAfter(ListWithout(old), capacity)
                /\ walk' = Walk!AfterAppend(
                             IF old = None THEN walk ELSE Walk!AfterRemove(walk, outbounds, old),
                             ListWithout(old), capacity, o)
                /\ outboundByTag' = [outboundByTag EXCEPT ![FiledUnder(o)] = o]
                /\ dependByTag' = DependByWith(o)
                /\ defaultOutbound' = IF BecomesDefault(o) THEN o ELSE defaultOutbound
                /\ life' = Replaced(old)
                /\ creating' = None
                /\ UNCHANGED <<started, stage, closing, did, refused, wasClosed, panicked>>

\* The replaced outbound's Close returns an error, which ends Create.
CreateCloseFails ==
    /\ Running /\ creating # None /\ creating.phase = "insert" /\ started
    /\ LET old == outboundByTag[creating.o.tag]
       IN  /\ old # None
           /\ life' = ClosedNow({old.n})
    /\ refused' = refused \cup {creating.o.n}
    /\ creating' = None
    /\ UNCHANGED <<started, stage, tables, walk, closing, did, wasClosed, panicked>>

-----------------------------------------------------------------------------
\* Fault: all the reverse dependencies of what it depended on are dropped.
DependByCleared(o) ==
    [t \in AllTags |-> IF t \in Range(o.deps) THEN <<>> ELSE dependByTag[t]]

DependByWithout(o) ==
    [t \in AllTags |->
        IF t \notin Range(o.deps) THEN dependByTag[t]
        ELSE IF Len(dependByTag[t]) = 1 THEN <<>>
        ELSE SelectSeq(dependByTag[t], LAMBDA x : x # o.tag)]

DefaultAfterRemove(o) ==
    IF defaultOutbound # o THEN defaultOutbound
    ELSE IF Walk!Without(outbounds, o) = <<>> THEN None ELSE Head(Walk!Without(outbounds, o))

\* Remove: the outbound leaves the list, the map and the default before the
\* outbounds that depend on it are looked at; then it is an error to go on.
RemoveTag(t) ==
    /\ Running /\ outboundByTag[t] # None
    /\ LET o == outboundByTag[t]
       IN  IF ~Listed(o) THEN Panic
           ELSE /\ outboundByTag' = [outboundByTag EXCEPT ![t] = None]
                /\ outbounds' = Walk!Without(outbounds, o)
                /\ walk' = Walk!AfterRemove(walk, outbounds, o)
                /\ defaultOutbound' = DefaultAfterRemove(o)
                /\ IF dependByTag[t] # <<>>
                   THEN /\ refused' = refused \cup {o.n}
                        /\ UNCHANGED <<dependByTag, life>>
                   ELSE /\ dependByTag' = DependByWithout(o)
                        /\ life' = IF started THEN ClosedNow({o.n}) ELSE life
                        /\ UNCHANGED refused
                /\ UNCHANGED <<started, stage, capacity, creating, closing, did,
                               wasClosed, panicked>>

-----------------------------------------------------------------------------
\* Start(stage), called by the box for one stage after the other as long as
\* none fails: the part under the lock.
NextStage == IF walk = Walk!Idle THEN 0 ELSE stage + 1

MayCallStart == walk = Walk!Idle \/ (walk.phase = "done" /\ walk.result = "started")

DefaultEndpoint == DefaultTag # "" /\ defaultOutbound = None

StartFallback ==
    LET direct == [n |-> Fresh, tag |-> Direct, deps |-> <<>>]
    IN  /\ outbounds' = Append(outbounds, direct)
        /\ capacity' = Walk!CapAfter(outbounds, capacity)
        /\ outboundByTag' = [outboundByTag EXCEPT ![Direct] = direct]
        /\ defaultOutbound' = direct
        /\ life' = [life EXCEPT ![Fresh] = "open"]

StartStage ==
    /\ Running /\ MayCallStart /\ NextStage \in Stages
    /\ started' = TRUE /\ stage' = NextStage
    /\ IF NextStage # 1
       THEN /\ walk' = [Walk!Begin(outbounds) EXCEPT !.phase = "plain"]
            /\ UNCHANGED <<tables, life>>
       ELSE IF DefaultEndpoint /\ DefaultTag \notin Endpoints
       THEN /\ walk' = [Walk!Idle EXCEPT !.phase = "done", !.result = "failed"]
            /\ UNCHANGED <<tables, life>>
       ELSE /\ IF DefaultEndpoint
               THEN /\ defaultOutbound' = Endpoint(DefaultTag)
                    /\ UNCHANGED <<outbounds, capacity, outboundByTag, life>>
               ELSE IF defaultOutbound = None THEN StartFallback
               ELSE UNCHANGED <<outbounds, capacity, outboundByTag, defaultOutbound, life>>
            /\ walk' = [Walk!Begin(outbounds' \o EndpointList)
                          EXCEPT !.shared = Len(outbounds') + Cardinality(Endpoints) <= capacity']
            /\ UNCHANGED dependByTag
    /\ UNCHANGED <<creating, closing, did, refused, wasClosed, panicked>>

StageDone(o) == did' = did \cup ({o.n} \cap Ids)

\* The stages other than start, in the order of the list.
WalkPlain ==
    /\ Running /\ walk.phase = "plain"
    /\ \/ /\ Walk!AtEnd
          /\ walk' = Walk!End("started") /\ UNCHANGED did
       \/ /\ ~Walk!AtEnd
          /\ walk' = [walk EXCEPT !.pos = @ + 1] /\ StageDone(Walk!Next1)
       \/ /\ ~Walk!AtEnd
          /\ walk' = Walk!End("failed") /\ UNCHANGED did
    /\ UNCHANGED <<started, stage, tables, creating, closing, life, refused,
                   wasClosed, panicked>>

KnownAs(t) == IF t \in AllTags THEN outboundByTag[t] ELSE None

\* The stage start, in the order of the dependencies.
WalkStart ==
    /\ Running
    /\ \/ Walk!MayStart /\ Walk!StartMember /\ StageDone(Walk!Next1)
       \/ Walk!MayStart /\ Walk!StartFails /\ UNCHANGED did
       \/ /\ Walk!Skip \/ Walk!PassDone \/ Walk!NextPass \/ Walk!Stuck
             \/ Walk!Lint(KnownAs(Walk!Problem))
          /\ UNCHANGED did
    /\ UNCHANGED <<started, stage, tables, creating, closing, life, refused,
                   wasClosed, panicked>>

-----------------------------------------------------------------------------
\* Close takes the list and closes it without the lock.
Close ==
    /\ Running /\ started
    /\ started' = FALSE
    /\ closing' = closing \o outbounds
    /\ outbounds' = <<>> /\ capacity' = 0
    /\ walk' = [walk EXCEPT !.shared = FALSE]
    /\ wasClosed' = TRUE
    /\ UNCHANGED <<stage, outboundByTag, dependByTag, defaultOutbound, creating,
                   did, life, refused, panicked>>

CloseOne ==
    /\ closing # <<>>
    /\ life' = ClosedNow({Head(closing).n})
    /\ closing' = Tail(closing)
    /\ UNCHANGED <<started, stage, tables, walk, creating, did, refused,
                   wasClosed, panicked>>

Next ==
    \/ \E t \in Tags : \E deps \in DepLists : CreateBegin(t, deps)
    \/ CreateStart \/ CreateInsert \/ CreateCloseFails
    \/ \E t \in AllTags : RemoveTag(t)
    \/ StartStage \/ WalkPlain \/ WalkStart
    \/ Close \/ CloseOne

Spec == Init /\ [][Next]_vars

-----------------------------------------------------------------------------
Registered == {outboundByTag[t] : t \in AllTags} \ {None}

\* The list and the map hold the same outbounds, one for each tag, until
\* Close empties the list: the index lookups of Create and Remove rest on it.
ListMatchesMap ==
    ~wasClosed => /\ ~panicked
                  /\ Range(outbounds) = Registered
                  /\ Len(outbounds) = Cardinality(Registered)

\* The reverse dependencies name every registered outbound under each tag it
\* depends on, however often tags were replaced and removals refused, so
\* that Remove never takes an outbound away silently from one that needs it.
DependByCovers ==
    \A o \in Registered : \A d \in Range(o.deps) \cap AllTags :
        o.tag \in Range(dependByTag[d])

\* Until Close, an outbound that was started and is no longer registered is
\* closed, or the call that dropped it returned an error.
LeaksAreReported ==
    ~wasClosed => \A n \in Ids :
        (n \in did /\ life[n] = "open") =>
            \/ n \in refused
            \/ \E o \in Registered : o.n = n
            \/ creating # None /\ creating.o.n = n
=============================================================================
