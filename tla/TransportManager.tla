------------------------- MODULE TransportManager -------------------------
(***************************************************************************)
(* The DNS transport manager (dns/transport_manager.go).  It is built like *)
(* the outbound manager, with three differences: Create starts its         *)
(* transport under the lock, there are no endpoints, and at most one       *)
(* transport may be a fakeip server, which must not be the default.        *)
(***************************************************************************)
EXTENDS Integers, Sequences, Functions, FiniteSets

CONSTANTS
    Tags,          \* the tags transports are created with
    DefaultTag,    \* m.defaultTag, dns.final; "" when not set
    DepLists,      \* the dependencies a transport may have
    FakeIPTags,    \* the tags a fakeip server may be created with
    MaxTransports, \* bound: transports created
    None

VARIABLES
    started, stage, transports, transportByTag, dependByTag, defaultTransport,
    fakeIPTransport,
    capacity,      \* of the slice transports
    walk,          \* the Start call in progress
    closing,       \* the transports a Close call still has to close
    did,           \* the stages each transport has been started at
    life,          \* whether it exists and whether it was closed
    refused,       \* the transports of the calls that returned an error
    wasClosed      \* Close has run

tables == <<transports, capacity, transportByTag, dependByTag, defaultTransport,
            fakeIPTransport>>
vars == <<started, stage, tables, walk, closing, did, life, refused, wasClosed>>

Walk == INSTANCE StartWalk

Stages == 0..3      \* initialize, start, post-start, finish-start
Local == "local"    \* the tag of the fallback transport
AllTags == Tags \cup {Local}
Ids == 1..(MaxTransports + 1)
Made == {n \in Ids : life[n] # "none"}
Fresh == CHOOSE n \in Ids \ Made : \A k \in Ids \ Made : n <= k
Objects == [n : Ids, tag : AllTags, deps : DepLists, fakeip : BOOLEAN]

TypeOK ==
    /\ started \in BOOLEAN /\ stage \in Stages
    /\ transports \in Seq(Objects) /\ Len(transports) <= capacity
    /\ transportByTag \in [AllTags -> Objects \cup {None}]
    /\ DOMAIN dependByTag = AllTags
    /\ \A t \in AllTags : dependByTag[t] \in Seq(AllTags)
    /\ defaultTransport \in Objects \cup {None}
    /\ fakeIPTransport \in Objects \cup {None}
    /\ fakeIPTransport # None => fakeIPTransport.fakeip
    /\ did \in [Ids -> SUBSET Stages]
    /\ life \in [Ids -> {"none", "open", "closed"}]
    /\ refused \subseteq Ids

Init ==
    /\ started = FALSE /\ stage = 0
    /\ transports = <<>> /\ capacity = 0
    /\ transportByTag = [t \in AllTags |-> None]
    /\ dependByTag = [t \in AllTags |-> <<>>]
    /\ defaultTransport = None
    /\ fakeIPTransport = None
    /\ walk = Walk!Idle
    /\ closing = <<>>
    /\ did = [n \in Ids |-> {}]
    /\ life = [n \in Ids |-> "none"]
    /\ refused = {}
    /\ wasClosed = FALSE

Listed(o) == o \in Range(transports)

ClosedNow(n) == [life EXCEPT ![n] = "closed"]

Refuse(o) == refused' = refused \cup {o.n}

-----------------------------------------------------------------------------
\* Fault: a transport that comes while the first stage is running is left
\* to that stage.
MustStartLate == started /\ stage > 0

MustStart == started

\* Create: the transport does not start, which ends Create.
CreateStartFails(o) ==
    /\ MustStart
    /\ life' = [life EXCEPT ![o.n] = "open"]
    /\ Refuse(o)
    /\ UNCHANGED <<tables, did, walk>>

\* Fault: the replaced transport is not closed.
ReplacedForgotten(old) == life

Replaced(old) == IF old # None /\ started THEN ClosedNow(old.n) ELSE life

\* Create: the replaced transport's Close returns an error.
CreateCloseFails(o, old) ==
    /\ started /\ old # None
    /\ life' = [Replaced(old) EXCEPT ![o.n] = "open"]
    /\ did' = [did EXCEPT ![o.n] = Stages]
    /\ Refuse(o)
    /\ UNCHANGED <<tables, walk>>

\* Fault: the transport that is replaced stays in the list.
ListKept(old) == transports

ListWithout(old) == IF old = None THEN transports ELSE Walk!Without(transports, old)

DependByWith(o) ==
    [t \in AllTags |-> IF t \in Range(o.deps) THEN Append(dependByTag[t], o.tag)
                       ELSE dependByTag[t]]

BecomesDefault(o) == o.tag = DefaultTag \/ (DefaultTag = "" /\ defaultTransport = None)

TakesFakeIPRole(o) == o.fakeip /\ fakeIPTransport = None

\* Create: the transport is registered; that it cannot be the default, or
\* is a second fakeip server, is reported only after that.
CreateRegister(o, old) ==
    LET refusal == o.fakeip /\ (BecomesDefault(o) \/ fakeIPTransport # None)
    IN  /\ old # None => Listed(old)
        /\ transports' = Append(ListWithout(old), o)
        /\ capacity' = Walk!CapAfter(ListWithout(old), capacity)
        /\ walk' = Walk!AfterAppend(
                     IF old = None THEN walk ELSE Walk!AfterRemove(walk, transports, old),
                     ListWithout(old), capacity, o)
        /\ transportByTag' = [transportByTag EXCEPT ![o.tag] = o]
        /\ dependByTag' = DependByWith(o)
        /\ defaultTransport' = IF BecomesDefault(o) /\ ~o.fakeip THEN o
                               ELSE defaultTransport
        /\ fakeIPTransport' = IF ~(o.fakeip /\ BecomesDefault(o)) /\ TakesFakeIPRole(o)
                              THEN o ELSE fakeIPTransport
        /\ life' = [Replaced(old) EXCEPT ![o.n] = "open"]
        /\ did' = [did EXCEPT ![o.n] = IF MustStart THEN Stages ELSE {}]
        /\ IF refusal THEN Refuse(o) ELSE UNCHANGED refused

Create(t, deps, fakeip) ==
    /\ Cardinality(Made) < MaxTransports
    /\ LET o   == [n |-> Fresh, tag |-> t, deps |-> deps, fakeip |-> fakeip]
           old == transportByTag[t]
       IN  CreateStartFails(o) \/ CreateCloseFails(o, old) \/ CreateRegister(o, old)
    /\ UNCHANGED <<started, stage, closing, wasClosed>>

-----------------------------------------------------------------------------
DependByWithout(o) ==
    [t \in AllTags |->
        IF t \notin Range(o.deps) THEN dependByTag[t]
        ELSE IF Len(dependByTag[t]) = 1 THEN <<>>
        ELSE SelectSeq(dependByTag[t], LAMBDA x : x # o.tag)]

\* The condition on the next default transport, as it is written.
NextDefaultRefused(next) == ~next.fakeip

\* Remove: nothing is undone when the next default or the transports that
\* depend on this one end it with an error.
RemoveTag(t) ==
    /\ transportByTag[t] # None
    /\ LET o    == transportByTag[t]
           rest == Walk!Without(transports, o)
           next == IF rest = <<>> THEN None ELSE Head(rest)
       IN  /\ Listed(o)
           /\ transportByTag' = [transportByTag EXCEPT ![t] = None]
           /\ transports' = rest /\ walk' = Walk!AfterRemove(walk, transports, o)
           /\ IF defaultTransport = o /\ next # None /\ NextDefaultRefused(next)
              THEN Refuse(o) /\ UNCHANGED <<defaultTransport, dependByTag, life>>
              ELSE /\ defaultTransport' = IF defaultTransport = o THEN next
                                          ELSE defaultTransport
                   /\ IF dependByTag[t] # <<>>
                      THEN Refuse(o) /\ UNCHANGED <<dependByTag, life>>
                      ELSE /\ dependByTag' = DependByWithout(o)
                           /\ life' = IF started THEN ClosedNow(o.n) ELSE life
                           /\ UNCHANGED refused
    /\ UNCHANGED <<started, stage, capacity, fakeIPTransport, closing, did, wasClosed>>

-----------------------------------------------------------------------------
\* Start(stage), called by the box for one stage after the other as long as
\* none fails: the part under the lock.
NextStage == IF walk = Walk!Idle THEN 0 ELSE stage + 1

MayCallStart == walk = Walk!Idle \/ (walk.phase = "done" /\ walk.result = "started")

StartFallback ==
    LET local == [n |-> Fresh, tag |-> Local, deps |-> <<>>, fakeip |-> FALSE]
    IN  /\ transports' = Append(transports, local)
        /\ capacity' = Walk!CapAfter(transports, capacity)
        /\ transportByTag' = [transportByTag EXCEPT ![Local] = local]
        /\ defaultTransport' = local
        /\ life' = [life EXCEPT ![Fresh] = "open"]
        /\ UNCHANGED <<dependByTag, fakeIPTransport>>

StartStage ==
    /\ MayCallStart /\ NextStage \in Stages
    /\ started' = TRUE /\ stage' = NextStage
    /\ IF NextStage # 1
       THEN /\ walk' = [Walk!Begin(transports) EXCEPT !.phase = "plain"]
            /\ UNCHANGED <<tables, life>>
       ELSE IF defaultTransport = None /\ DefaultTag # ""
       THEN /\ walk' = [Walk!Idle EXCEPT !.phase = "done", !.result = "failed"]
            /\ UNCHANGED <<tables, life>>
       ELSE /\ IF defaultTransport = None THEN StartFallback
               ELSE UNCHANGED <<tables, life>>
            /\ walk' = Walk!Begin(transports')
    /\ UNCHANGED <<closing, did, refused, wasClosed>>

StageDone(o) == did' = [did EXCEPT ![o.n] = @ \cup {stage}]

\* The stages other than start, in the order of the list.
WalkPlain ==
    /\ walk.phase = "plain"
    /\ \/ Walk!AtEnd /\ walk' = Walk!End("started") /\ UNCHANGED did
       \/ ~Walk!AtEnd /\ walk' = [walk EXCEPT !.pos = @ + 1] /\ StageDone(Walk!Next1)
       \/ ~Walk!AtEnd /\ walk' = Walk!End("failed") /\ UNCHANGED did
    /\ UNCHANGED <<started, stage, tables, closing, life, refused, wasClosed>>

KnownAs(t) == IF t \in AllTags THEN transportByTag[t] ELSE None

\* The stage start, in the order of the dependencies.
WalkStart ==
    /\ \/ Walk!MayStart /\ Walk!StartMember /\ StageDone(Walk!Next1)
       \/ Walk!MayStart /\ Walk!StartFails /\ UNCHANGED did
       \/ /\ Walk!Skip \/ Walk!PassDone \/ Walk!NextPass \/ Walk!Stuck
             \/ Walk!Lint(KnownAs(Walk!Problem))
          /\ UNCHANGED did
    /\ UNCHANGED <<started, stage, tables, closing, life, refused, wasClosed>>

-----------------------------------------------------------------------------
\* Close takes the list and closes it without the lock.  It leaves the map,
\* so Create and Remove of a tag in it panic afterwards and the process ends:
\* that is the Listed in their guards.
Close ==
    /\ started
    /\ started' = FALSE
    /\ closing' = closing \o transports
    /\ transports' = <<>> /\ capacity' = 0
    /\ walk' = [walk EXCEPT !.shared = FALSE]
    /\ wasClosed' = TRUE
    /\ UNCHANGED <<stage, transportByTag, dependByTag, defaultTransport,
                   fakeIPTransport, did, life, refused>>

CloseOne ==
    /\ closing # <<>>
    /\ life' = ClosedNow(Head(closing).n)
    /\ closing' = Tail(closing)
    /\ UNCHANGED <<started, stage, tables, walk, did, refused, wasClosed>>

Next ==
    /\ walk.result # "panicked"
    /\ \/ \E t \in Tags : \E deps \in DepLists :
            \E f \in {b \in BOOLEAN : b => t \in FakeIPTags} : Create(t, deps, f)
       \/ \E t \in AllTags : RemoveTag(t)
       \/ StartStage \/ WalkPlain \/ WalkStart
       \/ Close \/ CloseOne

Spec == Init /\ [][Next]_vars

-----------------------------------------------------------------------------
Registered == {transportByTag[t] : t \in AllTags} \ {None}

\* The list and the map hold the same transports, one for each tag, until
\* Close empties the list.
ListMatchesMap ==
    ~wasClosed => /\ Range(transports) = Registered
                  /\ Len(transports) = Cardinality(Registered)

\* The reverse dependencies name every registered transport under each tag
\* it depends on, whatever was replaced, removed or refused before.
DependByCovers ==
    \A o \in Registered : \A d \in Range(o.deps) \cap AllTags :
        o.tag \in Range(dependByTag[d])

\* Until Close, a transport that was started and is no longer registered is
\* closed, or the call that dropped it returned an error.
LeaksAreReported ==
    ~wasClosed => \A n \in Ids :
        (did[n] # {} /\ life[n] = "open") =>
            \/ n \in refused
            \/ \E o \in Registered : o.n = n

\* When a Start call for a stage returns without error, every registered
\* transport has been through that stage, also those that Create brought in
\* while the call was walking its older list.  It takes a removal that moved
\* members under the walk to break it, and to make the walk panic.
EveryoneStarted ==
    ~walk.shifted =>
        /\ walk.result # "panicked"
        /\ (walk.phase = "done" /\ walk.result = "started" /\ ~wasClosed) =>
               \A o \in Registered : stage \in did[o.n]

\* The default transport is never a fakeip server.
DefaultNeverFakeIP == defaultTransport # None => ~defaultTransport.fakeip
=============================================================================
