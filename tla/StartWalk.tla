----------------------------- MODULE StartWalk -----------------------------
(***************************************************************************)
(* startOutbounds and startTransports: the walk that starts the members of *)
(* a list in the order of their dependencies, in as many passes as it      *)
(* takes, and that explains why it is stuck when a pass starts nothing.    *)
(*                                                                         *)
(* A member is a record with a tag and the sequence deps of the tags it    *)
(* depends on.  The walk runs outside the manager's lock, on the slice it  *)
(* took under it, whose array is the manager's until an append makes a new *)
(* one: what Remove and Create write into it shows in the walk.  (A read   *)
(* that meets such a write gives the member before or after it.)  Only the *)
(* explanation looks tags up in the manager again.                         *)
(***************************************************************************)
EXTENDS Integers, Sequences, Functions, FiniteSets

CONSTANT None

VARIABLE walk

Idle == [phase |-> "idle", list |-> <<>>, pos |-> 0, begun |-> {},
         canContinue |-> FALSE, tree |-> <<>>, current |-> None,
         result |-> None,
         shared |-> FALSE,   \* the slice has the manager's array
         shifted |-> FALSE]  \* history: a member was written into it

Begin(list) == [Idle EXCEPT !.phase = "walk", !.list = list, !.pos = 1, !.shared = TRUE]

End(r) == [Idle EXCEPT !.phase = "done", !.result = r, !.shifted = walk.shifted]

\* An error that names the place it was found at.
EndHere(r) == [walk EXCEPT !.phase = "done", !.result = r, !.shared = FALSE]

\* append(list[:i], list[i+1:]...), where list[i] is m, moves the members after
\* m in the array; append(list, m) writes the next slot of the array, or makes
\* a new one of twice the capacity.
Index(list, m) == CHOOSE k \in DOMAIN list : list[k] = m

Without(list, m) ==
    [j \in 1..(Len(list) - 1) |-> IF j < Index(list, m) THEN list[j] ELSE list[j + 1]]

Shown(w, view) == [w EXCEPT !.list = view, !.shifted = @ \/ view # w.list]

AfterRemove(w, list, m) ==
    IF ~w.shared THEN w
    ELSE Shown(w, [j \in DOMAIN w.list |->
                     IF j \in Index(list, m)..(Len(list) - 1) THEN list[j + 1] ELSE w.list[j]])

AfterAppend(w, list, cap, m) ==
    IF Len(list) = cap THEN [w EXCEPT !.shared = FALSE]
    ELSE IF ~w.shared THEN w
    ELSE Shown(w, [j \in DOMAIN w.list |-> IF j = Len(list) + 1 THEN m ELSE w.list[j]])

CapAfter(list, cap) == IF Len(list) < cap THEN cap ELSE IF cap = 0 THEN 1 ELSE 2 * cap

Walking == walk.phase = "walk"

AtEnd == walk.pos > Len(walk.list)

Next1 == walk.list[walk.pos]

\* Fault: the dependencies that are not in the list at all do not count.
BlockedByListed(m) ==
    \E d \in Range(m.deps) :
        /\ d \notin walk.begun
        /\ \E i \in DOMAIN walk.list : walk.list[i].tag = d

Blocked(m) == \E d \in Range(m.deps) : d \notin walk.begun

\* The member is already started, or one of its dependencies is not.
Skip ==
    /\ Walking /\ ~AtEnd
    /\ Next1.tag \in walk.begun \/ Blocked(Next1)
    /\ walk' = [walk EXCEPT !.pos = @ + 1]

MayStart == Walking /\ ~AtEnd /\ Next1.tag \notin walk.begun /\ ~Blocked(Next1)

StartMember ==
    walk' = [walk EXCEPT !.begun = @ \cup {Next1.tag}, !.pos = @ + 1,
                         !.canContinue = TRUE]

\* The member's own Start returns an error, which ends the walk.
StartFails == walk' = End("failed")

Everyone == Cardinality(walk.begun) = Len(walk.list)

PassDone == Walking /\ AtEnd /\ Everyone /\ walk' = End("started")

ProgressReset == FALSE

NextPass ==
    /\ Walking /\ AtEnd /\ ~Everyone /\ walk.canContinue
    /\ walk' = [walk EXCEPT !.pos = 1, !.canContinue = ProgressReset]

Unstarted == {i \in DOMAIN walk.list : walk.list[i].tag \notin walk.begun}

\* Nothing was started in this pass: explain the first member that is left.
\* There is none if a member shows twice, and its Tag is called all the same.
Stuck ==
    /\ Walking /\ AtEnd /\ ~Everyone /\ ~walk.canContinue
    /\ IF Unstarted = {} THEN walk' = End("panicked")
       ELSE LET m == walk.list[CHOOSE i \in Unstarted : \A j \in Unstarted : i <= j]
            IN  walk' = [walk EXCEPT !.phase = "lint", !.tree = <<m.tag>>,
                                     !.current = m]

Pending(m) == SelectSeq(m.deps, LAMBDA d : d \notin walk.begun)

\* common.Find returns the zero value, the empty tag, when nothing is pending.
Problem == IF Pending(walk.current) = <<>> THEN "" ELSE Head(Pending(walk.current))

\* Fault: a chain of two counts as a circle.
LongTree == Len(walk.tree) > 1

InTree == Problem \in Range(walk.tree)

\* lintOutbound(oTree, oCurrent): member is what the manager knows under
\* the tag of the first dependency that is not started.
Lint(member) ==
    /\ walk.phase = "lint"
    /\ IF InTree THEN walk' = EndHere("circular")
       ELSE IF member = None THEN walk' = EndHere("missing")
       ELSE walk' = [walk EXCEPT !.tree = Append(@, Problem), !.current = member]
=============================================================================
