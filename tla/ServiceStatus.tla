---------------------------- MODULE ServiceStatus ----------------------------
(***************************************************************************)
(* The daemon's service (daemon/started_service.go): calls of Start-       *)
(* OrReloadService and CloseService, SetError from the platform, and       *)
(* clients that wait for the service to be started.  A section under       *)
(* serviceAccess is one step; the instance is started, and an old one      *)
(* closed, with the lock released.                                         *)
(*                                                                         *)
(* Status changes pass through an observer that hands them on in a         *)
(* goroutine of its own (external: github.com/sagernet/sing/observable).   *)
(* Its buffers, of 4 and 2 changes, are taken to be large enough.          *)
(***************************************************************************)
EXTENDS Naturals, Sequences, FiniteSets

CONSTANTS
    Starters,    \* calls of StartOrReloadService
    Closers,     \* calls of CloseService
    Waiters,     \* calls of waitForStarted
    MaxErrors,   \* calls of SetError
    None

VARIABLES
    status,      \* serviceStatus.Status
    instance,    \* the instance, named after the call that made it, or None
    box,         \* what became of each instance
    pc,          \* where each call is
    old,         \* the oldInstance of a starter
    errors,      \* calls of SetError so far
    channel,     \* status changes the observer has not handed on
    inbox,       \* the subscription of a waiter, None without one
    races        \* history: "error" when SetError came while a reload closed its
                 \* old instance, "late" when a start ended for another instance,
                 \* "missed" when the start was over before a waiter subscribed

vars == <<status, instance, box, pc, old, errors, channel, inbox, races>>

Calls == Starters \cup Closers \cup Waiters

Init ==
    /\ status = "idle" /\ instance = None
    /\ box = [i \in Starters |-> "none"]
    /\ pc = [c \in Calls |-> "call"]
    /\ old = [i \in Starters |-> None]
    /\ errors = 0 /\ channel = <<>> /\ races = {}
    /\ inbox = [w \in Waiters |-> None]

Goto(c, l) == pc' = [pc EXCEPT ![c] = l]

\* updateStatus and updateStatusError, for the last of the given changes.
Update(changes) ==
    /\ status' = changes[Len(changes)]
    /\ channel' = channel \o changes

-----------------------------------------------------------------------------
\* newInstance: what the second half of the first locked section does.
Create(i) ==
    \/ /\ Update(<<"starting", "fatal">>) /\ Goto(i, "returned")
       /\ UNCHANGED <<instance, box>>
    \/ /\ Update(<<"starting">>) /\ Goto(i, "starting")
       /\ instance' = i /\ box' = [box EXCEPT ![i] = "created"]

\* Fault: a reload is accepted while another one closes the old instance.
AnyStatus == TRUE

MayStart == status \in {"idle", "started", "starting", "fatal"}

\* StartOrReloadService up to the close of the old instance.
StartCall(i) ==
    /\ pc[i] = "call"
    /\ \/ ~MayStart /\ Goto(i, "returned") /\ UNCHANGED <<status, channel, instance, box, old>>
       \/ /\ MayStart /\ instance # None
          /\ old' = [old EXCEPT ![i] = instance] /\ Update(<<"stopping">>) /\ Goto(i, "closing")
          /\ UNCHANGED <<instance, box>>
       \/ /\ MayStart /\ instance = None
          /\ Create(i) /\ UNCHANGED old
    /\ UNCHANGED <<errors, inbox, races>>

\* oldInstance.Close()
CloseOld(i) ==
    /\ pc[i] = "closing" /\ Goto(i, "create")
    /\ box' = [box EXCEPT ![old[i]] = "closed"]
    /\ UNCHANGED <<status, channel, instance, old, errors, inbox, races>>

\* The lock is taken again, and nothing is asked again.
CreateNew(i) ==
    /\ pc[i] = "create" /\ Create(i)
    /\ old' = [old EXCEPT ![i] = None]
    /\ UNCHANGED <<errors, inbox, races>>

\* instance.Start(), which closes an instance it cannot start.  Nothing in it
\* asks whether the instance was closed before: then it is revived.
StartInstance(i) ==
    /\ pc[i] = "starting"
    /\ \/ /\ box' = [box EXCEPT ![i] = IF @ = "closed" THEN "revived" ELSE "running"]
          /\ Goto(i, "ok")
       \/ box' = [box EXCEPT ![i] = "closed"] /\ Goto(i, "failed")
    /\ UNCHANGED <<status, channel, instance, old, errors, inbox, races>>

\* Fault: the outcome of the start is not compared with the status.
StillWanted == TRUE

StillStarting == status = "starting"

StartEnds(i) ==
    /\ pc[i] \in {"ok", "failed"} /\ Goto(i, "returned")
    /\ IF StillStarting THEN Update(<<IF pc[i] = "ok" THEN "started" ELSE "fatal">>)
       ELSE UNCHANGED <<status, channel>>
    /\ races' = races \cup (IF StillStarting /\ i # instance THEN {"late"} ELSE {})
    /\ UNCHANGED <<instance, box, old, errors, inbox>>

\* CloseService, all of it under the lock.
CloseService(c) ==
    /\ pc[c] = "call"
    /\ \/ /\ status \notin {"starting", "started"} /\ Goto(c, "refused")
          /\ UNCHANGED <<status, channel, instance, box>>
       \/ /\ status \in {"starting", "started"}
          /\ instance' = None
          /\ IF instance = None THEN UNCHANGED box
             ELSE box' = [box EXCEPT ![instance] = "closed"]
          /\ \/ Update(<<"stopping", "idle">>) /\ Goto(c, "returned")
             \/ instance # None /\ Update(<<"stopping", "fatal">>) /\ Goto(c, "failed")
    /\ UNCHANGED <<old, errors, inbox, races>>

SetError ==
    /\ errors < MaxErrors /\ errors' = errors + 1
    /\ races' = races \cup (IF status = "stopping" THEN {"error"} ELSE {})
    /\ Update(<<"fatal">>)
    /\ UNCHANGED <<instance, box, pc, old, inbox>>

-----------------------------------------------------------------------------
\* waitForStarted reads the status under the lock
WaitCall(w) ==
    /\ pc[w] = "call"
    /\ Goto(w, CASE status = "started" -> "started" [] status = "starting" -> "subscribe"
                 [] OTHER -> "returned")
    /\ UNCHANGED <<status, instance, box, old, errors, channel, inbox, races>>

\* and subscribes after it has let go of it.
Subscribe(w) ==
    /\ pc[w] = "subscribe" /\ Goto(w, "wait")
    /\ inbox' = [inbox EXCEPT ![w] = <<>>]
    /\ races' = races \cup (IF status = "starting" THEN {} ELSE {"missed"})
    /\ UNCHANGED <<status, instance, box, old, errors, channel>>

\* The goroutine of the observer
Dispatch ==
    /\ channel # <<>> /\ channel' = Tail(channel)
    /\ inbox' = [w \in Waiters |-> IF inbox[w] = None THEN None
                                   ELSE Append(inbox[w], Head(channel))]
    /\ UNCHANGED <<status, instance, box, pc, old, errors, races>>

Receive(w) ==
    /\ pc[w] = "wait" /\ inbox[w] # <<>>
    /\ CASE Head(inbox[w]) = "started" -> Goto(w, "started")
         [] Head(inbox[w]) = "starting" -> UNCHANGED pc
         [] OTHER -> Goto(w, "returned")
    /\ inbox' = [inbox EXCEPT ![w] = IF Head(inbox[w]) = "starting" THEN Tail(@) ELSE None]
    /\ UNCHANGED <<status, instance, box, old, errors, channel, races>>

Next ==
    \/ \E i \in Starters :
          StartCall(i) \/ CloseOld(i) \/ CreateNew(i) \/ StartInstance(i) \/ StartEnds(i)
    \/ \E c \in Closers : CloseService(c)
    \/ SetError
    \/ \E w \in Waiters : WaitCall(w) \/ Subscribe(w) \/ Receive(w)
    \/ Dispatch

Spec == Init /\ [][Next]_vars

-----------------------------------------------------------------------------
\* STARTED is said only of a current instance that runs, unless a start that
\* ended for another instance said it (started_service.go:212) or two reloads
\* were let in by SetError; and a client that subscribed while the service was
\* starting is not left waiting once it is not (waitForStarted).
StatusHonest ==
    /\ status = "started" /\ races \cap {"error", "late"} = {}
          => instance # None /\ box[instance] = "running"
    /\ "missed" \notin races /\ channel = <<>> =>
          \A w \in Waiters : pc[w] = "wait" /\ inbox[w] = <<>> => status = "starting"

\* None is forgotten while it runs: an instance other than the current one,
\* which the next reload or CloseService closes, is closed (StartOrReloadService).
\* There are two ways to lose one.  SetError lets a second reload in while the
\* first one closes the same old instance; and a reload or CloseService that
\* comes while an instance is starting closes it first, its start going on to
\* run it for good.
NoInstanceLost ==
    \A i \in Starters : i # instance /\ box[i] \notin {"none", "closed"} =>
        "error" \in races \/ box[i] = "revived"
=============================================================================
