----------------------------- MODULE CoreProofs -----------------------------
(***************************************************************************)
(* Proofs about the daemon's service, for any number of calls, a           *)
(* downloaded rule-set, for any contents of the server and any number of   *)
(* fetches, restarts and changes, the selector, for any members and any    *)
(* number of dials, and the DNS mode, for any rule-sets and any updates.   *)
(***************************************************************************)
EXTENDS MCCore, SequenceTheorems, TLAPS

Statuses == {"idle", "starting", "started", "stopping", "fatal"}

Places == {"call", "closing", "create", "starting", "ok", "failed", "returned", "refused",
           "subscribe", "wait", "started"}

Typed ==
    /\ status \in Statuses
    /\ instance \in Starters \cup {None}
    /\ box \in [Starters -> {"none", "created", "running", "revived", "closed"}]
    /\ pc \in [Calls -> Places]
    /\ old \in [Starters -> Starters \cup {None}]
    /\ channel \in Seq(Statuses)
    /\ inbox \in [Waiters -> Seq(Statuses) \cup {None}]
    /\ \A i \in Starters : pc[i] \in {"call", "closing", "create"} => box[i] = "none"
    /\ \A i \in Starters : pc[i] = "starting" => box[i] \in {"created", "closed"}
    /\ instance # None => box[instance] # "none"
    /\ \A i \in Starters : old[i] # None => box[old[i]] # "none"

\* A reload that closes the old instance is alone: the status keeps everybody
\* else out, and the instance is still the one it closes.
Alone ==
    \A i \in Starters : pc[i] \in {"closing", "create"} =>
        /\ status = "stopping" /\ instance # None /\ old[i] = instance
        /\ pc[i] = "create" => box[instance] \notin {"created", "running"}
        /\ \A j \in Starters : pc[j] \in {"closing", "create"} => j = i

\* While the service is starting, the current instance is the one that starts.
Starting ==
    status = "starting" =>
        /\ instance # None
        /\ pc[instance] = "starting" => box[instance] = "created"
        /\ pc[instance] = "ok" => box[instance] = "running"

Running ==
    status = "started" /\ "late" \notin races =>
        instance # None /\ box[instance] = "running" /\ pc[instance] = "returned"

\* The last change handed to the observer is the status, and a waiter that has
\* nothing to read has read it.
Told ==
    /\ channel # <<>> => channel[Len(channel)] = status
    /\ "missed" \notin races /\ channel = <<>> =>
          \A w \in Waiters : pc[w] = "wait" =>
             IF inbox[w] = <<>> THEN status = "starting"
             ELSE inbox[w][Len(inbox[w])] = status

Waiting == \A w \in Waiters : pc[w] = "wait" => inbox[w] \in Seq(Statuses)

Inv ==
    /\ Typed /\ Waiting /\ Told
    /\ "error" \notin races => NoInstanceLost /\ Alone /\ Starting /\ Running

\* What the constants are: three kinds of calls, and None is none of them and
\* no subscription.
Distinct ==
    /\ None \notin Starters /\ None \notin Seq(Statuses)
    /\ Starters \cap Closers = {} /\ Starters \cap Waiters = {} /\ Closers \cap Waiters = {}

-----------------------------------------------------------------------------
\* A sequence with an empty tail has one element.
LEMMA EmptyTail == ASSUME NEW s \in Seq(Statuses), s # <<>>, Tail(s) = <<>> PROVE Len(s) = 1
<1>1. Len(Tail(s)) = Len(s) - 1 /\ Len(s) \in Nat
  BY HeadTailProperties, LenProperties
<1>2. Len(Tail(s)) = 0
  BY EmptySeq, ZenonT(30)
<1> QED
  BY <1>1, <1>2

\* After a change of the status the channel holds it, last.
LEMMA UpdateTells ==
  ASSUME channel \in Seq(Statuses)
  PROVE  /\ \A s \in Statuses : Update(<<s>>) =>
               /\ status' = s /\ channel' \in Seq(Statuses)
               /\ channel' # <<>> /\ channel'[Len(channel')] = s
         /\ \A r, s \in Statuses : Update(<<r, s>>) =>
               /\ status' = s /\ channel' \in Seq(Statuses)
               /\ channel' # <<>> /\ channel'[Len(channel')] = s
  BY DEF Update

\* A waiter then has something to read, or will have.
LEMMA ToldAgain ==
  ASSUME Waiting, UNCHANGED inbox, channel' # <<>>, channel'[Len(channel')] = status',
         \A w \in Waiters : pc'[w] = "wait" => pc[w] = "wait"
  PROVE  Told' /\ Waiting'
  BY DEF Waiting, Told

LEMMA Initial == ASSUME Distinct PROVE Init => Inv
<1> SUFFICES ASSUME Init PROVE Inv
  OBVIOUS
<1>1. Typed
  BY DEF Init, Typed, Statuses, Calls, Places, Distinct
<1>2. Waiting /\ Told
  BY DEF Init, Waiting, Told, Calls
<1>3. NoInstanceLost /\ Alone
  BY DEF Init, NoInstanceLost, Alone, Calls
<1>4. Starting /\ Running
  BY DEF Init, Starting, Running
<1> QED
  BY Zenon, <1>1, <1>2, <1>3, <1>4 DEF Inv

\* The creation of an instance, when nobody else is between two instances and
\* the current one, if any, is closed.
LEMMA CreateKeeps ==
  ASSUME Inv, Distinct, NEW i \in Starters, Create(i), pc[i] \in {"call", "create"},
         UNCHANGED <<inbox, races>>,
         old' = old \/ old' = [old EXCEPT ![i] = None],
         "error" \notin races =>
            /\ \A j \in Starters : pc[j] \in {"closing", "create"} => j = i
            /\ \A j \in Starters : box[j] \notin {"created", "running"}
  PROVE  Inv'
<1>1. pc' \in [Calls -> Places] /\ pc'[i] \in {"returned", "starting"}
      /\ \A c \in Calls \ {i} : pc'[c] = pc[c]
  BY DEF Inv, Typed, Create, Goto, Calls, Places
<1>0. /\ old' \in [Starters -> Starters \cup {None}]
      /\ \A j \in Starters : old'[j] # None => old'[j] = old[j]
  BY DEF Inv, Typed
<1>2. Waiting' /\ Told'
  <2>1. \A w \in Waiters : pc'[w] = "wait" => pc[w] = "wait"
    BY <1>1 DEF Distinct, Calls
  <2>2. channel' # <<>> /\ channel'[Len(channel')] = status'
    <3>1. channel \in Seq(Statuses) /\ {"starting", "fatal"} \subseteq Statuses
      BY DEF Inv, Typed, Statuses
    <3> QED
      BY Zenon, <3>1, UpdateTells DEF Create
  <2> QED
    BY Zenon, <2>1, <2>2, ToldAgain DEF Inv
<1>3. CASE /\ Update(<<"starting", "fatal">>) /\ Goto(i, "returned")
           /\ UNCHANGED <<instance, box>>
  <2>1. status' = "fatal" /\ channel' \in Seq(Statuses) /\ pc'[i] = "returned"
    BY <1>1, <1>3 DEF Update, Goto, Inv, Typed, Statuses, Calls
  <2>2. Typed'
    BY <1>0, <1>1, <1>3, <2>1 DEF Inv, Typed, Statuses, Calls
  <2>3. "error" \notin races => NoInstanceLost' /\ Alone' /\ Starting' /\ Running'
    BY <1>1, <1>3, <2>1 DEF Inv, NoInstanceLost, Alone, Starting, Running, Calls
  <2> QED
    BY Zenon, <1>2, <2>2, <2>3 DEF Inv
<1>4. CASE /\ Update(<<"starting">>) /\ Goto(i, "starting")
           /\ instance' = i /\ box' = [box EXCEPT ![i] = "created"]
  <2>1. status' = "starting" /\ channel' \in Seq(Statuses) /\ pc'[i] = "starting"
    BY <1>1, <1>4 DEF Update, Goto, Inv, Typed, Statuses, Calls
  <2>2. Typed'
    BY <1>0, <1>1, <1>4, <2>1 DEF Inv, Typed, Statuses, Calls
  <2>3. "error" \notin races => NoInstanceLost' /\ Alone' /\ Starting' /\ Running'
    BY <1>1, <1>4, <2>1 DEF Inv, Typed, NoInstanceLost, Alone, Starting, Running, Calls, Distinct
  <2> QED
    BY Zenon, <1>2, <2>2, <2>3 DEF Inv
<1> QED
  BY Zenon, <1>3, <1>4 DEF Create

\* Where a call goes, and that only it goes there.
LEMMA GotoMoves ==
  ASSUME pc \in [Calls -> Places], NEW c \in Calls, NEW l \in Places, Goto(c, l)
  PROVE  pc' \in [Calls -> Places] /\ pc'[c] = l /\ \A d \in Calls \ {c} : pc'[d] = pc[d]
  BY DEF Goto

LEMMA StartCallKeeps ==
  ASSUME Inv, Distinct, NEW i \in Starters, StartCall(i)
  PROVE  Inv'
<1>0. i \in Calls /\ pc[i] = "call" /\ pc \in [Calls -> Places] /\ UNCHANGED <<errors, inbox, races>>
  BY DEF StartCall, Inv, Typed, Calls
<1>1. CASE Goto(i, "returned") /\ UNCHANGED <<status, channel, instance, box, old>>
  <2>1. pc' \in [Calls -> Places] /\ pc'[i] = "returned" /\ \A d \in Calls \ {i} : pc'[d] = pc[d]
    BY <1>0, <1>1, GotoMoves DEF Places
  <2>2. Typed' /\ Waiting' /\ Told'
    BY <1>0, <1>1, <2>1 DEF Inv, Typed, Waiting, Told, Calls, Distinct
  <2>3. "error" \notin races => NoInstanceLost' /\ Alone' /\ Starting' /\ Running'
    BY <1>0, <1>1, <2>1 DEF Inv, Typed, NoInstanceLost, Alone, Starting, Running, Calls
  <2> QED
    BY Zenon, <1>0, <2>2, <2>3 DEF Inv
<1>2. CASE /\ MayStart /\ instance # None
           /\ old' = [old EXCEPT ![i] = instance] /\ Update(<<"stopping">>) /\ Goto(i, "closing")
           /\ UNCHANGED <<instance, box>>
  <2>1. pc' \in [Calls -> Places] /\ pc'[i] = "closing" /\ \A d \in Calls \ {i} : pc'[d] = pc[d]
    BY <1>0, <1>2, GotoMoves DEF Places
  <2>2. /\ status' = "stopping" /\ channel' \in Seq(Statuses)
        /\ channel' # <<>> /\ channel'[Len(channel')] = status'
    BY <1>2, UpdateTells DEF Inv, Typed, Statuses
  <2>3. Typed'
    BY ZenonT(30), <1>0, <1>2, <2>1, <2>2 DEF Inv, Typed, Calls, Statuses
  <2>4. Waiting' /\ Told'
    BY <1>0, <2>1, <2>2, ToldAgain DEF Inv, Calls, Distinct
  <2>5. "error" \notin races => NoInstanceLost' /\ Alone' /\ Starting' /\ Running'
    BY <1>0, <1>2, <2>1, <2>2
       DEF Inv, Typed, NoInstanceLost, Alone, Starting, Running, Calls, MayStart
  <2> QED
    BY Zenon, <1>0, <2>3, <2>4, <2>5 DEF Inv
<1>3. CASE MayStart /\ instance = None /\ Create(i) /\ UNCHANGED old
  <2>1. "error" \notin races =>
            /\ \A j \in Starters : pc[j] \in {"closing", "create"} => j = i
            /\ \A j \in Starters : box[j] \notin {"created", "running"}
    BY <1>3 DEF Inv, Alone, NoInstanceLost, Distinct
  <2> QED
    BY Zenon, <1>0, <1>3, <2>1, CreateKeeps DEF Inv, Typed
<1> QED
  BY Zenon, <1>1, <1>2, <1>3 DEF StartCall

LEMMA CloseOldKeeps ==
  ASSUME Inv, Distinct, NEW i \in Starters, CloseOld(i)
  PROVE  Inv'
<1>0. /\ i \in Calls /\ pc[i] = "closing" /\ pc \in [Calls -> Places] /\ Goto(i, "create")
      /\ box' = [box EXCEPT ![old[i]] = "closed"]
      /\ UNCHANGED <<status, channel, instance, old, errors, inbox, races>>
  BY DEF CloseOld, Inv, Typed, Calls
<1>1. pc' \in [Calls -> Places] /\ pc'[i] = "create" /\ \A d \in Calls \ {i} : pc'[d] = pc[d]
  BY <1>0, GotoMoves DEF Places
<1>5. /\ box' \in [Starters -> {"none", "created", "running", "revived", "closed"}]
      /\ \A j \in Starters : box'[j] = IF j = old[i] THEN "closed" ELSE box[j]
  BY ZenonT(30), <1>0 DEF Inv, Typed
<1>2. Waiting' /\ Told'
  BY <1>0, <1>1 DEF Inv, Waiting, Told, Calls, Distinct
<1>3. Typed'
  BY <1>0, <1>1, <1>5 DEF Inv, Typed, Calls, Places, Distinct
<1>4. "error" \notin races => NoInstanceLost' /\ Alone' /\ Starting' /\ Running'
  BY <1>0, <1>1 DEF Inv, Typed, NoInstanceLost, Alone, Starting, Running, Calls
<1> QED
  BY Zenon, <1>0, <1>2, <1>3, <1>4 DEF Inv

LEMMA CreateNewKeeps ==
  ASSUME Inv, Distinct, NEW i \in Starters, CreateNew(i)
  PROVE  Inv'
<1>1. "error" \notin races =>
          /\ \A j \in Starters : pc[j] \in {"closing", "create"} => j = i
          /\ \A j \in Starters : box[j] \notin {"created", "running"}
  BY DEF CreateNew, Inv, Alone, NoInstanceLost
<1> QED
  BY ZenonT(30), <1>1, CreateKeeps DEF CreateNew

LEMMA StartInstanceKeeps ==
  ASSUME Inv, Distinct, NEW i \in Starters, StartInstance(i)
  PROVE  Inv'
<1>0. /\ i \in Calls /\ pc[i] = "starting" /\ pc \in [Calls -> Places]
      /\ UNCHANGED <<status, channel, instance, old, errors, inbox, races>>
  BY DEF StartInstance, Inv, Typed, Calls
<1>1. /\ pc' \in [Calls -> Places] /\ pc'[i] \in {"ok", "failed"}
      /\ \A d \in Calls \ {i} : pc'[d] = pc[d]
  BY <1>0, GotoMoves DEF Places, StartInstance
<1>2. /\ box' \in [Starters -> {"none", "created", "running", "revived", "closed"}]
      /\ \A j \in Starters \ {i} : box'[j] = box[j]
      /\ box'[i] \in {"running", "revived", "closed"}
      /\ box'[i] = "running" => box[i] = "created"
      /\ pc'[i] = "ok" /\ box[i] = "created" => box'[i] = "running"
  BY <1>0, GotoMoves DEF StartInstance, Inv, Typed, Places
<1>3. Waiting' /\ Told'
  BY <1>0, <1>1 DEF Inv, Waiting, Told, Calls, Distinct
<1>4. Typed'
  BY <1>0, <1>1, <1>2 DEF Inv, Typed, Calls
<1>5. "error" \notin races => NoInstanceLost' /\ Alone' /\ Starting' /\ Running'
  BY <1>0, <1>1, <1>2 DEF Inv, Typed, NoInstanceLost, Alone, Starting, Running, Calls
<1> QED
  BY Zenon, <1>0, <1>3, <1>4, <1>5 DEF Inv

LEMMA StartEndsKeeps ==
  ASSUME Inv, Distinct, NEW i \in Starters, StartEnds(i)
  PROVE  Inv'
<1>0. /\ i \in Calls /\ pc[i] \in {"ok", "failed"} /\ pc \in [Calls -> Places]
      /\ Goto(i, "returned")
      /\ UNCHANGED <<instance, box, old, errors, inbox>>
      /\ races \subseteq races' /\ ("error" \in races' => "error" \in races)
  BY DEF StartEnds, Inv, Typed, Calls
<1>1. pc' \in [Calls -> Places] /\ pc'[i] = "returned" /\ \A d \in Calls \ {i} : pc'[d] = pc[d]
  BY <1>0, GotoMoves DEF Places
<1>2. CASE ~StillStarting
  <2>1. UNCHANGED <<status, channel, races>>
    BY <1>2 DEF StartEnds
  <2>2. Typed' /\ Waiting' /\ Told'
    BY <1>0, <1>1, <2>1 DEF Inv, Typed, Waiting, Told, Calls, Distinct
  <2>3. "error" \notin races => NoInstanceLost' /\ Alone' /\ Starting' /\ Running'
    BY <1>0, <1>1, <1>2, <2>1
       DEF Inv, Typed, NoInstanceLost, Alone, Starting, Running, Calls, StillStarting
  <2> QED
    BY Zenon, <2>1, <2>2, <2>3 DEF Inv
<1>3. CASE StillStarting
  <2>1. /\ status' = (IF pc[i] = "ok" THEN "started" ELSE "fatal") /\ channel' \in Seq(Statuses)
        /\ channel' # <<>> /\ channel'[Len(channel')] = status'
    <3>1. Update(<<IF pc[i] = "ok" THEN "started" ELSE "fatal">>)
      BY <1>3 DEF StartEnds
    <3> QED
      BY ZenonT(30), <3>1, UpdateTells DEF Inv, Typed, Statuses
  <2>2. Typed'
    BY <1>0, <1>1, <2>1 DEF Inv, Typed, Calls, Statuses
  <2>3. Waiting' /\ Told'
    BY <1>0, <1>1, <2>1, ToldAgain DEF Inv, Calls, Distinct
  <2>4. "late" \notin races' => i = instance
    BY <1>3 DEF StartEnds
  <2>5. "error" \notin races => NoInstanceLost' /\ Alone' /\ Starting' /\ Running'
    BY <1>0, <1>1, <1>3, <2>1, <2>4
       DEF Inv, Typed, NoInstanceLost, Alone, Starting, Running, Calls, StillStarting
  <2> QED
    BY Zenon, <1>0, <2>2, <2>3, <2>5 DEF Inv
<1> QED
  BY Zenon, <1>2, <1>3

LEMMA CloseServiceKeeps ==
  ASSUME Inv, Distinct, NEW c \in Closers, CloseService(c)
  PROVE  Inv'
<1>0. /\ c \in Calls /\ c \notin Starters /\ c \notin Waiters /\ pc[c] = "call"
      /\ pc \in [Calls -> Places] /\ UNCHANGED <<old, errors, inbox, races>>
  BY DEF CloseService, Inv, Typed, Calls, Distinct
<1>1. pc' \in [Calls -> Places] /\ \A d \in Calls \ {c} : pc'[d] = pc[d]
  BY <1>0, GotoMoves DEF Places, CloseService
<1>2. CASE UNCHANGED <<status, channel, instance, box>>
  <2>1. Typed' /\ Waiting' /\ Told'
    BY <1>0, <1>1, <1>2 DEF Inv, Typed, Waiting, Told, Calls
  <2>2. "error" \notin races => NoInstanceLost' /\ Alone' /\ Starting' /\ Running'
    BY <1>0, <1>1, <1>2 DEF Inv, Typed, NoInstanceLost, Alone, Starting, Running, Calls
  <2> QED
    BY Zenon, <1>0, <2>1, <2>2 DEF Inv
<1>3. CASE /\ status \in {"starting", "started"} /\ instance' = None
           /\ IF instance = None THEN UNCHANGED box
              ELSE box' = [box EXCEPT ![instance] = "closed"]
           /\ Update(<<"stopping", "idle">>) \/ Update(<<"stopping", "fatal">>)
  <2>1. /\ status' \in {"idle", "fatal"} /\ channel' \in Seq(Statuses)
        /\ channel' # <<>> /\ channel'[Len(channel')] = status'
    BY <1>3, UpdateTells DEF Inv, Typed, Statuses
  <2>2. /\ box' \in [Starters -> {"none", "created", "running", "revived", "closed"}]
        /\ \A j \in Starters : box'[j] = IF j = instance THEN "closed" ELSE box[j]
    BY <1>3 DEF Inv, Typed, Distinct
  <2>3. Typed'
    BY <1>0, <1>1, <1>3, <2>1, <2>2 DEF Inv, Typed, Calls, Statuses, Distinct
  <2>4. Waiting' /\ Told'
    BY <1>0, <1>1, <2>1, ToldAgain DEF Inv, Calls
  <2>5. "error" \notin races => NoInstanceLost' /\ Alone' /\ Starting' /\ Running'
    BY <1>0, <1>1, <1>3, <2>1, <2>2
       DEF Inv, Typed, NoInstanceLost, Alone, Starting, Running, Calls
  <2> QED
    BY Zenon, <1>0, <2>3, <2>4, <2>5 DEF Inv
<1> QED
  BY Zenon, <1>2, <1>3 DEF CloseService

LEMMA SetErrorKeeps ==
  ASSUME Inv, Distinct, SetError
  PROVE  Inv'
<1>0. UNCHANGED <<instance, box, pc, old, inbox>> /\ races \subseteq races'
      /\ ("error" \notin races' => "error" \notin races /\ status # "stopping")
  BY DEF SetError
<1>1. /\ status' = "fatal" /\ channel' \in Seq(Statuses)
      /\ channel' # <<>> /\ channel'[Len(channel')] = status'
  BY UpdateTells DEF SetError, Inv, Typed, Statuses
<1>2. Typed'
  BY <1>0, <1>1 DEF Inv, Typed, Statuses
<1>3. Waiting' /\ Told'
  BY <1>0, <1>1, ToldAgain DEF Inv
<1>4. "error" \notin races' => NoInstanceLost' /\ Alone' /\ Starting' /\ Running'
  BY <1>0, <1>1 DEF Inv, NoInstanceLost, Alone, Starting, Running
<1> QED
  BY Zenon, <1>2, <1>3, <1>4 DEF Inv

LEMMA WaiterKeeps ==
  ASSUME Inv, Distinct, NEW w \in Waiters, WaitCall(w) \/ Subscribe(w) \/ Receive(w)
  PROVE  Inv'
<1>0. /\ w \in Calls /\ w \notin Starters /\ pc \in [Calls -> Places]
      /\ UNCHANGED <<status, instance, box, old, errors, channel>>
      /\ races \subseteq races' /\ ("error" \in races' => "error" \in races)
      /\ ("late" \in races' => "late" \in races)
  BY DEF WaitCall, Subscribe, Receive, Inv, Typed, Calls, Distinct
<1>1. pc' \in [Calls -> Places] /\ \A d \in Calls \ {w} : pc'[d] = pc[d]
  <2>1. CASE WaitCall(w)
    BY <1>0, <2>1, GotoMoves DEF Places, WaitCall
  <2>2. CASE Subscribe(w)
    BY <1>0, <2>2, GotoMoves DEF Places, Subscribe
  <2>3. CASE Receive(w)
    BY <1>0, <2>3, GotoMoves DEF Places, Receive
  <2> QED
    BY Zenon, <2>1, <2>2, <2>3
<1>2. "error" \notin races' => NoInstanceLost' /\ Alone' /\ Starting' /\ Running'
  BY <1>0, <1>1 DEF Inv, Typed, NoInstanceLost, Alone, Starting, Running, Calls
<1>3. /\ inbox' \in [Waiters -> Seq(Statuses) \cup {None}]
      /\ \A v \in Waiters \ {w} : inbox'[v] = inbox[v]
      /\ pc'[w] = "wait" => inbox'[w] \in Seq(Statuses)
      /\ pc'[w] = "wait" /\ "missed" \notin races' /\ channel = <<>> =>
            IF inbox'[w] = <<>> THEN status = "starting"
            ELSE inbox'[w][Len(inbox'[w])] = status
  <2>1. CASE WaitCall(w)
    BY <1>0, <2>1, GotoMoves DEF WaitCall, Inv, Typed, Places, Statuses
  <2>2. CASE Subscribe(w)
    BY <1>0, <2>2 DEF Subscribe, Inv, Typed, Goto
  <2>3. CASE Receive(w)
    <3>1. /\ pc[w] = "wait" /\ inbox[w] \in Seq(Statuses) /\ inbox[w] # <<>> /\ races' = races
          /\ inbox \in [Waiters -> Seq(Statuses) \cup {None}]
          /\ inbox' = [inbox EXCEPT ![w] = IF Head(inbox[w]) = "starting" THEN Tail(@) ELSE None]
      BY <2>3 DEF Receive, Inv, Typed, Waiting
    <3>2. "missed" \notin races /\ channel = <<>> => inbox[w][Len(inbox[w])] = status
      BY <3>1 DEF Inv, Told
    <3>3. CASE Head(inbox[w]) = "starting"
      <4>1. inbox'[w] = Tail(inbox[w]) /\ Tail(inbox[w]) \in Seq(Statuses)
        BY <3>1, <3>3
      <4>2. Tail(inbox[w]) = <<>> => Len(inbox[w]) = 1
        BY <3>1, EmptyTail
      <4>3. Tail(inbox[w]) # <<>> =>
               Tail(inbox[w])[Len(Tail(inbox[w]))] = inbox[w][Len(inbox[w])]
        BY <3>1
      <4> QED
        BY <3>1, <3>2, <3>3, <4>1, <4>2, <4>3
    <3>4. CASE Head(inbox[w]) # "starting"
      <4>1. pc'[w] # "wait"
        BY <1>0, <2>3, <3>4, GotoMoves DEF Receive, Places
      <4> QED
        BY Zenon, <3>1, <3>4, <4>1
    <3> QED
      BY Zenon, <3>3, <3>4
  <2> QED
    BY Zenon, <2>1, <2>2, <2>3
<1>4. Typed'
  BY <1>0, <1>1, <1>3 DEF Inv, Typed, Calls
<1>5. Waiting' /\ Told'
  BY <1>0, <1>1, <1>3 DEF Inv, Waiting, Told, Calls
<1> QED
  BY Zenon, <1>2, <1>4, <1>5 DEF Inv

LEMMA DispatchKeeps ==
  ASSUME Inv, Distinct, Dispatch
  PROVE  Inv'
<1>0. /\ channel \in Seq(Statuses) /\ channel # <<>>
      /\ channel' = Tail(channel) /\ channel' \in Seq(Statuses) /\ Head(channel) \in Statuses
      /\ UNCHANGED <<status, instance, box, pc, old, errors, races>>
      /\ inbox' = [w \in Waiters |-> IF inbox[w] = None THEN None
                                     ELSE Append(inbox[w], Head(channel))]
  BY DEF Dispatch, Inv, Typed
<1>1. inbox' \in [Waiters -> Seq(Statuses) \cup {None}]
  BY <1>0 DEF Inv, Typed
<1>2. Typed'
  BY <1>0, <1>1 DEF Inv, Typed
<1>3. \A w \in Waiters : pc[w] = "wait" =>
         /\ inbox'[w] \in Seq(Statuses) /\ inbox'[w] # <<>>
         /\ inbox'[w][Len(inbox'[w])] = Head(channel)
  <2> SUFFICES ASSUME NEW w \in Waiters, pc[w] = "wait"
               PROVE  /\ inbox'[w] \in Seq(Statuses) /\ inbox'[w] # <<>>
                      /\ inbox'[w][Len(inbox'[w])] = Head(channel)
    OBVIOUS
  <2>1. inbox[w] \in Seq(Statuses) /\ inbox[w] # None
    BY DEF Inv, Waiting, Distinct
  <2>2. inbox'[w] = Append(inbox[w], Head(channel))
    BY <1>0, <2>1
  <2> QED
    BY <1>0, <2>1, <2>2
<1>4. channel' = <<>> => Head(channel) = status
  <2>1. channel[Len(channel)] = status
    BY <1>0 DEF Inv, Told
  <2>2. channel' = <<>> => Len(channel) = 1
    BY <1>0, EmptyTail
  <2> QED
    BY <1>0, <2>1, <2>2
<1>5. channel' # <<>> => channel'[Len(channel')] = status'
  BY <1>0 DEF Inv, Told
<1>6. Waiting' /\ Told'
  BY <1>0, <1>3, <1>4, <1>5 DEF Waiting, Told
<1>7. "error" \notin races' => NoInstanceLost' /\ Alone' /\ Starting' /\ Running'
  BY <1>0 DEF Inv, NoInstanceLost, Alone, Starting, Running
<1> QED
  BY Zenon, <1>2, <1>6, <1>7 DEF Inv

\* Every call keeps the invariant.
LEMMA Inductive == ASSUME Distinct, Inv, [Next]_vars PROVE Inv'
<1>1. CASE UNCHANGED vars
  <2>1. Typed' /\ Waiting' /\ Told'
    BY <1>1 DEF Inv, vars, Typed, Waiting, Told
  <2>2. "error" \notin races' => NoInstanceLost' /\ Alone' /\ Starting' /\ Running'
    BY <1>1 DEF Inv, vars, NoInstanceLost, Alone, Starting, Running
  <2> QED
    BY Zenon, <2>1, <2>2 DEF Inv
<1> QED
  BY Zenon, <1>1, StartCallKeeps, CloseOldKeeps, CreateNewKeeps, StartInstanceKeeps, StartEndsKeeps,
     CloseServiceKeeps, SetErrorKeeps, WaiterKeeps, DispatchKeeps DEF Next

-----------------------------------------------------------------------------
\* No instance is forgotten while it runs, for any number of concurrent calls of
\* StartOrReloadService and CloseService, except after a SetError during a
\* reload or a close while it was starting (NoInstanceLost).
THEOREM NoInstanceLostHolds == ASSUME Distinct PROVE Spec => []NoInstanceLost
<1>1. Init => Inv
  BY Initial
<1>2. Inv /\ [Next]_vars => Inv'
  BY Inductive
<1>3. Inv => NoInstanceLost
  BY DEF Inv, NoInstanceLost
<1> QED
  BY <1>1, <1>2, <1>3, PTL DEF Spec

\* STARTED is said of a running instance, and a client that subscribed in time
\* is told (StatusHonest of updateStatus and waitForStarted).
THEOREM StatusHonestHolds == ASSUME Distinct PROVE Spec => []StatusHonest
<1>1. Init => Inv
  BY Initial
<1>2. Inv /\ [Next]_vars => Inv'
  BY Inductive
<1>3. Inv => StatusHonest
  BY DEF Inv, Told, Running, StatusHonest
<1> QED
  BY <1>1, <1>2, <1>3, PTL DEF Spec

-----------------------------------------------------------------------------
Values == Contents \cup {None}
Entries == [content : Values, etag : Values, at : Nat]
Responses == [step : {"304", "200", "save"}, content : Values, tagged : BOOLEAN]

\* None is no content, no entry and no response.
RuleDistinct == None \notin Contents \cup Entries \cup Responses

\* An entry is what the server had at the fetch its time names.
Confirmed(s) ==
    /\ s.at <= Len(confirmed)
    /\ s.at > 0 => s.content = confirmed[s.at]
    /\ s.etag # None => s.etag = s.content

RuleTyped ==
    /\ server \in [content : Contents, tagged : BOOLEAN]
    /\ up \in {"down", "starting", "up", "closed"} /\ refs \in BOOLEAN
    /\ mem \in Entries /\ disk \in Entries \cup {None}
    /\ fetch \in Responses \cup {None}
    /\ confirmed \in Seq(Contents)
    /\ fetch # None => up # "down"

\* Without a failed save or a lost ETag: what a response says is what the server
\* answered to the last request, and the cache file holds what is loaded, but
\* for a process that is down and a download that is not saved yet.
Agree ==
    /\ Confirmed(mem)
    /\ disk # None => Confirmed(disk)
    /\ up \in {"down", "starting"} /\ (fetch = None \/ fetch.step # "save") => mem = RS!Nothing
    /\ up = "starting" => disk = None
    /\ up \in {"up", "closed"} /\ disk # None /\ (fetch = None \/ fetch.step # "save") => disk = mem
    /\ fetch # None =>
         /\ Len(confirmed) > 0
         /\ fetch.step = "304" => mem.content = confirmed[RS!Now]
         /\ fetch.step = "200" => fetch.content = confirmed[RS!Now]
         /\ fetch.step = "save" => mem.content = confirmed[RS!Now]

\* The rules are those of what is loaded.
Rules ==
    /\ up = "up" /\ refs => loaded = mem.content
    /\ up = "starting" /\ fetch # None /\ fetch.step = "save" => loaded = mem.content
    /\ up = "closed" /\ "closed" \notin fetchRaces => loaded = None

Raced == fetchRaces \cap {"save", "untagged"} # {}

RuleInv == RuleTyped /\ Rules /\ (~Raced => Agree)

LEMMA RuleInductive == ASSUME RuleDistinct, RuleInv, [RS!Next]_(RS!vars) PROVE RuleInv'
<1> USE DEF RuleDistinct
<1> USE DEF RuleInv
<1>1. CASE RS!ServerChanges
  BY <1>1 DEF RS!ServerChanges, RuleTyped, Rules, Agree, Confirmed, Raced, RS!Now
<1>2. CASE RS!StartContext
  BY <1>2 DEF RS!StartContext, RuleTyped, Rules, Agree, Confirmed, Raced, RS!Now, Entries
<1>3. CASE RS!Request
  <2>1. /\ server.content \in Contents /\ confirmed \in Seq(Contents)
        /\ confirmed' = Append(confirmed, server.content)
        /\ UNCHANGED <<server, up, refs, loaded, mem, disk, fetchRaces>>
        /\ fetch = None /\ up \in {"starting", "up"}
    BY <1>3 DEF RS!Request, RuleTyped
  <2>2. /\ confirmed' \in Seq(Contents) /\ Len(confirmed') = Len(confirmed) + 1
        /\ confirmed'[Len(confirmed) + 1] = server.content
        /\ \A i \in 1..Len(confirmed) : confirmed'[i] = confirmed[i]
        /\ Len(confirmed) \in Nat
    BY <2>1
  <2>3. /\ fetch' \in Responses /\ fetch' # None
        /\ fetch'.step \in {"304", "200"}
        /\ fetch'.step = "304" => mem.etag # None /\ mem.etag = server.content
        /\ fetch'.step = "200" => fetch'.content = server.content
    <3>1. CASE mem.etag # None /\ server.tagged /\ mem.etag = server.content
      <4>1. fetch' = [step |-> "304", content |-> None, tagged |-> TRUE]
        BY <1>3, <3>1 DEF RS!Request
      <4>2. fetch' \in Responses /\ fetch'.step = "304"
        BY <4>1 DEF Responses, Values
      <4> QED
        BY Zenon, <3>1, <4>2
    <3>2. CASE ~(mem.etag # None /\ server.tagged /\ mem.etag = server.content)
      <4>1. fetch' = [step |-> "200", content |-> server.content, tagged |-> server.tagged]
        BY <1>3, <3>2 DEF RS!Request
      <4>2. fetch' \in Responses /\ fetch'.step = "200" /\ fetch'.content = server.content
        BY <4>1 DEF Responses, Values, RuleTyped
      <4> QED
        BY Zenon, <4>2
    <3> QED
      BY Zenon, <3>1, <3>2
  <2>4. RuleTyped' /\ Rules'
    BY <2>1, <2>2, <2>3 DEF RuleTyped, Rules
  <2>5. ASSUME ~Raced PROVE Agree'
    <3>1. \A s \in Entries : Confirmed(s) => Confirmed(s)'
      BY <2>2 DEF Confirmed, Entries
    <3>2. Confirmed(mem)' /\ (disk # None => Confirmed(disk))'
      BY ZenonT(30), <2>1, <2>5, <3>1 DEF RuleTyped, Agree, Confirmed
    <3>3. /\ fetch'.step = "304" => mem'.content = confirmed'[RS!Now']
          /\ fetch'.step = "200" => fetch'.content = confirmed'[RS!Now']
      BY <2>1, <2>2, <2>3, <2>5 DEF Agree, Confirmed, RS!Now
    <3>4. /\ up = "starting" => mem = RS!Nothing /\ disk = None
          /\ up = "up" /\ disk # None => disk = mem
      BY <2>1, <2>5 DEF Agree
    <3>5. fetch' # None =>
             /\ Len(confirmed') > 0
             /\ fetch'.step = "304" => mem'.content = confirmed'[RS!Now']
             /\ fetch'.step = "200" => fetch'.content = confirmed'[RS!Now']
             /\ fetch'.step = "save" => mem'.content = confirmed'[RS!Now']
      BY <2>2, <2>3, <3>3
    <3>6. /\ up' \in {"down", "starting"} => mem' = RS!Nothing
          /\ up' = "starting" => disk' = None
          /\ up' \in {"up", "closed"} /\ disk' # None => disk' = mem'
      BY <2>1, <3>4
    <3> QED
      BY <3>2, <3>5, <3>6, ZenonT(60) DEF Agree, RS!Nothing
  <2> QED
    BY Zenon, <2>1, <2>4, <2>5 DEF Raced
<1>4. CASE RS!FetchFails
  BY <1>4 DEF RS!FetchFails, RuleTyped, Rules, Agree, Confirmed, Raced, RS!Now
<1>5. CASE RS!NotModified
  <2>1. /\ mem' = [mem EXCEPT !.at = RS!Now] /\ mem \in Entries /\ RS!Now \in Nat
        /\ mem' \in Entries /\ mem'.content = mem.content /\ mem'.etag = mem.etag /\ mem'.at = RS!Now
    BY <1>5 DEF RS!NotModified, RuleTyped, Entries, RS!Now
  <2>2. /\ disk' \in Entries \cup {None}
        /\ disk # None => disk' # None
    BY <1>5, <2>1 DEF RS!NotModified, RS!Touched, RuleTyped, Entries
  <2>3. /\ RuleTyped' /\ fetch # None /\ fetch.step = "304" /\ fetch' = None
        /\ UNCHANGED <<up, refs, confirmed>>
        /\ loaded' = IF up = "up" /\ ~refs THEN None ELSE loaded
        /\ fetchRaces \subseteq fetchRaces'
    BY <1>5, <2>1, <2>2 DEF RS!NotModified, RuleTyped
  <2>4. Rules'
    BY <2>1, <2>3 DEF Rules, RuleTyped
  <2>5. ASSUME ~Raced' PROVE Agree'
    <3>1. disk' = (IF disk = None THEN None ELSE RS!Touched(disk)) /\ ~Raced
      BY <1>5, <2>5 DEF RS!NotModified, Raced
    <3>2. disk # None => disk' = mem'
      BY <2>1, <2>3, <3>1 DEF Agree, RS!Touched, RuleTyped
    <3>3. confirmed[RS!Now] \in Contents /\ mem.content = confirmed[RS!Now] /\ RS!Now > 0
      BY <2>3, <3>1 DEF Agree, RuleTyped, RS!Now
    <3>4. up \in {"up", "closed"}
      BY <2>3, <3>1, <3>3 DEF Agree, RuleTyped, RS!Nothing
    <3>5. Confirmed(mem)'
      BY <2>1, <2>3, <3>1, <3>3 DEF Agree, Confirmed, RS!Now
    <3>6. (disk # None => Confirmed(disk))'
      BY <3>2, <3>5, <3>1 DEF Confirmed
    <3> QED
      BY Zenon, <2>3, <3>2, <3>4, <3>5, <3>6, <3>1 DEF Agree, Confirmed
  <2> QED
    BY Zenon, <2>3, <2>4, <2>5
<1>6. CASE RS!LoadFails
  BY <1>6 DEF RS!LoadFails, RS!Refused, RuleTyped, Rules, Agree, Confirmed, Raced, RS!Now, Responses
<1>7. CASE RS!LoadBytes
  <2>1. /\ fetch \in Responses /\ fetch # None /\ fetch.step = "200"
        /\ fetch.content \in Values /\ fetch.tagged \in BOOLEAN /\ mem.etag \in Values
        /\ UNCHANGED <<server, up, refs, disk, confirmed>> /\ loaded' = fetch.content
        /\ RS!Now \in Nat
    BY <1>7 DEF RS!LoadBytes, RuleTyped, Responses, Entries, RS!Now
  <2>2. /\ mem' \in Entries /\ mem'.content = fetch.content /\ mem'.at = RS!Now
        /\ mem'.etag = IF fetch.tagged THEN fetch.content ELSE mem.etag
    BY <1>7, <2>1 DEF RS!LoadBytes, Entries
  <2>3. fetch' \in Responses /\ fetch' # None /\ fetch'.step = "save"
    BY <1>7, <2>1 DEF RS!LoadBytes, Responses
  <2>4. /\ fetchRaces \subseteq fetchRaces' /\ (up = "closed" => "closed" \in fetchRaces')
        /\ ~fetch.tagged /\ mem.etag \notin {None, fetch.content} => "untagged" \in fetchRaces'
    BY <1>7 DEF RS!LoadBytes
  <2>5. RuleTyped' /\ Rules'
    BY <2>1, <2>2, <2>3, <2>4 DEF RuleTyped, Rules
  <2>6. ASSUME ~Raced' PROVE Agree'
    <3>1. Agree /\ (mem'.etag # None => mem'.etag = mem'.content)
      BY <2>1, <2>2, <2>4, <2>6 DEF Raced
    <3> QED
      BY <2>1, <2>2, <2>3, <3>1 DEF Agree, Confirmed, RS!Now, RuleTyped
  <2> QED
    BY Zenon, <2>5, <2>6
<1>8. CASE RS!SaveRuleSet
  BY <1>8 DEF RS!SaveRuleSet, RuleTyped, Rules, Agree, Confirmed, Raced, RS!Now, Responses
<1>9. CASE RS!Cleanup
  BY <1>9 DEF RS!Cleanup, RuleTyped, Rules, Agree, Confirmed, Raced, RS!Now
<1>10. CASE RS!Close
  BY <1>10 DEF RS!Close, RuleTyped, Rules, Agree, Confirmed, Raced, RS!Now, Responses
<1>11. CASE RS!Crash
  BY <1>11 DEF RS!Crash, RuleTyped, Rules, Agree, Confirmed, Raced, RS!Now, Entries, Values, RS!Nothing
<1>12. CASE UNCHANGED RS!vars
  BY <1>12 DEF RS!vars, RuleTyped, Rules, Agree, Confirmed, Raced, RS!Now
<1> QED
  BY Zenon, <1>1, <1>2, <1>3, <1>4, <1>5, <1>6, <1>7, <1>8, <1>9, <1>10, <1>11, <1>12 DEF RS!Next

\* A downloaded rule-set is never taken for fresh with a content the server did
\* not confirm at that time, in memory or in the cache file, and a running one
\* keeps the rules that are referred to (fetch, loadBytes and SaveRuleSet), for
\* any sequence of changes, fetches, crashes and restarts.
THEOREM FreshMeansConfirmedHolds ==
    ASSUME RuleDistinct PROVE RS!Spec => []FreshMeansConfirmed
<1>1. RS!Init => RuleInv
  BY DEF RS!Init, RuleInv, RuleTyped, Rules, Agree, Confirmed, Raced, RS!Nothing, Entries, Values, RuleDistinct
<1>2. RuleInv /\ [RS!Next]_(RS!vars) => RuleInv'
  BY RuleInductive
<1>3. RuleInv => FreshMeansConfirmed
  BY DEF FreshMeansConfirmed, RuleInv, RuleTyped, Rules, Agree, Confirmed, Raced, RS!FreshMeansConfirmed, RS!RulesWhileReferred
<1> QED
  BY <1>1, <1>2, <1>3, PTL DEF RS!Spec
-----------------------------------------------------------------------------
(* The selector.                                                           *)

Tags == Outbounds \cup {Default}

\* None is no tag.
TagsNamed == None \notin Tags

SelectorTyped ==
    /\ selected \in Tags \cup {None} /\ stored \in Outbounds \cup {None}
    /\ switcher \in [Callers -> [pc : {"call", "store", "interrupt", "over"},
                                tag : Outbounds \cup {None}]]
    /\ \A k \in Callers : SL!Busy(k) => switcher[k].tag # None
    /\ link \in [Links -> [state : {"none", "dialing", "joined", "relayed", "closed"},
                           via : Tags \cup {None}, inbound : BOOLEAN]]

\* What a start would select.
Restored == IF stored # None THEN stored ELSE Default

\* While no two calls overlapped and the cache file works, one call at most has
\* swapped and not stored, and what it was given is selected; without one the
\* cache file holds the choice.
Stores ==
    selectorRaces \cap {"swap", "store"} = {} =>
        /\ \A k \in Callers : switcher[k].pc = "store" =>
             /\ selected = switcher[k].tag
             /\ \A j \in Callers : switcher[j].pc = "store" => j = k
        /\ selected # None /\ (\A k \in Callers : switcher[k].pc # "store") => selected = Restored

SelectorInv == SelectorTyped /\ Stores /\ SL!NoOldConnection

LEMMA SelectorInit == ASSUME SL!Init PROVE SelectorInv
  BY DEF SL!Init, SelectorInv, SelectorTyped, Stores, SL!NoOldConnection, SL!Busy, SL!Joined, SL!NoLink

LEMMA SelectorSwitch ==
    ASSUME TagsNamed, SelectorInv, NEW k \in Callers, NEW tag \in Outbounds, SL!SelectOutbound(k, tag)
    PROVE  SelectorInv'
<1> USE DEF SelectorInv, TagsNamed, Tags
<1>1. SelectorTyped'
  BY DEF SelectorTyped, SL!SelectOutbound, SL!Busy
<1>2. Stores'
  BY ZenonT(30) DEF SelectorTyped, Stores, Restored, SL!SelectOutbound
<1>3. SL!NoOldConnection'
  BY DEF SelectorTyped, SL!NoOldConnection, SL!Quiet, SL!Busy, SL!Joined, SL!SelectOutbound
<1> QED
  BY Zenon, <1>1, <1>2, <1>3

LEMMA SelectorStore ==
    ASSUME TagsNamed, SelectorInv, NEW k \in Callers, SL!StoreSelected(k) \/ SL!Interrupt(k)
    PROVE  SelectorInv'
<1> USE DEF SelectorInv, TagsNamed, Tags
<1>1. CASE SL!StoreSelected(k)
  <2>1. SelectorTyped'
    BY <1>1 DEF SelectorTyped, SL!StoreSelected, SL!MustStore, SL!Busy
  <2>2. Stores'
    <3>1. /\ switcher[k].pc = "store" /\ switcher[k].tag # None /\ UNCHANGED selected
          /\ switcher' = [switcher EXCEPT ![k].pc = "interrupt"]
          /\ \A j \in Callers \ {k} : switcher'[j] = switcher[j]
          /\ switcher'[k].pc = "interrupt"
      BY <1>1 DEF SelectorTyped, SL!StoreSelected, SL!Busy
    <3>2. "store" \in selectorRaces' \/ (stored' = switcher[k].tag /\ UNCHANGED selectorRaces)
      BY <1>1 DEF SL!StoreSelected, SL!MustStore
    <3> QED
      BY Zenon, <3>1, <3>2 DEF Stores, Restored
  <2>3. SL!NoOldConnection'
    BY <1>1 DEF SelectorTyped, SL!NoOldConnection, SL!Quiet, SL!Busy, SL!Joined, SL!StoreSelected
  <2> QED
    BY Zenon, <2>1, <2>2, <2>3
<1>2. CASE SL!Interrupt(k)
  <2>1. SelectorTyped'
    BY ZenonT(30), <1>2 DEF SelectorTyped, SL!Interrupt, SL!Busy
  <2>2. Stores'
    BY <1>2 DEF SelectorTyped, Stores, Restored, SL!Interrupt
  <2>3. SL!NoOldConnection'
    BY <1>2 DEF SelectorTyped, SL!NoOldConnection, SL!Joined, SL!Interrupted, SL!Interrupt
  <2> QED
    BY Zenon, <2>1, <2>2, <2>3
<1> QED
  BY Zenon, <1>1, <1>2

LEMMA SelectorLink ==
    ASSUME TagsNamed, SelectorInv, NEW l \in Links,
           SL!Dial(l) \/ SL!Join(l) \/ SL!NewConnectionEx(l) \/ SL!CloseLink(l)
    PROVE  SelectorInv'
<1> USE DEF SelectorInv, TagsNamed, Tags
<1>0. UNCHANGED <<selected, stored, switcher>> /\ (selectorRaces' = selectorRaces \/ selectorRaces' = selectorRaces \cup {"late"})
  BY DEF SL!Dial, SL!Join, SL!NewConnectionEx, SL!CloseLink
<1>1. SelectorTyped'
  <2>1. CASE SL!Dial(l) \/ SL!NewConnectionEx(l)
    <3>1. PICK s \in {"dialing", "relayed"}, b \in BOOLEAN :
            link' = [link EXCEPT ![l] = [state |-> s, via |-> selected, inbound |-> b]]
      BY ZenonT(30), <2>1 DEF SL!Dial, SL!NewConnectionEx
    <3> QED
      BY Zenon, <1>0, <3>1 DEF SelectorTyped, SL!Busy
  <2>2. CASE SL!Join(l)
    BY <2>2 DEF SelectorTyped, SL!Busy, SL!Join
  <2>3. CASE SL!CloseLink(l)
    BY SMTT(20), <2>3 DEF SelectorTyped, SL!Busy, SL!CloseLink
  <2> QED
    BY Zenon, <2>1, <2>2, <2>3
<1>2. Stores'
  BY <1>0 DEF Stores, Restored
<1>3. SL!NoOldConnection'
  BY DEF SelectorTyped, SL!NoOldConnection, SL!Quiet, SL!Busy, SL!Joined, SL!Dial, SL!Join,
         SL!NewConnectionEx, SL!CloseLink
<1> QED
  BY Zenon, <1>1, <1>2, <1>3

LEMMA SelectorStart == ASSUME TagsNamed, SelectorInv, SL!Start PROVE SelectorInv'
<1> USE DEF SelectorInv, TagsNamed, Tags
<1>1. SelectorTyped'
  BY DEF SelectorTyped, SL!Busy, SL!Start
<1>2. Stores'
  BY DEF SelectorTyped, Stores, Restored, SL!Busy, SL!Start
<1>3. SL!NoOldConnection'
  BY DEF SelectorTyped, SL!NoOldConnection, SL!Joined, SL!Start
<1> QED
  BY Zenon, <1>1, <1>2, <1>3

LEMMA SelectorInductive == ASSUME TagsNamed, SelectorInv, [SL!Next]_(SL!vars) PROVE SelectorInv'
<1>1. CASE UNCHANGED SL!vars
  BY <1>1 DEF SL!vars, SelectorInv, SelectorTyped, Stores, Restored, SL!NoOldConnection, SL!Quiet, SL!Busy,
         SL!Joined
<1> QED
  BY SMTT(30), <1>1, SelectorStart, SelectorSwitch, SelectorStore, SelectorLink DEF SL!Next

\* Between calls of SelectOutbound the cache file holds what is selected, unless
\* two of them overlapped or the file failed, and no connection of the interrupt
\* group goes through an outbound that is not selected, unless it joined late:
\* for any outbounds, calls, connections and restarts.
THEOREM SwitchCompleteHolds ==
    ASSUME TagsNamed PROVE SL!Spec => []SwitchComplete
<1>1. SL!Init => SelectorInv
  BY SelectorInit
<1>2. SelectorInv /\ [SL!Next]_(SL!vars) => SelectorInv'
  BY SelectorInductive
<1>3. SelectorInv => SwitchComplete
  BY DEF SwitchComplete, SelectorInv, SelectorTyped, Stores, Restored, SL!ChoiceSurvives, SL!Quiet, SL!Busy
<1> QED
  BY <1>1, <1>2, <1>3, PTL DEF SL!Spec

-----------------------------------------------------------------------------
(* The mode of the DNS router.                                             *)

\* None is no metadata.
MetadataNamed == None \notin DM!Contains

ModeTyped ==
    /\ own \subseteq DM!Flags
    /\ metadata \in [Sets -> DM!Contains] /\ update \in [Sets -> DM!Contains \cup {None}]
    /\ start \in {"new", "built", "started", "closed", "failed"}
    /\ started \in BOOLEAN /\ closing \in BOOLEAN /\ legacyDNSMode \in BOOLEAN
    /\ started <=> start = "started"

\* The mode suits what is asked for.
Suits(legacy, asked) ==
    IF legacy THEN "disabled" \notin asked
    ELSE /\ ~({"disabled", "strategy"} \subseteq asked)
         /\ ("needed" \in asked => "disabled" \in asked)

Asked(r, md) == r \cup UNION {md[s] : s \in Sets}

Taken(s) == [metadata EXCEPT ![s] = update[s]]

\* While no updates met each other or the start: one update at most is under
\* way, none while what was built waits to be published, and once it is, what
\* the rule-sets hold and what one of them was allowed both suit the mode.
Checked ==
    modeRaces = {} =>
        /\ \A s, q \in Sets : update[s] # None /\ update[q] # None => s = q
        /\ start = "built" =>
             /\ \A s \in Sets : update[s] = None
             /\ built \in {"legacy", "modern"}
             /\ Suits(built = "legacy", Asked(own, metadata))
        /\ started /\ ~closing =>
             /\ Suits(legacyDNSMode, Asked(own, metadata))
             /\ \A s \in Sets : update[s] # None => Suits(legacyDNSMode, Asked(own, Taken(s)))

ModeInv == ModeTyped /\ Checked

\* FitsMode and CanBuild in these words.
LEMMA ModeMeans ==
    ASSUME NEW md
    PROVE  /\ DM!FitsMode(md) <=> Suits(legacyDNSMode, Asked(own, md))
           /\ DM!CanBuild(md) =>
                /\ DM!ResolveLegacyDNSMode(md) \in {"legacy", "modern"}
                /\ Suits(DM!ResolveLegacyDNSMode(md) = "legacy", Asked(own, md))
<1>1. DM!Requirements(md) = Asked(own, md)
  BY DEF DM!Requirements, Asked
<1> HIDE DEF Asked
<1> QED
  BY Zenon, <1>1 DEF DM!FitsMode, DM!CanBuild, DM!ResolveLegacyDNSMode, Suits

LEMMA ModeInit == ASSUME MetadataNamed, DM!Init PROVE ModeInv
  BY ZenonT(30) DEF DM!Init, ModeInv, ModeTyped, Checked, DM!Flags

LEMMA ModeBuild == ASSUME MetadataNamed, ModeInv, DM!BuildRules PROVE ModeInv'
<1> USE DEF ModeInv, MetadataNamed
<1>1. ModeTyped'
  BY DEF ModeTyped, DM!BuildRules
<1>2. Checked'
  <2> SUFFICES ASSUME modeRaces' = {} PROVE Checked'
    BY DEF Checked
  <2>1. modeRaces = {} /\ UNCHANGED <<own, metadata, update, closing, started>> /\ ~started
    BY DEF ModeTyped, DM!BuildRules
  <2>2. start' = "built" => /\ \A s \in Sets : update[s] = None
                            /\ built' \in {"legacy", "modern"}
                            /\ Suits(built' = "legacy", Asked(own, metadata))
    BY ModeMeans DEF DM!BuildRules, DM!UnderWay
  <2> QED
    BY Zenon, <2>1, <2>2 DEF Checked
<1> QED
  BY Zenon, <1>1, <1>2

LEMMA ModePublish == ASSUME MetadataNamed, ModeInv, DM!Publish PROVE ModeInv'
<1> USE DEF ModeInv, MetadataNamed
<1>1. ModeTyped'
  BY ZenonT(30) DEF ModeTyped, DM!Publish
<1>2. Checked'
  <2> SUFFICES ASSUME modeRaces' = {} PROVE Checked'
    BY DEF Checked
  <2>1. modeRaces = {} /\ UNCHANGED <<own, metadata, update, closing>> /\ start' # "built"
    BY DEF DM!Publish
  <2>2. \A s \in Sets : update[s] = None
    BY DEF DM!Publish, DM!UnderWay
  <2>3. started' /\ ~closing' => Suits(legacyDNSMode', Asked(own, metadata))
    BY <2>1 DEF Checked, DM!Publish, ModeTyped
  <2> QED
    BY Zenon, <2>1, <2>2, <2>3 DEF Checked
<1> QED
  BY Zenon, <1>1, <1>2

LEMMA ModeUpdate ==
    ASSUME MetadataNamed, ModeInv, NEW s \in Sets, NEW new \in DM!Contains,
           DM!ValidateRuleSetMetadataUpdate(s, new)
    PROVE  ModeInv'
<1> USE DEF ModeInv, MetadataNamed
<1> DEFINE md == [metadata EXCEPT ![s] = new]
           allowed == closing \/ (IF started THEN DM!FitsMode(md) ELSE DM!CanBuild(md))
<1>0. /\ update[s] = None /\ update' = [update EXCEPT ![s] = IF allowed THEN new ELSE None]
      /\ modeRaces' = modeRaces \cup (IF ~allowed THEN {} ELSE IF start = "built" THEN Sets ELSE DM!UnderWay)
      /\ UNCHANGED <<own, metadata, start, built, legacyDNSMode, started, closing>>
  BY DEF DM!ValidateRuleSetMetadataUpdate
<1>1. ModeTyped'
  BY <1>0 DEF ModeTyped
<1>2. Checked'
  <2> SUFFICES ASSUME modeRaces' = {} PROVE Checked'
    BY Zenon DEF Checked
  <2>2. CASE ~allowed
    <3>1. /\ modeRaces = {}
          /\ UNCHANGED <<own, metadata, update, start, built, legacyDNSMode, started, closing>>
      BY SMTT(30), <1>0, <2>2 DEF ModeTyped
    <3> QED
      BY ONLY ModeInv, <3>1 DEF ModeInv, Checked, Taken
  <2>3. CASE allowed
    <3>1. modeRaces = {} /\ start # "built" /\ \A q \in Sets : update[q] = None
      BY <1>0, <2>3 DEF DM!UnderWay
    <3>2. /\ \A q \in Sets : update'[q] # None => q = s
          /\ update'[s] = new
      BY <1>0, <2>3, <3>1 DEF ModeTyped
    <3>3. started /\ ~closing => Suits(legacyDNSMode, Asked(own, md))
      BY <2>3, ModeMeans
    <3>5. started /\ ~closing => Suits(legacyDNSMode, Asked(own, metadata))
      BY <3>1 DEF Checked
    <3>4. Taken(s)' = md
      BY ZenonT(30), <1>0, <3>2 DEF Taken
    <3>6. \A q \in Sets : started' /\ ~closing' /\ update'[q] # None =>
            Suits(legacyDNSMode', Asked(own', Taken(q)'))
      <4> HIDE DEF md, allowed
      <4> QED
        BY Zenon, <1>0, <3>2, <3>3, <3>4
    <3> HIDE DEF md, allowed
    <3> QED
      BY SMTT(30), <1>0, <3>1, <3>2, <3>5, <3>6 DEF Checked
  <2> QED
    BY SMTT(30), <2>2, <2>3
<1> QED
  BY Zenon, <1>1, <1>2

LEMMA ModeTake ==
    ASSUME MetadataNamed, ModeInv, NEW s \in Sets, DM!TakeMetadata(s) PROVE ModeInv'
<1> USE DEF ModeInv, MetadataNamed
<1>0. /\ update[s] # None /\ metadata' = Taken(s) /\ update' = [update EXCEPT ![s] = None]
      /\ UNCHANGED <<own, start, built, legacyDNSMode, started, closing, modeRaces>>
  BY DEF DM!TakeMetadata, Taken
<1>1. ModeTyped'
  BY <1>0 DEF ModeTyped, Taken
<1>2. Checked'
  <2> SUFFICES ASSUME modeRaces' = {} PROVE Checked'
    BY Zenon DEF Checked
  <2>1. \A q \in Sets : update'[q] = None
    BY <1>0 DEF Checked, ModeTyped
  <2>2. started' /\ ~closing' => Suits(legacyDNSMode', Asked(own', metadata'))
    BY <1>0 DEF Checked
  <2>3. start' # "built"
    BY <1>0 DEF Checked
  <2> QED
    BY Zenon, <2>1, <2>2, <2>3 DEF Checked
<1> QED
  BY Zenon, <1>1, <1>2

LEMMA ModeInductive == ASSUME MetadataNamed, ModeInv, [DM!Next]_(DM!vars) PROVE ModeInv'
<1>1. CASE DM!Close
  <2>1. UNCHANGED <<own, metadata, update, start, built, legacyDNSMode, started, modeRaces>> /\ closing' = TRUE
    BY SMTT(30), <1>1 DEF DM!Close
  <2> QED
    BY Zenon, <2>1 DEF ModeInv, ModeTyped, Checked
<1>2. CASE UNCHANGED DM!vars
  <2>1. UNCHANGED <<own, metadata, update, start, built, legacyDNSMode, started, closing, modeRaces>>
    BY <1>2 DEF DM!vars
  <2> QED
    BY Zenon, <2>1 DEF ModeInv, ModeTyped, Checked, Taken
<1> QED
  BY SMTT(30), <1>1, <1>2, ModeBuild, ModePublish, ModeUpdate, ModeTake DEF DM!Next

\* While the DNS router runs, the mode it was started in can serve what the
\* rule-sets contain, unless two updates met each other or the start: for any
\* rules, rule-sets and updates (ValidateRuleSetMetadataUpdate, Start).
THEOREM ModeFitsHolds == ASSUME MetadataNamed PROVE DM!Spec => []ModeFits
<1>1. DM!Init => ModeInv
  BY ModeInit
<1>2. ModeInv /\ [DM!Next]_(DM!vars) => ModeInv'
  BY ModeInductive
<1>3. ModeInv => ModeFits
  <2>1. DM!ModeFits <=> (started /\ ~closing /\ modeRaces = {} => DM!FitsMode(metadata))
    BY DEF DM!ModeFits, DM!FitsMode
  <2> QED
    BY Zenon, <2>1, ModeMeans DEF ModeFits, ModeInv, Checked
<1> QED
  BY <1>1, <1>2, <1>3, PTL DEF DM!Spec
=============================================================================
