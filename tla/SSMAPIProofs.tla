--------------------------- MODULE SSMAPIProofs ----------------------------
(***************************************************************************)
(* Proofs about the Shadowsocks manager (service/ssmapi), for every value  *)
(* of its constants and without the bounds of the model-checked instance.  *)
(***************************************************************************)
EXTENDS SSMAPI, TLAPS

Counts == [Counters -> 0 .. MaxBytes]
Caches == [count : Counts, users : SUBSET Users]

\* The server as a whole is no user; None is no cache, torn or not.
AccountsNamed ==
    /\ Global \notin Users /\ MaxBytes \in Nat
    /\ None \notin Caches /\ None # Torn

\* A link holds a counter of the map only while its user has one.
Accounted ==
    /\ TypeOK
    /\ owed \in [Counters -> Int]
    /\ link \in [Links -> [user : Users, counter : {"none", "mapped", "dropped"}] \cup {None}]
    /\ \A l \in Links : link[l] # None /\ link[l].counter = "mapped" => link[l].user \in counted
    /\ DOMAIN req = Requests
    /\ \A r \in Requests : req[r] # None /\ req[r].op \in {"update", "delete"} => req[r].user \in Users

SaveTyped(v) ==
    /\ v = [pc |-> v.pc, left |-> v.left, count |-> v.count, users |-> v.users]
    /\ v.pc \in {"idle", "encoding", "encoded", "writing", "done"}
    /\ v.pc = "encoding" => /\ v.left \subseteq Users /\ DOMAIN v.count = Users \ v.left
                            /\ \A u \in Users \ v.left : v.count[u] \in 0 .. MaxBytes
    /\ v.pc \in {"encoded", "writing"} => v.count \in Counts /\ v.users \subseteq Users

\* One saver writes at a time, and the one of Close is busy exactly while the
\* service closes.
Saving ==
    /\ DOMAIN save = Savers /\ \A s \in Savers : SaveTyped(save[s])
    /\ save["loop"].pc = "writing" => save["close"].pc # "writing"
    /\ save["close"].pc # "idle" <=> up = "closing"
    /\ file \in Caches \cup {None, Torn}
    /\ lastSavedCache \in Caches \cup {None}

\* A process that is down holds nothing.
Down ==
    up = "down" =>
        /\ usersMap = {} /\ served = {} /\ counted = {} /\ count = Blank.count
        /\ \A l \in Links : link[l] = None
        /\ \A r \in Requests : req[r] = None
        /\ save = Blank.save

\* While nothing happens beside Close, what it has encoded is what there is.
Closing ==
    up = "closing" /\ "late" \notin excused =>
        /\ save["loop"].pc = "idle"
        /\ save["close"].pc = "encoding" =>
             \A u \in Users \ save["close"].left : save["close"].count[u] = count[u]
        /\ save["close"].pc \in {"encoded", "writing"} =>
             save["close"].count = count /\ save["close"].users = usersMap

\* A running service has counted what it owes also while its file is behind.
Counted ==
    /\ up # "down" /\ {"lost", "late"} \cap excused = {} => \A k \in Counters : count[k] = owed[k]
    /\ up = "down" /\ "unwritten" \in excused => "lost" \in excused

SSMInv ==
    /\ Accounted /\ Saving /\ Down /\ Closing /\ Counted
    /\ ServedAsListed /\ TrafficCountedOnce /\ FileAsSaved

LEMMA TornIsNoCache == ASSUME AccountsNamed PROVE Torn \notin Caches
<1>1. DOMAIN Torn.count = {}
  BY DEF Torn
<1>2. \A f \in Caches : Global \in DOMAIN f.count
  BY DEF Caches, Counts, Counters
<1> QED
  BY <1>1, <1>2

LEMMA BlankIsTyped ==
    ASSUME AccountsNamed
    PROVE  /\ SaveTyped(NoSave) /\ NoSave.pc = "idle"
           /\ Blank.count \in Counts /\ (\A k \in Counters : Blank.count[k] = 0)
           /\ Blank.save = [s \in Savers |-> NoSave] /\ Blank.up = "down"
           /\ Blank.users = {}
           /\ Blank.link = [l \in Links |-> None] /\ Blank.req = [r \in Requests |-> None]
  BY DEF SaveTyped, NoSave, Blank, Counts, AccountsNamed

LEMMA SSMInit == ASSUME AccountsNamed, Init PROVE SSMInv
<1> USE BlankIsTyped DEF Init, AccountsNamed
<1>1. Accounted
  <2>1. count \in Counts /\ owed \in [Counters -> Int]
    BY DEF Counts
  <2>2. /\ link \in [Links -> [user : Users, counter : {"none", "mapped", "dropped"}] \cup {None}]
        /\ \A l \in Links : link[l] = None
        /\ DOMAIN req = Requests /\ \A r \in Requests : req[r] = None
    OBVIOUS
  <2>3. TypeOK
    BY <2>1 DEF TypeOK, Counts, Counters
  <2> QED
    BY <2>1, <2>2, <2>3 DEF Accounted
<1>2. Saving /\ Down /\ Closing
  BY DEF Saving, Down, Closing, Savers
<1>3. ServedAsListed /\ TrafficCountedOnce /\ Counted /\ FileAsSaved
  BY DEF ServedAsListed, TrafficCountedOnce, Counted, FileAsSaved, Stored, Savers
<1> QED
  BY <1>1, <1>2, <1>3 DEF SSMInv

\* The tracker: connections come, are counted, and go.
LEMMA SSMTracker ==
    ASSUME AccountsNamed, SSMInv, NEW l \in Links,
           Accept(l) \/ TrackConnection(l) \/ Transfer(l) \/ Disconnect(l)
    PROVE  SSMInv'
<1> USE DEF AccountsNamed, userVars, cacheVars
<1>1. UNCHANGED <<up, usersMap, served, req, save, file, lastSavedCache>>
  BY DEF Accept, TrackConnection, Transfer, Disconnect
<1>2. up # "down"
  BY DEF Accept, TrackConnection, Transfer, Disconnect, SSMInv, Down
<1>3. Saving' /\ Down'
  BY <1>1, <1>2 DEF SSMInv, Saving, Down
<1>4. CASE Transfer(l)
  <2> DEFINE to == IF link[l].counter = "mapped" THEN {link[l].user, Global} ELSE {Global}
  <2>1. /\ \A k \in to : count[k] < MaxBytes
        /\ count' = [k \in Counters |-> IF k \in to THEN count[k] + 1 ELSE count[k]]
        /\ owed' = [k \in Counters |-> IF k \in to THEN owed[k] + 1 ELSE owed[k]]
        /\ excused' = excused \cup Late
        /\ UNCHANGED <<counted, link>> /\ link[l] # None
    BY <1>4 DEF Transfer
  <2>2. count \in Counts /\ owed \in [Counters -> Int]
        /\ \A k \in to : k \in Users => k \in counted
    BY <2>1 DEF SSMInv, Accounted, TypeOK, Counts
  <2> HIDE DEF to
  <2>3. count' \in Counts /\ owed' \in [Counters -> Int] /\ (\A u \in Users \ counted : count'[u] = 0)
        /\ \A k \in Counters : count[k] = owed[k] => count'[k] = owed'[k]
    <3>1. \A k \in Counters : count[k] \in 0 .. MaxBytes /\ owed[k] \in Int
      BY <2>2 DEF Counts
    <3>2. \A u \in Users \ counted : count[u] = 0
      BY DEF SSMInv, Accounted, TypeOK
    <3> QED
      BY <2>1, <2>2, <3>1, <3>2 DEF Counts, Counters
  <2>4. Accounted'
    BY <1>1, <2>1, <2>3 DEF SSMInv, Accounted, TypeOK, Counts
  <2>5. up = "closing" => "late" \in excused'
    BY <2>1 DEF Late
  <2>6. Closing' /\ FileAsSaved'
    BY <1>1, <1>2, <2>1, <2>5, <1>3 DEF SSMInv, Saving, Closing, FileAsSaved
  <2>7. ServedAsListed' /\ TrafficCountedOnce' /\ Counted'
    BY <1>1, <1>2, <2>1, <2>3 DEF SSMInv, ServedAsListed, TrafficCountedOnce, Counted, Stored
  <2> QED
    BY <1>3, <2>4, <2>6, <2>7 DEF SSMInv
<1>5. CASE ~Transfer(l)
  <2>1. UNCHANGED <<count, owed, excused>>
    BY <1>5 DEF Accept, TrackConnection, Disconnect
  <2>2. Accounted'
    BY <1>1, <1>5, <2>1 DEF Accept, TrackConnection, Disconnect, SSMInv, Accounted, TypeOK
  <2> QED
    BY <1>1, <1>2, <1>3, <2>1, <2>2
    DEF SSMInv, Closing, ServedAsListed, TrafficCountedOnce, Counted, Stored, FileAsSaved
<1> QED
  BY <1>4, <1>5

\* postUpdate, whether or not the inbound takes the list.
LEMMA SSMPostUpdate ==
    ASSUME AccountsNamed, SSMInv, up # "down", NEW users \in SUBSET Users, PostUpdate(users),
           UNCHANGED <<up, save, file, lastSavedCache>>,
           DOMAIN req' = Requests,
           \A r \in Requests : req'[r] # None /\ req'[r].op \in {"update", "delete"} => req'[r].user \in Users
    PROVE  SSMInv'
<1> USE DEF AccountsNamed
<1>1. Saving' /\ Down'
  BY DEF SSMInv, Saving, Down
<1>2. CASE served' = users /\ excused' = (excused \ {"refused"}) \cup Late
           /\ counted' = KeptCounters(users)
           /\ count' = [k \in Counters |-> IF k \in counted' \cup {Global} THEN count[k] ELSE 0]
           /\ link' = [l \in Links |-> IF link[l] # None /\ link[l].counter = "mapped" /\ link[l].user \notin counted'
                                       THEN [link[l] EXCEPT !.counter = "dropped"] ELSE link[l]]
           /\ owed' = [k \in Counters |-> IF k \in users \cup {Global} THEN owed[k] ELSE 0]
  <2>1. counted' = counted \cap users /\ usersMap' = users
    BY <1>2 DEF KeptCounters, PostUpdate
  <2>2. count' \in Counts /\ owed' \in [Counters -> Int]
    BY <1>2 DEF SSMInv, Accounted, TypeOK, Counts
  <2>3. ASSUME \A k \in Counters : count[k] = owed[k]
        PROVE  \A k \in Counters : count'[k] = owed'[k]
    <3>1. \A u \in Users \ counted : count[u] = 0
      BY DEF SSMInv, Accounted, TypeOK
    <3> QED
      BY <1>2, <2>1, <2>3, <3>1 DEF Counters
  <2>4. Accounted'
    <3>1. link' \in [Links -> [user : Users, counter : {"none", "mapped", "dropped"}] \cup {None}]
      BY <1>2 DEF SSMInv, Accounted
    <3>2. \A l \in Links : link'[l] # None /\ link'[l].counter = "mapped" => link'[l].user \in counted'
      BY <1>2 DEF SSMInv, Accounted
    <3>3. \A u \in Users \ counted' : count'[u] = 0
      BY <1>2 DEF Counters
    <3> QED
      BY <1>2, <2>1, <2>2, <3>1, <3>2, <3>3 DEF SSMInv, Accounted, TypeOK, Counts
  <2>5. /\ up = "closing" => "late" \in excused'
        /\ {"lost", "unwritten", "late"} \cap excused' = {} => {"lost", "unwritten", "late"} \cap excused = {}
        /\ "unwritten" \in excused' <=> "unwritten" \in excused
    BY <1>2 DEF Late
  <2>6. Closing' /\ FileAsSaved'
    BY <1>1, <2>5 DEF SSMInv, Saving, Closing, FileAsSaved
  <2>7. ServedAsListed' /\ TrafficCountedOnce' /\ Counted'
    BY <1>2, <2>1, <2>3, <2>5 DEF SSMInv, ServedAsListed, TrafficCountedOnce, Counted, Stored
  <2> QED
    BY <1>1, <2>4, <2>6, <2>7 DEF SSMInv
<1>3. CASE excused' = excused \cup Late \cup {"refused"}
           /\ UNCHANGED <<served, counted, count, link, owed>>
  <2>1. usersMap' = users
    BY DEF PostUpdate
  <2>2. Accounted'
    BY <1>3, <2>1 DEF SSMInv, Accounted, TypeOK
  <2>3. up = "closing" => "late" \in excused'
    BY <1>3 DEF Late
  <2>4. Closing' /\ FileAsSaved'
    BY <1>1, <1>3, <2>3 DEF SSMInv, Saving, Closing, FileAsSaved
  <2>5. ServedAsListed' /\ TrafficCountedOnce' /\ Counted'
    BY <1>3, <2>1 DEF SSMInv, ServedAsListed, TrafficCountedOnce, Counted, Stored
  <2> QED
    BY <1>1, <2>2, <2>4, <2>5 DEF SSMInv
<1> QED
  BY <1>2, <1>3 DEF PostUpdate

\* The HTTP handlers.
LEMMA SSMRequests ==
    ASSUME AccountsNamed, SSMInv, NEW r \in Requests,
           \/ AddUser(r) \/ FindUser(r) \/ ChangeUser(r)
           \/ ListUsers(r) \/ ReadUsers(r) \/ ReadGlobal(r)
    PROVE  SSMInv'
<1> USE DEF AccountsNamed, userVars, trafficVars, cacheVars
<1>1. up # "down"
  BY DEF AddUser, FindUser, ChangeUser, ListUsers, ReadUsers, ReadGlobal,
         Idle, SSMInv, Down
<1>2. CASE AddUser(r)
  <2>1. PICK u \in Users \ usersMap : PostUpdate(usersMap \cup {u})
    BY ZenonT(30), <1>2 DEF AddUser
  <2>2. usersMap \cup {u} \in SUBSET Users
    BY DEF SSMInv, Accounted, TypeOK
  <2>3. UNCHANGED <<up, req, save, file, lastSavedCache>>
    BY <1>2 DEF AddUser
  <2> QED
    BY <1>1, <2>1, <2>2, <2>3, SSMPostUpdate DEF SSMInv, Accounted
<1>3. CASE ChangeUser(r)
  <2>1. /\ req' = [req EXCEPT ![r] = None] /\ UNCHANGED <<up, save, file, lastSavedCache>>
        /\ req[r] # None /\ req[r].op \in {"update", "delete"}
        /\ PostUpdate(usersMap \cup {req[r].user}) \/ PostUpdate(usersMap \ {req[r].user})
    BY <1>3 DEF ChangeUser, Then
  <2>2. usersMap \cup {req[r].user} \in SUBSET Users /\ usersMap \ {req[r].user} \in SUBSET Users
    BY <2>1 DEF SSMInv, Accounted, TypeOK
  <2>3. /\ DOMAIN req' = Requests
        /\ \A q \in Requests : req'[q] # None /\ req'[q].op \in {"update", "delete"} => req'[q].user \in Users
    BY <2>1 DEF SSMInv, Accounted
  <2> QED
    BY <1>1, <2>1, <2>2, <2>3, SSMPostUpdate
<1>4. CASE FindUser(r) \/ ListUsers(r)
  <2>1. /\ DOMAIN req' = Requests
        /\ \A q \in Requests : req'[q] # None /\ req'[q].op \in {"update", "delete"} => req'[q].user \in Users
    BY <1>4 DEF FindUser, ListUsers, Then, SSMInv, Accounted, TypeOK
  <2>2. UNCHANGED <<up, usersMap, served, counted, count, link, save, file, lastSavedCache, owed, excused>>
    BY <1>4 DEF FindUser, ListUsers
  <2> QED
    BY <1>1, <2>1, <2>2 DEF SSMInv, Accounted, TypeOK, Saving, Down, Closing, ServedAsListed,
         TrafficCountedOnce, Counted, Stored, FileAsSaved
<1>5. ASSUME NEW keys, Clear(keys),
             UNCHANGED <<up, usersMap, served, counted, link, save, file, lastSavedCache>>,
             DOMAIN req' = Requests,
             \A q \in Requests : req'[q] # None /\ req'[q].op \in {"update", "delete"} => req'[q].user \in Users
      PROVE  SSMInv'
  <2>1. count' \in Counts /\ owed' \in [Counters -> Int] /\ (\A u \in Users \ counted : count'[u] = 0)
        /\ \A k \in Counters : count[k] = owed[k] => count'[k] = owed'[k]
    <3>1. count \in Counts /\ owed \in [Counters -> Int] /\ (\A u \in Users \ counted : count[u] = 0)
      BY DEF SSMInv, Accounted, TypeOK, Counts
    <3>2. \A k \in Counters : count[k] \in 0 .. MaxBytes /\ owed[k] \in Int
      BY <3>1 DEF Counts
    <3> QED
      BY <1>5, <3>1, <3>2 DEF Clear, Counts, Counters
  <2>2. Accounted'
    BY <1>5, <2>1 DEF SSMInv, Accounted, TypeOK, Counts
  <2>3. excused' = excused \cup Late /\ (up = "closing" => "late" \in excused')
    BY SMTT(30), <1>5 DEF Clear, Late
  <2>4. Saving' /\ Down' /\ Closing' /\ FileAsSaved'
    BY SMTT(30), <1>1, <1>5, <2>3 DEF SSMInv, Saving, Down, Closing, FileAsSaved
  <2>5. ServedAsListed' /\ TrafficCountedOnce' /\ Counted'
    BY <1>1, <1>5, <2>1, <2>3 DEF SSMInv, ServedAsListed, TrafficCountedOnce, Counted, Stored
  <2> QED
    BY SMTT(30), <2>2, <2>4, <2>5 DEF SSMInv
<1>6. CASE ReadUsers(r)
  <2>1. /\ Clear(req[r].user \cap counted)
        /\ UNCHANGED <<up, usersMap, served, counted, link, save, file, lastSavedCache>>
    BY <1>6 DEF ReadUsers
  <2>2. /\ DOMAIN req' = Requests
        /\ \A q \in Requests : req'[q] # None /\ req'[q].op \in {"update", "delete"} => req'[q].user \in Users
    BY <1>6 DEF ReadUsers, Then, SSMInv, Accounted
  <2> QED
    BY <1>5, <2>1, <2>2
<1>7. CASE ReadGlobal(r)
  <2>1. /\ Clear({Global})
        /\ UNCHANGED <<up, usersMap, served, counted, link, save, file, lastSavedCache>>
    BY <1>7 DEF ReadGlobal
  <2>2. /\ DOMAIN req' = Requests
        /\ \A q \in Requests : req'[q] # None /\ req'[q].op \in {"update", "delete"} => req'[q].user \in Users
    BY <1>7 DEF ReadGlobal, Then, SSMInv, Accounted
  <2> QED
    BY <1>5, <2>1, <2>2
<1> QED
  BY <1>2, <1>3, <1>4, <1>6, <1>7

\* The process ends, with Close or without, and starts again from the file.
LEMMA SSMProcess ==
    ASSUME AccountsNamed, SSMInv, Exit \/ Crash \/ Start PROVE SSMInv'
<1> USE DEF AccountsNamed
<1>1. ASSUME Ends,
             {"lost", "unwritten", "late"} \cap excused' = {} =>
                 /\ {"lost", "unwritten", "late"} \cap excused = {}
                 /\ file = [count |-> count, users |-> usersMap],
             file = Torn => {"lost", "late"} \cap excused' # {},
             "unwritten" \in excused' => "lost" \in excused',
             up # "down"
      PROVE  SSMInv'
  <2>1. /\ up' = "down" /\ usersMap' = {} /\ served' = {} /\ counted' = {} /\ count' = Blank.count
        /\ link' = [l \in Links |-> None] /\ req' = [q \in Requests |-> None]
        /\ save' = [s \in Savers |-> NoSave] /\ save' = Blank.save
        /\ lastSavedCache' = None /\ UNCHANGED <<file, owed>>
    BY SMTT(30), <1>1, BlankIsTyped DEF Ends
  <2>2. count' \in Counts /\ (\A k \in Counters : count'[k] = 0) /\ owed \in [Counters -> Int]
    BY <2>1, BlankIsTyped DEF SSMInv, Accounted
  <2>3. Accounted'
    <3>1. TypeOK'
      BY <2>1, <2>2 DEF TypeOK, Counts, Counters
    <3> QED
      BY SMTT(30), <2>1, <2>2, <3>1 DEF Accounted
  <2>4. Saving' /\ Down' /\ Closing'
    BY SMTT(30), <2>1, BlankIsTyped DEF SSMInv, Saving, Down, Closing, Savers
  <2>5. ServedAsListed' /\ FileAsSaved'
    BY SMTT(30), <1>1, <2>1, BlankIsTyped DEF ServedAsListed, FileAsSaved, Savers
  <2>7. Counted'
    BY <1>1, <2>1 DEF Counted
  <2>6. TrafficCountedOnce'
    <3> SUFFICES ASSUME {"lost", "unwritten", "late"} \cap excused' = {}, NEW k \in Counters
                 PROVE  Stored(k)' = owed'[k]
      BY DEF TrafficCountedOnce
    <3>1. count[k] = owed[k]
      BY <1>1 DEF SSMInv, TrafficCountedOnce, Counted, Stored
    <3>2. file \in Caches /\ file.count = count
      BY <1>1 DEF SSMInv, Accounted, TypeOK, Caches, Counts
    <3> QED
      BY <2>1, <3>1, <3>2 DEF Stored
  <2> QED
    BY SMTT(30), <2>3, <2>4, <2>5, <2>6, <2>7 DEF SSMInv
<1>2. CASE Crash
  BY <1>1, <1>2 DEF Crash
<1>3. CASE Exit
  <2>1. /\ up = "closing" /\ save["close"].pc = "done" /\ Ends
        /\ excused' = excused \cup (IF "unwritten" \in excused THEN {"lost"} ELSE {})
    BY <1>3 DEF Exit
  <2>2. {"lost", "unwritten", "late"} \cap excused' = {} =>
                 /\ {"lost", "unwritten", "late"} \cap excused = {}
                 /\ file = [count |-> count, users |-> usersMap]
    BY <2>1 DEF SSMInv, FileAsSaved
  <2>3. file = Torn => {"lost", "late"} \cap excused' # {}
    BY <2>1, TornIsNoCache DEF SSMInv, FileAsSaved, Closing, Saving, Savers
  <2> QED
    BY <1>1, <2>1, <2>2, <2>3
<1>4. CASE Start
  <2>1. /\ up = "down" /\ up' = "up" /\ file' = IF file = Torn THEN None ELSE file
        /\ lastSavedCache' = file' /\ UNCHANGED <<link, req, save, owed>>
    BY <1>4 DEF Start
  <2>2. file' \in Caches \cup {None}
    BY <2>1 DEF SSMInv, Saving
  <2>3. Saving' /\ Down' /\ Closing'
    BY SMTT(30), <2>1, <2>2 DEF SSMInv, Saving, Down, Closing
  <2>4. FileAsSaved'
    BY <2>1, <2>3 DEF FileAsSaved, Saving
  <2>5. \A l \in Links : link[l] = None
    BY <2>1 DEF SSMInv, Down
  <2>6. CASE file' = None /\ UNCHANGED <<usersMap, served, counted, count, excused>>
    <3>1. Accounted'
      BY <2>1, <2>5, <2>6 DEF SSMInv, Accounted, TypeOK
    <3>2. ServedAsListed'
      BY SMTT(30), <2>1, <2>6 DEF SSMInv, Down, ServedAsListed
    <3>3. TrafficCountedOnce' /\ Counted'
      BY <2>1, <2>6, BlankIsTyped, TornIsNoCache
      DEF SSMInv, Down, TrafficCountedOnce, Counted, Stored, FileAsSaved
    <3> QED
      BY <2>3, <2>4, <3>1, <3>2, <3>3 DEF SSMInv
  <2>7. CASE file' # None /\ DecodeCache
    <3>1. file' = file /\ file \in Caches /\ count' = file.count /\ count' \in Counts /\ usersMap' = file.users
          /\ counted' = {u \in Users : file.count[u] > 0}
          /\ \/ served' = file.users /\ excused' = excused \ {"refused"}
             \/ served' = {} /\ excused' = excused \cup {"refused"}
      BY <2>1, <2>2, <2>7 DEF DecodeCache, Caches, SSMInv, Down
    <3>2. Accounted'
      <4>1. file.users \subseteq Users
        BY <3>1 DEF Caches
      <4>2. \A u \in Users \ counted' : count'[u] = 0
        BY <3>1 DEF Counts, Counters
      <4> QED
        BY <2>1, <2>5, <3>1, <4>1, <4>2 DEF SSMInv, Accounted, TypeOK, Counts
    <3>3. ServedAsListed'
      BY <3>1 DEF ServedAsListed
    <3>4. TrafficCountedOnce' /\ Counted'
      BY <2>1, <3>1 DEF SSMInv, TrafficCountedOnce, Counted, Stored
    <3> QED
      BY <2>3, <2>4, <3>2, <3>3, <3>4 DEF SSMInv
  <2> QED
    BY <1>4, <2>6, <2>7 DEF Start, userVars
<1> QED
  BY <1>2, <1>3, <1>4

LEMMA SaveExcept ==
    ASSUME NEW v, NEW p, NEW l, NEW c,
           v = [pc |-> v.pc, left |-> v.left, count |-> v.count, users |-> v.users]
    PROVE  /\ [v EXCEPT !.pc = p] = [pc |-> p, left |-> v.left, count |-> v.count, users |-> v.users]
           /\ [v EXCEPT !.pc = p, !.left = l] = [pc |-> p, left |-> l, count |-> v.count, users |-> v.users]
           /\ [v EXCEPT !.left = l, !.count = c] = [pc |-> v.pc, left |-> l, count |-> c, users |-> v.users]
<1>1. [v EXCEPT !.pc = p] = [pc |-> p, left |-> v.left, count |-> v.count, users |-> v.users]
  OBVIOUS
<1>2. ASSUME NEW w, w = [pc |-> w.pc, left |-> w.left, count |-> w.count, users |-> w.users]
      PROVE  /\ [w EXCEPT !.left = l] = [pc |-> w.pc, left |-> l, count |-> w.count, users |-> w.users]
             /\ [w EXCEPT !.count = c] = [pc |-> w.pc, left |-> w.left, count |-> c, users |-> w.users]
  BY <1>2
<1>3. [v EXCEPT !.pc = p, !.left = l] = [[v EXCEPT !.pc = p] EXCEPT !.left = l]
      /\ [v EXCEPT !.left = l, !.count = c] = [[v EXCEPT !.left = l] EXCEPT !.count = c]
  OBVIOUS
<1> QED
  BY ZenonT(30), <1>1, <1>2, <1>3

\* loopSaveCache and Close save the cache.
LEMMA SSMSaveSteps ==
    ASSUME AccountsNamed, SSMInv,
           \/ SaveTick \/ Close \/ Wait
           \/ \E s \in Savers : EncodeCounter(s) \/ EncodeUsers(s)
    PROVE  SSMInv'
<1> USE DEF AccountsNamed, userVars, trafficVars, Goes
<1>1. UNCHANGED <<usersMap, served, counted, count, link, req, file, lastSavedCache, owed>>
  BY ZenonT(30) DEF SaveTick, Close, Wait, EncodeCounter, EncodeUsers
<1>2. /\ up # "down" /\ up' # "down"
      /\ excused \subseteq excused' /\ excused' \subseteq excused \cup {"late"}
  <2>1. up = "down" => \A s \in Savers : save[s].pc = "idle"
    BY SMTT(30), BlankIsTyped DEF SSMInv, Down
  <2>2. up # "down" /\ up' # "down"
    BY ZenonT(30), <2>1 DEF SaveTick, Close, Wait, EncodeCounter, EncodeUsers, Savers
  <2> QED
    BY ZenonT(30), <2>2 DEF SaveTick, Close, Wait, EncodeCounter, EncodeUsers, Late
<1>3. count \in Counts /\ usersMap \in SUBSET Users
  BY DEF SSMInv, Accounted, TypeOK, Counts
<1>4. SaveTyped(Begun) /\ Begun.pc = "encoding" /\ Begun.left = Users
      /\ SaveTyped(NoSave) /\ NoSave.pc = "idle"
  <2>1. Begun = [pc |-> "encoding", left |-> Users, count |-> NoSave.count, users |-> NoSave.users]
        /\ DOMAIN NoSave.count = {}
    <3>1. NoSave = [pc |-> NoSave.pc, left |-> NoSave.left, count |-> NoSave.count, users |-> NoSave.users]
      BY BlankIsTyped DEF SaveTyped
    <3>2. DOMAIN NoSave.count = {}
      BY DEF NoSave
    <3> QED
      BY ZenonT(30), <3>1, <3>2, SaveExcept DEF Begun
  <2>2. SaveTyped(Begun) /\ Begun.pc = "encoding" /\ Begun.left = Users
    BY <2>1 DEF SaveTyped
  <2> QED
    BY SMTT(30), <2>2, BlankIsTyped
<1>5. Accounted'
  <2>1. up' \in {"down", "up", "closing"}
    BY ZenonT(30), <1>2 DEF SaveTick, Close, Wait, EncodeCounter, EncodeUsers, SSMInv, Accounted, TypeOK
  <2> QED
    BY SMTT(30), <1>1, <2>1 DEF SSMInv, Accounted, TypeOK
<1>6. ASSUME NEW s \in Savers, NEW v, save' = [save EXCEPT ![s] = v], SaveTyped(v), v.pc \notin {"writing", "done"},
             s = "close" => \/ v.pc = "encoding" /\ up = "up" /\ up' = "closing"
                            \/ v.pc # "idle" /\ up' = up /\ save[s].pc # "idle",
             s = "loop" => up' = up,
             save[s].pc # "writing"
      PROVE  /\ Saving' /\ Down' /\ FileAsSaved'
             /\ save'[s] = v /\ \A w \in Savers \ {s} : save'[w] = save[w]
  <2>1. /\ DOMAIN save' = Savers /\ save'[s] = v
        /\ \A w \in Savers \ {s} : save'[w] = save[w]
    BY <1>6 DEF SSMInv, Saving
  <2>2. Saving'
    BY SMTT(30), <1>1, <1>6, <2>1 DEF SSMInv, Saving, Savers
  <2>3. Down' /\ FileAsSaved'
    BY SMTT(30), <1>1, <1>2, <1>6, <2>1 DEF SSMInv, Down, FileAsSaved, Savers
  <2> QED
    BY <2>1, <2>2, <2>3
<1>7. ASSUME Saving', Down', FileAsSaved', Closing' PROVE SSMInv'
  BY <1>1, <1>2, <1>5, <1>7 DEF SSMInv, ServedAsListed, TrafficCountedOnce, Counted, Stored
<1>8. CASE SaveTick
  <2>1. Saving' /\ Down' /\ FileAsSaved'
    BY ZenonT(30), <1>4, <1>6, <1>8 DEF SaveTick, Savers
  <2>2. Closing'
    BY <1>8 DEF SaveTick, Late, Closing
  <2> QED
    BY <1>7, <2>1, <2>2
<1>9. CASE Close
  <2>1. save["close"].pc = "idle" /\ up = "up" /\ up' = "closing"
    BY <1>9 DEF Close, SSMInv, Saving
  <2>2. /\ Saving' /\ Down' /\ FileAsSaved'
        /\ save'["close"] = Begun /\ save'["loop"] = save["loop"]
    <3>1. /\ save' = [save EXCEPT !["close"] = Begun] /\ "close" \in Savers /\ "loop" \in Savers
      BY <1>9 DEF Close, Savers
    <3>2. /\ Saving' /\ Down' /\ FileAsSaved'
          /\ save'["close"] = Begun /\ \A w \in Savers \ {"close"} : save'[w] = save[w]
      <4>1. Begun.pc \notin {"writing", "done"} /\ save["close"].pc # "writing"
        BY <1>4, <2>1
      <4>2. SaveTyped(Begun) /\ Begun.pc = "encoding"
        BY <1>4
      <4> HIDE DEF Begun
      <4> QED
        BY ZenonT(30), <1>6, <2>1, <3>1, <4>1, <4>2
    <3> QED
      BY <3>1, <3>2
  <2>3. Closing'
    BY <1>4, <1>9, <2>2 DEF Close, Closing
  <2> QED
    BY <1>7, <2>2, <2>3
<1>10. CASE Wait
  <2>1. /\ Saving' /\ Down' /\ FileAsSaved'
        /\ save'["loop"] = NoSave /\ save'["close"] = save["close"] /\ up' = up
    BY ZenonT(30), <1>4, <1>6, <1>10 DEF Wait, Savers
  <2>2. Closing'
    BY <1>1, <1>4, <1>10, <2>1 DEF Wait, SSMInv, Closing
  <2> QED
    BY <1>7, <2>1, <2>2
<1>11. ASSUME NEW s \in Savers, EncodeCounter(s) PROVE SSMInv'
  <2>1. PICK u \in save[s].left :
          save' = [save EXCEPT ![s] = [save[s] EXCEPT !.left = @ \ {u},
                     !.count = [k \in DOMAIN @ \cup {u} |-> IF k = u THEN count[u] ELSE @[k]]]]
    BY ZenonT(30), <1>11 DEF EncodeCounter
  <2> DEFINE c == [k \in DOMAIN save[s].count \cup {u} |-> IF k = u THEN count[u] ELSE save[s].count[k]]
             v == [save[s] EXCEPT !.left = @ \ {u}, !.count = c]
  <2>2. SaveTyped(save[s]) /\ save[s].pc = "encoding" /\ up' = up /\ excused' = excused
    BY ZenonT(30), <1>11 DEF EncodeCounter, SSMInv, Saving
  <2>3. save' = [save EXCEPT ![s] = v]
    BY <2>1
  <2>4. v = [pc |-> "encoding", left |-> save[s].left \ {u}, count |-> c, users |-> save[s].users]
    <3> HIDE DEF c
    <3>1. save[s] = [pc |-> save[s].pc, left |-> save[s].left, count |-> save[s].count, users |-> save[s].users]
      BY <2>2 DEF SaveTyped
    <3>2. v = [save[s] EXCEPT !.left = save[s].left \ {u}, !.count = c]
      OBVIOUS
    <3>3. [save[s] EXCEPT !.left = save[s].left \ {u}, !.count = c]
            = [pc |-> save[s].pc, left |-> save[s].left \ {u}, count |-> c, users |-> save[s].users]
      BY <3>1, SaveExcept, Zenon
    <3> QED
      BY SMTT(30), <2>2, <3>2, <3>3
  <2>5. /\ DOMAIN c = Users \ (save[s].left \ {u}) /\ u \in Users /\ save[s].left \subseteq Users
        /\ \A k \in Users \ (save[s].left \ {u}) : c[k] = IF k = u THEN count[u] ELSE save[s].count[k]
        /\ \A k \in Users : count[k] \in 0 .. MaxBytes
    BY <1>3, <2>2 DEF SaveTyped, Counts, Counters
  <2> HIDE DEF c
  <2>6. v.pc = "encoding" /\ v.left = save[s].left \ {u} /\ v.count = c /\ v.users = save[s].users
        /\ v = [pc |-> v.pc, left |-> v.left, count |-> v.count, users |-> v.users]
    BY ZenonT(30), <2>4
  <2> HIDE DEF v
  <2>7. SaveTyped(v)
    BY <2>2, <2>5, <2>6 DEF SaveTyped
  <2>8. /\ Saving' /\ Down' /\ FileAsSaved'
        /\ save'[s] = v /\ \A w \in Savers \ {s} : save'[w] = save[w]
    BY ZenonT(30), <1>6, <2>2, <2>3, <2>6, <2>7
  <2>9. Closing'
    BY <1>1, <2>2, <2>5, <2>6, <2>8 DEF SSMInv, Closing, Savers
  <2> QED
    BY <1>7, <2>8, <2>9
<1>12. ASSUME NEW s \in Savers, EncodeUsers(s) PROVE SSMInv'
  <2> DEFINE c == [k \in Counters |-> IF k = Global THEN count[k] ELSE save[s].count[k]]
             v == [pc |-> "encoded", left |-> {}, count |-> c, users |-> usersMap]
  <2>1. /\ SaveTyped(save[s]) /\ save[s].pc = "encoding" /\ save[s].left = {} /\ up' = up /\ excused' = excused
        /\ save' = [save EXCEPT ![s] = v]
    BY SMTT(30), <1>12 DEF EncodeUsers, SSMInv, Saving
  <2>2. c \in Counts /\ \A k \in Users : c[k] = save[s].count[k]
    BY SMTT(30), <1>3, <2>1 DEF SaveTyped, Counts, Counters
  <2>3. ASSUME \A u \in Users : save[s].count[u] = count[u] PROVE c = count
    BY SMTT(30), <1>3, <2>3 DEF Counts, Counters
  <2> HIDE DEF c
  <2>4. SaveTyped(v) /\ v.pc = "encoded" /\ v.count = c /\ v.users = usersMap
    BY SMTT(30), <1>3, <2>2 DEF SaveTyped
  <2> HIDE DEF v
  <2>5. /\ Saving' /\ Down' /\ FileAsSaved'
        /\ save'[s] = v /\ \A w \in Savers \ {s} : save'[w] = save[w]
    BY ZenonT(30), <1>6, <2>1, <2>4
  <2>6. Closing'
    BY <1>1, <2>1, <2>3, <2>4, <2>5 DEF SSMInv, Closing, Savers
  <2> QED
    BY <1>7, <2>5, <2>6
<1> QED
  BY <1>8, <1>9, <1>10, <1>11, <1>12

\* saveCache and writeCache.
LEMMA SSMWriteSteps ==
    ASSUME AccountsNamed, SSMInv, NEW s \in Savers, SaveCache(s) \/ WriteCache(s)
    PROVE  SSMInv'
<1> USE DEF AccountsNamed, userVars, trafficVars, Goes
<1>1. UNCHANGED <<up, usersMap, served, counted, count, link, req, owed>>
  BY DEF SaveCache, WriteCache
<1>2. /\ SaveTyped(save[s]) /\ save[s].pc \in {"encoded", "writing"} /\ up # "down"
      /\ Content(s) \in Caches /\ Content(s) # None /\ Content(s) # Torn
  <2>1. SaveTyped(save[s]) /\ save[s].pc \in {"encoded", "writing"}
    BY DEF SaveCache, WriteCache, SSMInv, Saving
  <2>2. Content(s) \in Caches
    BY <2>1 DEF SaveTyped, Content, Caches
  <2>3. up = "down" => save[s].pc = "idle"
    BY BlankIsTyped DEF SSMInv, Down
  <2> QED
    BY <2>1, <2>2, <2>3, TornIsNoCache
<1>3. ASSUME NEW v, SaveTyped(v), v.pc \in {"done", "writing"}, save' = [save EXCEPT ![s] = v]
      PROVE  /\ DOMAIN save' = Savers /\ save'[s] = v
             /\ \A w \in Savers \ {s} : save'[w] = save[w]
             /\ \A w \in Savers : SaveTyped(save'[w])
             /\ save'["close"].pc # "idle" <=> up' = "closing"
  BY <1>1, <1>2, <1>3 DEF SSMInv, Saving, Savers
<1>4. SaveTyped([NoSave EXCEPT !.pc = "done"]) /\ [NoSave EXCEPT !.pc = "done"].pc = "done"
  <2>1. [NoSave EXCEPT !.pc = "done"] = [pc |-> "done", left |-> NoSave.left, count |-> NoSave.count, users |-> NoSave.users]
    BY ZenonT(30), SaveExcept, BlankIsTyped DEF SaveTyped
  <2> QED
    BY SMTT(30), <2>1 DEF SaveTyped
<1>5. up = "closing" /\ "late" \notin excused => s = "close" /\ Content(s) = [count |-> count, users |-> usersMap]
  BY <1>2 DEF SSMInv, Closing, Content, Savers
<1>6. \A w \in Savers \ {s} : save[w].pc # "writing"
  BY DEF SaveCache, WriteCache, SSMInv, Saving, Savers
<1>7. CASE SaveCache(s) /\ SameAsSaved(s) /\ save' = [save EXCEPT ![s] = [NoSave EXCEPT !.pc = "done"]]
           /\ UNCHANGED file
  <2>1. UNCHANGED <<lastSavedCache, excused>> /\ lastSavedCache = Content(s)
        /\ save[s].pc = "encoded"
    BY <1>7 DEF SaveCache, SameAsSaved
  <2>2. /\ DOMAIN save' = Savers /\ save'[s].pc = "done"
        /\ \A w \in Savers \ {s} : save'[w] = save[w]
        /\ \A w \in Savers : SaveTyped(save'[w])
        /\ save'["close"].pc # "idle" <=> up' = "closing"
    BY ZenonT(30), <1>3, <1>4, <1>7
  <2>3. Saving' /\ Down' /\ Closing'
    BY <1>1, <1>2, <1>5, <1>7, <2>1, <2>2 DEF SSMInv, Saving, Down, Closing, Savers
  <2>4. FileAsSaved'
    BY <1>1, <1>2, <1>5, <1>6, <1>7, <2>1, <2>2 DEF SSMInv, Saving, FileAsSaved, Savers
  <2>5. Accounted' /\ ServedAsListed' /\ TrafficCountedOnce' /\ Counted'
    BY <1>1, <1>2, <1>7, <2>1 DEF SSMInv, Accounted, TypeOK, ServedAsListed, TrafficCountedOnce, Counted, Stored
  <2> QED
    BY <2>3, <2>4, <2>5 DEF SSMInv
<1>8. CASE SaveCache(s) /\ save' = [save EXCEPT ![s] = [save[s] EXCEPT !.pc = "writing"]] /\ file' = Torn
  <2>1. UNCHANGED <<lastSavedCache, excused>> /\ save[s].pc = "encoded"
    BY <1>8 DEF SaveCache
  <2> DEFINE v == [save[s] EXCEPT !.pc = "writing"]
  <2>2. v = [pc |-> "writing", left |-> save[s].left, count |-> save[s].count, users |-> save[s].users]
    BY <1>2 DEF SaveTyped
  <2>3. SaveTyped(v) /\ v.pc = "writing" /\ v.count = save[s].count /\ v.users = save[s].users
    BY <1>2, <2>1, <2>2 DEF SaveTyped
  <2> HIDE DEF v
  <2>4. /\ DOMAIN save' = Savers /\ save'[s] = v
        /\ \A w \in Savers \ {s} : save'[w] = save[w]
        /\ \A w \in Savers : SaveTyped(save'[w])
        /\ save'["close"].pc # "idle" <=> up' = "closing"
    BY ZenonT(30), <1>3, <1>8, <2>3 DEF v
  <2>5. Saving' /\ Down'
    BY <1>1, <1>2, <1>6, <1>8, <2>1, <2>3, <2>4 DEF SSMInv, Saving, Down, Savers
  <2>6. Closing'
    BY <1>1, <1>5, <2>1, <2>3, <2>4 DEF SSMInv, Closing, Savers
  <2>7. FileAsSaved'
    <3>1. save'["close"].pc = "done" => s = "loop" /\ up = "closing"
      BY SMTT(30), <1>1, <2>3, <2>4 DEF Savers
    <3> QED
      BY <1>1, <1>2, <1>5, <2>1, <2>3, <2>4, <3>1 DEF SSMInv, FileAsSaved, Savers
  <2>8. Accounted' /\ ServedAsListed' /\ TrafficCountedOnce' /\ Counted'
    BY <1>1, <1>2, <2>1 DEF SSMInv, Accounted, TypeOK, ServedAsListed, TrafficCountedOnce, Counted, Stored
  <2> QED
    BY <2>5, <2>6, <2>7, <2>8 DEF SSMInv
<1>9. CASE WriteCache(s)
  <2>1. /\ \/ /\ file' = Content(s) /\ lastSavedCache' = Content(s)
              /\ excused' = excused \ {"unwritten"}
           \/ /\ UNCHANGED <<file, lastSavedCache>>
              /\ excused' = excused \cup {"unwritten"}
        /\ save' = [save EXCEPT ![s] = [NoSave EXCEPT !.pc = "done"]]
        /\ save[s].pc = "writing"
    BY <1>9 DEF WriteCache
  <2>2. /\ DOMAIN save' = Savers /\ save'[s].pc = "done"
        /\ \A w \in Savers \ {s} : save'[w] = save[w]
        /\ \A w \in Savers : SaveTyped(save'[w])
        /\ save'["close"].pc # "idle" <=> up' = "closing"
    BY ZenonT(30), <1>3, <1>4, <2>1
  <2>3. Saving' /\ Down'
    BY <1>1, <1>2, <2>1, <2>2 DEF SSMInv, Saving, Down, Savers
  <2>4. Closing'
    BY <1>1, <1>5, <2>1, <2>2 DEF SSMInv, Closing, Savers
  <2>5. FileAsSaved'
    BY <1>1, <1>2, <1>5, <2>1, <2>2 DEF SSMInv, Saving, FileAsSaved, Savers
  <2>6. Accounted' /\ ServedAsListed'
    BY <1>1, <2>1 DEF SSMInv, Accounted, TypeOK, ServedAsListed
  <2>7. TrafficCountedOnce' /\ Counted'
    BY <1>1, <1>2, <2>1 DEF SSMInv, TrafficCountedOnce, Counted, Stored
  <2> QED
    BY <2>3, <2>4, <2>5, <2>6, <2>7 DEF SSMInv
<1> QED
  BY <1>7, <1>8, <1>9 DEF SaveCache

LEMMA SSMInductive == ASSUME AccountsNamed, SSMInv, [Next]_(ssmVars) PROVE SSMInv'
<1>1. CASE UNCHANGED ssmVars
  <2> USE <1>1 DEF ssmVars, userVars, trafficVars, cacheVars, SSMInv
  <2>1. Accounted' /\ Counted'
    BY DEF Accounted, TypeOK, Counted
  <2>2. Saving' /\ Down' /\ Closing'
    BY DEF Saving, Down, Closing
  <2>3. ServedAsListed' /\ TrafficCountedOnce' /\ FileAsSaved'
    BY DEF ServedAsListed, TrafficCountedOnce, Stored, FileAsSaved
  <2> QED
    BY <2>1, <2>2, <2>3
<1> QED
  BY <1>1, SSMTracker, SSMRequests, SSMProcess, SSMSaveSteps, SSMWriteSteps DEF Next

\* Across users that come and go, overlapping clearing reads, saves and clean
\* restarts: every unit of traffic is handed out once, the inbound serves the
\* users the API lists, and the file is what the service last saved
\* (TrafficManager, UserManager.postUpdate, Service.saveCache).
THEOREM AccountsKeptHolds == ASSUME AccountsNamed PROVE Spec => []AccountsKept
<1>1. Init => SSMInv
  BY SSMInit
<1>2. SSMInv /\ [Next]_(ssmVars) => SSMInv'
  BY SSMInductive
<1>3. SSMInv => AccountsKept
  BY DEF SSMInv, Accounted, AccountsKept
<1> QED
  BY <1>1, <1>2, <1>3, PTL DEF Spec
=============================================================================
