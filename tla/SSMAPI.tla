------------------------------- MODULE SSMAPI -------------------------------
(***************************************************************************)
(* The Shadowsocks manager service (service/ssmapi) for one managed        *)
(* inbound: the users and their traffic counters, the HTTP handlers that   *)
(* read and change them, and the cache file that carries both across a     *)
(* restart.  A handler takes a lock per call it makes and none across them. *)
(* encodeCache takes no lock at all and reads the maps while they change,  *)
(* for which the Go runtime may also end the process (Crash).              *)
(*                                                                         *)
(* The six counters of a user are created, kept, read and stored alike;    *)
(* the bytes stand for all of them.  The cache path is set, and users have *)
(* passwords: encodeCache leaves one without a password out.               *)
(***************************************************************************)
EXTENDS Integers, FiniteSets

CONSTANTS
    Users, Global,    \* who is counted: each user, and the server as a whole
    Links,            \* connections the inbound hands to the tracker
    Requests,         \* HTTP requests in flight
    None,
    MaxBytes          \* bound: how many units may be waiting to be read

VARIABLES
    up,               \* "down", "up", or "closing" (Close has begun)
    usersMap,         \* the users in UserManager.usersMap
    served,           \* the users the inbound accepts
    counted,          \* the users with an entry in the counter maps
    count,            \* the counters
    link,             \* per connection: its user, and the counter it holds
    req,              \* per request: what is left of it
    save,             \* per caller of saveCache: where it is, and what it has encoded
    file, lastSavedCache,
    owed,             \* history: units carried and not yet handed out by a clearing read;
                      \* those of a deleted user are owed to nobody
    excused           \* history: what has happened that the code does not make up for

trafficVars == <<counted, count, link>>
userVars == <<usersMap, served>>
cacheVars == <<save, file, lastSavedCache>>
ssmVars == <<up, userVars, trafficVars, req, cacheVars, owed, excused>>

Counters == Users \cup {Global}
Savers == {"loop", "close"}
NoSave == [pc |-> "idle", left |-> {}, count |-> <<>>, users |-> {}]
Torn == [count |-> <<>>, users |-> {}]    \* a file that does not decode

TypeOK ==
    /\ up \in {"down", "up", "closing"}
    /\ usersMap \subseteq Users /\ served \subseteq Users /\ counted \subseteq Users
    /\ count \in [Counters -> 0 .. MaxBytes]
    /\ \A u \in Users \ counted : count[u] = 0

\* What a process that has just begun, or has just ended, holds.
Blank ==
    [up |-> "down", users |-> {}, count |-> [k \in Counters |-> 0], link |-> [l \in Links |-> None],
     req |-> [r \in Requests |-> None], save |-> [s \in Savers |-> NoSave]]

Init ==
    /\ up = Blank.up /\ usersMap = Blank.users /\ served = Blank.users
    /\ counted = {} /\ count = Blank.count /\ link = Blank.link
    /\ req = Blank.req /\ save = Blank.save
    /\ file = None /\ lastSavedCache = None
    /\ owed = Blank.count
    /\ excused = {}

Ends ==
    /\ up' = Blank.up /\ usersMap' = Blank.users /\ served' = Blank.users
    /\ counted' = {} /\ count' = Blank.count /\ link' = Blank.link
    /\ req' = Blank.req /\ save' = Blank.save
    /\ lastSavedCache' = None
    /\ UNCHANGED <<file, owed>>

\* What happens while Close is under way may or may not reach the file.
Late == IF up = "closing" THEN {"late"} ELSE {}

-----------------------------------------------------------------------------
(* The tracker of the inbound. *)

\* The inbound accepts a connection of a user it knows, ...
Accept(l) ==
    /\ up # "down" /\ link[l] = None
    /\ \E u \in served : link' = [link EXCEPT ![l] = [user |-> u, counter |-> "none"]]
    /\ UNCHANGED <<up, userVars, counted, count, req, cacheVars, owed, excused>>

\* ... and hands it to the tracker, by when the user may have been deleted:
\* userCounter gives it the counter in the map, a new one if there is none.
TrackConnection(l) ==
    /\ link[l] # None /\ link[l].counter = "none"
    /\ link' = [link EXCEPT ![l].counter = "mapped"]
    /\ counted' = counted \cup {link[l].user}
    /\ UNCHANGED <<up, userVars, count, req, cacheVars, owed, excused>>

\* Traffic goes to the global counter and to the counter the session holds,
\* which UpdateUsers may have taken out of the map.
Transfer(l) ==
    /\ link[l] # None /\ link[l].counter # "none"
    /\ LET to == IF link[l].counter = "mapped" THEN {link[l].user, Global} ELSE {Global}
       IN /\ \A k \in to : count[k] < MaxBytes
          /\ count' = [k \in Counters |-> IF k \in to THEN count[k] + 1 ELSE count[k]]
          /\ owed' = [k \in Counters |-> IF k \in to THEN owed[k] + 1 ELSE owed[k]]
    /\ excused' = excused \cup Late
    /\ UNCHANGED <<up, userVars, counted, link, req, cacheVars>>

Disconnect(l) ==
    /\ link[l] # None
    /\ link' = [link EXCEPT ![l] = None]
    /\ UNCHANGED <<up, userVars, counted, count, req, cacheVars, owed, excused>>

-----------------------------------------------------------------------------
(* The user manager. *)

\* Fault: every user gets a new counter.
FreshCounters(users) == {}

\* TrafficManager.UpdateUsers: the listed users that had a counter keep it.
KeptCounters(users) == counted \cap users

\* postUpdate(true): the inbound may refuse the list, and then the counters
\* stay as they are and the call fails with usersMap already changed.
PostUpdate(users) ==
    /\ usersMap' = users
    /\ \/ /\ served' = users
          /\ counted' = KeptCounters(users)
          /\ count' = [k \in Counters |-> IF k \in counted' \cup {Global} THEN count[k] ELSE 0]
          /\ link' = [l \in Links |-> IF link[l] # None /\ link[l].counter = "mapped" /\ link[l].user \notin counted'
                                      THEN [link[l] EXCEPT !.counter = "dropped"] ELSE link[l]]
          /\ owed' = [k \in Counters |-> IF k \in users \cup {Global} THEN owed[k] ELSE 0]
          /\ excused' = (excused \ {"refused"}) \cup Late
       \/ /\ excused' = excused \cup Late \cup {"refused"}
          /\ UNCHANGED <<served, counted, count, link, owed>>

-----------------------------------------------------------------------------
(* The HTTP handlers. *)

Idle(r) == up # "down" /\ req[r] = None
Then(r, rest) == req' = [req EXCEPT ![r] = rest]

\* addUser: one call of the user manager.
AddUser(r) ==
    /\ Idle(r)
    /\ \E u \in Users \ usersMap : PostUpdate(usersMap \cup {u})
    /\ UNCHANGED <<up, req, cacheVars>>

\* updateUser and deleteUser ask whether the user is there, ...
FindUser(r) ==
    /\ Idle(r)
    /\ \E u \in usersMap, op \in {"update", "delete"} : Then(r, [op |-> op, user |-> u])
    /\ UNCHANGED <<up, userVars, trafficVars, cacheVars, owed, excused>>

\* ... and then change it, which by then may be gone or there again.
ChangeUser(r) ==
    /\ req[r] # None
    /\ \/ req[r].op = "update" /\ PostUpdate(usersMap \cup {req[r].user})
       \/ req[r].op = "delete" /\ PostUpdate(usersMap \ {req[r].user})
    /\ Then(r, None)
    /\ UNCHANGED <<up, cacheVars>>

\* counter.Swap(0) for each of the keys: the caller is given what was there.
Clear(keys) ==
    /\ owed' = [k \in Counters |-> IF k \in keys THEN owed[k] - count[k] ELSE owed[k]]
    /\ count' = [k \in Counters |-> IF k \in keys THEN 0 ELSE count[k]]
    /\ excused' = excused \cup Late

\* getStats with clear: the users are listed, ...
ListUsers(r) ==
    /\ Idle(r)
    /\ Then(r, [op |-> "users", user |-> usersMap])
    /\ UNCHANGED <<up, userVars, trafficVars, cacheVars, owed, excused>>

\* ... their counters are swapped under the counters' lock, ...
ReadUsers(r) ==
    /\ req[r] # None /\ req[r].op = "users"
    /\ Clear(req[r].user \cap counted)
    /\ Then(r, [op |-> "global", user |-> {}])
    /\ UNCHANGED <<up, userVars, counted, link, cacheVars>>

\* ... and then the global ones.
ReadGlobal(r) ==
    /\ req[r] # None /\ req[r].op = "global"
    /\ Clear({Global})
    /\ Then(r, None)
    /\ UNCHANGED <<up, userVars, counted, link, cacheVars>>

-----------------------------------------------------------------------------
(* The cache file. *)

Begun == [NoSave EXCEPT !.pc = "encoding", !.left = Users]
Goes(s, state) == save' = [save EXCEPT ![s] = state]

\* The ticker of loopSaveCache, whose select may still take it after Close.
SaveTick ==
    /\ up # "down" /\ save["loop"].pc = "idle"
    /\ Goes("loop", Begun)
    /\ excused' = excused \cup Late
    /\ UNCHANGED <<up, userVars, trafficVars, req, file, lastSavedCache, owed>>

\* Close cancels the loop, stops the ticker, and saves.
Close ==
    /\ up = "up"
    /\ up' = "closing"
    /\ Goes("close", Begun)
    /\ excused' = excused \cup
         (IF save["loop"].pc # "idle" \/ \E r \in Requests : req[r] # None THEN {"late"} ELSE {})
    /\ UNCHANGED <<userVars, trafficVars, req, file, lastSavedCache, owed>>

\* encodeCache reads one counter after the other, ...
EncodeCounter(s) ==
    /\ save[s].pc = "encoding"
    /\ \E u \in save[s].left :
         Goes(s, [save[s] EXCEPT !.left = @ \ {u},
                                 !.count = [k \in DOMAIN @ \cup {u} |-> IF k = u THEN count[u] ELSE @[k]]])
    /\ UNCHANGED <<up, userVars, trafficVars, req, file, lastSavedCache, owed, excused>>

\* ... then the users and the global counters.
EncodeUsers(s) ==
    /\ save[s].pc = "encoding" /\ save[s].left = {}
    /\ Goes(s, [pc |-> "encoded", left |-> {},
                count |-> [k \in Counters |-> IF k = Global THEN count[k] ELSE save[s].count[k]],
                users |-> usersMap])
    /\ UNCHANGED <<up, userVars, trafficVars, req, file, lastSavedCache, owed, excused>>

Content(s) == [count |-> save[s].count, users |-> save[s].users]

\* Fault: take the file for current once it has been written.
EverSaved(s) == lastSavedCache # None

\* bytes.Equal(s.lastSavedCache, cacheBinary)
SameAsSaved(s) == lastSavedCache = Content(s)

\* saveCache under cacheMutex: there is nothing to write, or WriteFile
\* truncates the file ...
SaveCache(s) ==
    /\ save[s].pc = "encoded"
    /\ \A t \in Savers : save[t].pc # "writing"
    /\ \/ SameAsSaved(s) /\ Goes(s, [NoSave EXCEPT !.pc = "done"]) /\ UNCHANGED file
       \/ ~SameAsSaved(s) /\ Goes(s, [save[s] EXCEPT !.pc = "writing"]) /\ file' = Torn
    /\ UNCHANGED <<up, userVars, trafficVars, req, lastSavedCache, owed, excused>>

\* ... and writes it, or fails and leaves it short.
WriteCache(s) ==
    /\ save[s].pc = "writing"
    /\ \/ /\ file' = Content(s) /\ lastSavedCache' = Content(s)
          /\ excused' = excused \ {"unwritten"}
       \/ /\ UNCHANGED <<file, lastSavedCache>>
          /\ excused' = excused \cup {"unwritten"}
    /\ Goes(s, [NoSave EXCEPT !.pc = "done"])
    /\ UNCHANGED <<up, userVars, trafficVars, req, owed>>

\* loopSaveCache waits for the next tick.
Wait ==
    /\ save["loop"].pc = "done"
    /\ Goes("loop", NoSave)
    /\ UNCHANGED <<up, userVars, trafficVars, req, file, lastSavedCache, owed, excused>>

\* Close returns, and the process ends.
Exit ==
    /\ up = "closing" /\ save["close"].pc = "done" /\ Ends
    /\ excused' = excused \cup (IF "unwritten" \in excused THEN {"lost"} ELSE {})

Crash == up # "down" /\ Ends /\ excused' = excused \cup {"lost"}

\* decodeCache, then postUpdate(false): the inbound may refuse the users of the
\* file, and that error is dropped.
DecodeCache ==
    /\ usersMap' = file.users
    /\ count' = file.count
    /\ counted' = {u \in Users : file.count[u] > 0}
    /\ \/ served' = file.users /\ excused' = excused \ {"refused"}
       \/ UNCHANGED served /\ excused' = excused \cup {"refused"}

\* Start: loadCache, which removes a file it cannot decode.
Start ==
    /\ up = "down" /\ up' = "up"
    /\ file' = IF file = Torn THEN None ELSE file
    /\ lastSavedCache' = file'
    /\ \/ file' = None /\ UNCHANGED <<userVars, counted, count, excused>>
       \/ file' # None /\ DecodeCache
    /\ UNCHANGED <<link, req, save, owed>>

Next ==
    \/ Start \/ SaveTick \/ Close \/ Wait \/ Exit \/ Crash
    \/ \E l \in Links : Accept(l) \/ TrackConnection(l) \/ Transfer(l) \/ Disconnect(l)
    \/ \E r \in Requests : \/ AddUser(r) \/ FindUser(r) \/ ChangeUser(r)
                           \/ ListUsers(r) \/ ReadUsers(r) \/ ReadGlobal(r)
    \/ \E s \in Savers : EncodeCounter(s) \/ EncodeUsers(s) \/ SaveCache(s) \/ WriteCache(s)

Spec == Init /\ [][Next]_ssmVars

-----------------------------------------------------------------------------
\* The inbound accepts exactly the users that the API lists, also after a
\* restart, unless it has refused the latest list (postUpdate).
ServedAsListed == up # "down" /\ "refused" \notin excused => served = usersMap

\* What is stored: the counters of a running service, the file of one that
\* has been closed.
Stored(k) == IF up # "down" THEN count[k] ELSE IF file = None THEN 0 ELSE file.count[k]

\* Every unit of traffic is handed out once by the clearing reads of getStats:
\* what they gave out and what is stored add up to what was carried, across
\* users that come and go, overlapping reads, saves and clean restarts.  Only a
\* crash, a write that failed, or what happens while Close is under way can
\* make it wrong, and only the traffic of a deleted user is dropped.
TrafficCountedOnce ==
    {"lost", "unwritten", "late"} \cap excused = {} =>
        \A k \in Counters : Stored(k) = owed[k]

\* The file is what lastSavedCache says; when Close has saved, it holds the
\* users and the counters of the service; and it is only found torn after a
\* crash, a failed write, or a process that ended in the middle of a late save
\* (saveCache, writeCache).
FileAsSaved ==
    /\ up # "down" /\ "unwritten" \notin excused /\ (\A s \in Savers : save[s].pc # "writing")
         => file = lastSavedCache
    /\ save["close"].pc = "done" /\ {"late", "unwritten"} \cap excused = {}
         => file = [count |-> count, users |-> usersMap]
    /\ up = "down" /\ file = Torn => {"lost", "late"} \cap excused # {}

\* The variables have their types, and the three hold together.
AccountsKept == TypeOK /\ TrafficCountedOnce /\ ServedAsListed /\ FileAsSaved
=============================================================================
