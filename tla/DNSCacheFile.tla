---------------------------- MODULE DNSCacheFile ----------------------------
(***************************************************************************)
(* The persistent DNS cache (experimental/cachefile/dns_cache.go): saves   *)
(* are queued in a map and written to the file by one goroutine per key,   *)
(* loads look into the map first, ClearDNSCache empties the map and then   *)
(* the file, and a ticker removes what has expired from the file.          *)
(*                                                                         *)
(* The saves are numbered; the number stands for the message, and for the  *)
(* goroutine the save may start.                                           *)
(***************************************************************************)
EXTENDS Integers

CONSTANTS
    Keys,
    MaxSaves,  \* bound: saves
    None

VARIABLES
    saves,         \* the saves so far
    saveDNSCache,  \* c.saveDNSCache: the queued message and its sequence number
    file,          \* the message in the file
    flusher,       \* each goroutine of flushPendingDNSCacheWith
    clearing,      \* ClearDNSCache has emptied the map and not yet the file
    newest,        \* the message saved last since the cache was cleared, unless removed
    excused        \* the keys whose save failed or met the clearing, or that a
                   \* clearing failed to remove

vars == <<saves, saveDNSCache, file, flusher, clearing, newest, excused>>

Flushers == 1..MaxSaves
Idle == [pc |-> "idle", key |-> None, entry |-> None, failed |-> FALSE]

TypeOK ==
    /\ saves \in 0..MaxSaves
    /\ saveDNSCache \in [Keys -> [message : Flushers, sequence : Flushers] \cup {None}]
    /\ file \in [Keys -> Flushers \cup {None}]
    /\ \A g \in Flushers : flusher[g].pc \in {"idle", "read", "save", "check", "done"}
    /\ clearing \in BOOLEAN
    /\ newest \in [Keys -> Flushers \cup {None}]
    /\ excused \subseteq Keys

Init ==
    /\ saves = 0
    /\ saveDNSCache = [k \in Keys |-> None]
    /\ file = [k \in Keys |-> None]
    /\ flusher = [g \in Flushers |-> Idle]
    /\ clearing = FALSE
    /\ newest = [k \in Keys |-> None]
    /\ excused = {}

Flushing(k) == \E g \in Flushers : flusher[g].key = k /\ flusher[g].pc \notin {"idle", "done"}

-----------------------------------------------------------------------------
\* SaveDNSCacheAsync: the queued entry is replaced under the lock, and a
\* goroutine started unless one is saving the key.
SaveDNSCacheAsync(k) ==
    /\ saves < MaxSaves
    /\ saves' = saves + 1
    /\ saveDNSCache' = [saveDNSCache EXCEPT ![k] =
         [message |-> saves + 1, sequence |-> IF @ = None THEN 1 ELSE @.sequence + 1]]
    /\ flusher' = IF saveDNSCache[k] # None THEN flusher
                  ELSE [flusher EXCEPT ![saves + 1] = [Idle EXCEPT !.pc = "read", !.key = k]]
    /\ newest' = [newest EXCEPT ![k] = saves + 1]
    /\ excused' = IF clearing THEN excused \cup {k}
                  ELSE IF Flushing(k) THEN excused ELSE excused \ {k}
    /\ UNCHANGED <<file, clearing>>

FlushRead(g) ==
    /\ flusher[g].pc = "read"
    /\ LET e == saveDNSCache[flusher[g].key]
       IN  flusher' = [flusher EXCEPT ![g].entry = e,
                                      ![g].pc = IF e = None THEN "done" ELSE "save"]
    /\ UNCHANGED <<saves, saveDNSCache, file, clearing, newest, excused>>

\* The transaction that writes the file; its error is only logged.
SaveDNSCache(g) ==
    /\ flusher[g].pc = "save"
    /\ \/ /\ file' = [file EXCEPT ![flusher[g].key] = flusher[g].entry.message]
          /\ flusher' = [flusher EXCEPT ![g].pc = "check", ![g].failed = FALSE]
       \/ /\ flusher' = [flusher EXCEPT ![g].pc = "check", ![g].failed = TRUE]
          /\ UNCHANGED file
    /\ UNCHANGED <<saves, saveDNSCache, clearing, newest, excused>>

\* Fault: the entry is taken for saved whatever was queued meanwhile.
SavedAnyway(g, e) == TRUE

Saved(g, e) == e.sequence = flusher[g].entry.sequence

\* Fault: the goroutine leaves the newer entry to nobody.
GiveUp == "done"

Again == "read"

\* The entry is removed if it is still the one that was saved.
FlushCheck(g) ==
    /\ flusher[g].pc = "check"
    /\ LET k == flusher[g].key
           e == saveDNSCache[k]
       IN  IF e # None /\ ~Saved(g, e)
           THEN /\ flusher' = [flusher EXCEPT ![g].pc = Again]
                /\ UNCHANGED <<saveDNSCache, excused>>
           ELSE /\ flusher' = [flusher EXCEPT ![g].pc = "done"]
                /\ saveDNSCache' = [saveDNSCache EXCEPT ![k] = None]
                /\ excused' = IF flusher[g].failed THEN excused \cup {k} ELSE excused
    /\ UNCHANGED <<saves, file, clearing, newest>>

\* ClearDNSCache, in its two steps.
ClearPending ==
    /\ ~clearing /\ clearing' = TRUE
    /\ saveDNSCache' = [k \in Keys |-> None]
    /\ excused' = excused \cup {k \in Keys : Flushing(k)}
    /\ UNCHANGED <<saves, file, flusher, newest>>

ClearFile ==
    /\ clearing /\ clearing' = FALSE
    /\ file' = [k \in Keys |-> None]
    /\ newest' = [k \in Keys |-> None]
    /\ UNCHANGED <<saves, saveDNSCache, flusher, excused>>

\* The transaction fails after the map is emptied, and the error is returned.
ClearFails ==
    /\ clearing /\ clearing' = FALSE
    /\ excused' = Keys
    /\ UNCHANGED <<saves, saveDNSCache, file, flusher, newest>>

\* The messages that have expired are removed in a transaction, here one by
\* one.  One that was written just now is still queued.
cleanupDNSCache(k) ==
    /\ file[k] # None
    /\ file' = [file EXCEPT ![k] = None]
    /\ newest' = IF Flushing(k) THEN newest ELSE [newest EXCEPT ![k] = None]
    /\ excused' = IF \E g \in Flushers : flusher[g].key = k /\ flusher[g].pc = "check"
                  THEN excused \cup {k} ELSE excused
    /\ UNCHANGED <<saves, saveDNSCache, flusher, clearing>>

Next ==
    \/ \E k \in Keys : SaveDNSCacheAsync(k) \/ cleanupDNSCache(k)
    \/ \E g \in Flushers : FlushRead(g) \/ SaveDNSCache(g) \/ FlushCheck(g)
    \/ ClearPending \/ ClearFile \/ ClearFails

Spec == Init /\ [][Next]_vars

-----------------------------------------------------------------------------
LoadDNSCache(k) ==
    IF saveDNSCache[k] # None THEN saveDNSCache[k].message ELSE file[k]

\* A load gives the message saved last, in the map or in the file, whatever
\* saves overlapped, or none once that is cleared or expired, unless a write or
\* the clearing failed or either removal came between a save and its end.
NewestLoaded == ~clearing => \A k \in Keys \ excused : LoadDNSCache(k) = newest[k]

\* A queued message always has a goroutine that will write it.
NoStuckEntry == \A k \in Keys : saveDNSCache[k] # None => Flushing(k)

\* Both: SaveDNSCacheAsync and its goroutines lose no save and give back none
\* but the last.
CacheFlushes == NewestLoaded /\ NoStuckEntry
=============================================================================
