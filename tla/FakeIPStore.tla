---------------------------- MODULE FakeIPStore ----------------------------
(***************************************************************************)
(* The store of fake addresses (dns/transport/fakeip/store.go) over its    *)
(* storage, the cache file (experimental/cachefile/fakeip.go) or a map in  *)
(* memory: domains are given the addresses of a range in turn, the tables  *)
(* survive a restart, and so does the place in the range, if it was saved. *)
(*                                                                         *)
(* A transaction of the cache file is one action.  The process may be      *)
(* killed at any time.  The configured range may change with a restart.    *)
(*                                                                         *)
(* An address is a record of its family, its range and its number in it,   *)
(* from 0 to Size - 1, the broadcast address.                              *)
(***************************************************************************)
EXTENDS Integers, Sequences

CONSTANTS
    Domains,
    Families,   \* the families of addresses that a range is configured for
    Ranges,     \* the ranges the configuration may name
    Size,       \* the addresses of a range
    MaxStarts,  \* bound: starts of the process
    None

\* A range with a usable address.  NewStore does not refuse a smaller one, from
\* which Create takes addresses that are not in it (store.go:127).
ASSUME SizeSuffices == Size \in Nat /\ Size >= 4
ASSUME FamiliesKnown == Families \subseteq {"v4", "v6"}

VARIABLES
    storage,    \* "file" or "memory"
    phase,      \* of the process: "down", "up", "closing" once the store is closed
    starts,
    range,      \* s.inet4Range and s.inet6Range
    current,    \* s.inet4Current and s.inet6Current
    buckets,    \* the buckets of the file that exist
    domainOf,   \* bucketFakeIP: from addresses to domains
    addressOf,  \* bucketFakeIPDomain4 and bucketFakeIPDomain6
    metadata,   \* keyMetadata
    timer,      \* c.saveMetadataTimer: what it saves, and whether it will
    given,      \* the address that Create returned last
    order       \* per family, the last addresses taken from the range, in order

tables == <<buckets, domainOf, addressOf>>
vars == <<storage, phase, starts, range, current, tables, metadata, timer, given, order>>

Addresses == [fam : Families, range : Ranges, n : 0..(Size - 1)]

ASSUME NoneIsNothing == None \notin Domains \cup Addresses

Usable == 2..(Size - 2)
Turn == Size - 3  \* the number of them
Metadata == [range : Ranges, current : [Families -> 1..(Size - 2)]]
Buckets == {"address", "v4", "v6"}

TypeOK ==
    /\ storage \in {"file", "memory"}
    /\ phase \in {"down", "up", "closing"} /\ starts \in 0..MaxStarts
    /\ range \in Ranges
    /\ current \in [Families -> 1..(Size - 2)]
    /\ buckets \subseteq Buckets
    /\ domainOf \in [Addresses -> Domains \cup {None}]
    /\ addressOf \in [Families -> [Domains -> Addresses \cup {None}]]
    /\ metadata \in Metadata \cup {None}
    /\ timer \in [saves : Metadata, armed : BOOLEAN] \cup {None}
    /\ given \in Addresses \cup {None}
    /\ \A f \in Families : order[f] \in Seq(Usable) /\ Len(order[f]) <= Turn

NoDomains == [a \in Addresses |-> None]
NoAddresses == [f \in Families |-> [d \in Domains |-> None]]

Init ==
    /\ storage \in {"file", "memory"}
    /\ phase = "down" /\ starts = 0
    /\ range \in Ranges
    /\ current = [f \in Families |-> 1]
    /\ buckets = {} /\ domainOf = NoDomains /\ addressOf = NoAddresses
    /\ metadata = None /\ timer = None /\ given = None
    /\ order = [f \in Families |-> <<>>]

-----------------------------------------------------------------------------
(* The storage.                                                            *)

\* FakeIPReset deletes three buckets in one transaction, which fails and is
\* rolled back when one of them does not exist.
ResetSucceeds == storage = "memory" \/ Buckets \subseteq buckets

Emptied == buckets' = {} /\ domainOf' = NoDomains /\ addressOf' = NoAddresses

FakeIPReset == IF ResetSucceeds THEN Emptied ELSE UNCHANGED tables

\* Fault: the domain that had the address keeps its entry.
OldDomainKept(a, d) == [addressOf EXCEPT ![a.fam][d] = a]

AddressesWith(a, d) ==
    [addressOf EXCEPT ![a.fam][domainOf[a]] = None, ![a.fam][d] = a]

FakeIPStoreEntry(a, d) ==
    /\ domainOf' = [domainOf EXCEPT ![a] = d]
    /\ addressOf' = IF domainOf[a] = None THEN [addressOf EXCEPT ![a.fam][d] = a]
                    ELSE AddressesWith(a, d)
    /\ buckets' = buckets \cup {"address", a.fam}

FakeIPLoadDomain(d, f) == addressOf[f][d]

FakeIPLoad(a) == domainOf[a]

\* FakeIPMetadata deletes the saved place as it reads it.
FakeIPMetadata == metadata' = None

\* FakeIPSaveMetadata creates the bucket of the addresses if need be.
FakeIPSaveMetadata(data) ==
    IF storage = "memory" THEN UNCHANGED <<metadata, buckets>>
    ELSE metadata' = data /\ buckets' = buckets \cup {"address"}

\* FakeIPSaveMetadataAsync: the first call makes the timer, with a function
\* that saves what that call was given; later calls only restart it.
FakeIPSaveMetadataAsync(data) ==
    timer' = IF storage = "memory" THEN None
             ELSE IF timer = None THEN [saves |-> data, armed |-> TRUE]
             ELSE [timer EXCEPT !.armed = TRUE]

TimerFires ==
    /\ phase # "down" /\ timer # None /\ timer.armed
    /\ FakeIPSaveMetadata(timer.saves)
    /\ timer' = [timer EXCEPT !.armed = FALSE]
    /\ UNCHANGED <<storage, phase, starts, range, current, domainOf, addressOf, given, order>>

-----------------------------------------------------------------------------
(* The store.                                                              *)

\* Start takes the saved place, and with it the tables, if it was saved for
\* the same ranges.
Start(rg) ==
    /\ phase = "down" /\ starts < MaxStarts
    /\ phase' = "up" /\ starts' = starts + 1
    /\ range' = rg
    /\ FakeIPMetadata
    /\ IF metadata # None /\ metadata.range = rg
       THEN current' = metadata.current /\ UNCHANGED tables
       ELSE current' = [f \in Families |-> 1] /\ FakeIPReset
    /\ order' = [f \in Families |-> <<>>]
    /\ UNCHANGED <<storage, timer, given>>

\* Fault: at the end of the range the last address is given again.
LastAgain(n) == IF n + 1 >= Size - 1 THEN n ELSE n + 1

NextAddress(n) == IF n + 1 = Size - 1 \/ n + 1 >= Size THEN 2 ELSE n + 1

Pushed(s, n) ==
    IF Len(s) < Turn THEN Append(s, n) ELSE Append(Tail(s), n)

\* Create for a domain that has an address, before or under the lock.
CreateKnown(d, f) ==
    /\ phase = "up" /\ FakeIPLoadDomain(d, f) # None
    /\ given' = FakeIPLoadDomain(d, f)
    /\ UNCHANGED <<storage, phase, starts, range, current, tables, metadata, timer, order>>

\* Create for a new domain, under the lock.  If the storage reports an error
\* it is logged and the address returned all the same.
CreateNew(d, f) ==
    /\ phase = "up" /\ FakeIPLoadDomain(d, f) = None
    /\ LET n == NextAddress(current[f])
           a == [fam |-> f, range |-> range, n |-> n]
       IN  /\ current' = [current EXCEPT ![f] = n]
           /\ \/ FakeIPStoreEntry(a, d)
              \/ storage = "file" /\ UNCHANGED tables
           /\ given' = a
           /\ order' = [order EXCEPT ![f] = Pushed(@, n)]
           /\ FakeIPSaveMetadataAsync([range |-> range, current |-> current'])
    /\ UNCHANGED <<storage, phase, starts, range, metadata>>

\* flushFakeip of the Clash API, which goes to the cache file.
Flush ==
    /\ phase # "down" /\ storage = "file"
    /\ FakeIPReset
    /\ metadata' = IF ResetSucceeds THEN None ELSE metadata
    /\ UNCHANGED <<storage, phase, starts, range, current, timer, given, order>>

\* Close saves the place; the cache file, and the timer, live on until Exit.
Close ==
    /\ phase = "up"
    /\ phase' = "closing"
    /\ FakeIPSaveMetadata([range |-> range, current |-> current])
    /\ UNCHANGED <<storage, starts, range, current, domainOf, addressOf, timer, given, order>>

\* The process ends after Close, or is killed before it.
Exit ==
    /\ phase # "down"
    /\ phase' = "down" /\ timer' = None /\ given' = None
    /\ IF storage = "memory" THEN Emptied ELSE UNCHANGED tables
    /\ UNCHANGED <<storage, starts, range, current, metadata, order>>

Next ==
    \/ \E rg \in Ranges : Start(rg)
    \/ \E d \in Domains : \E f \in Families : CreateKnown(d, f) \/ CreateNew(d, f)
    \/ TimerFires \/ Flush \/ Close \/ Exit

Spec == Init /\ [][Next]_vars

-----------------------------------------------------------------------------
\* The two tables stay inverse to each other through reuse, restarts, kills
\* and flushes: an address that Create returned and stored leads back to the
\* domain, and to no other, for as long as the domain is given that address.
TablesInverse ==
    /\ \A f \in Families : \A d \in Domains : FakeIPLoadDomain(d, f) # None =>
         FakeIPLoadDomain(d, f).fam = f /\ FakeIPLoad(FakeIPLoadDomain(d, f)) = d
    /\ \A a \in Addresses : FakeIPLoad(a) # None => FakeIPLoadDomain(FakeIPLoad(a), a.fam) = a

\* Within the life of a process, an address is taken from the range again
\* only after all the others, so that a connection made shortly after a query
\* still finds the domain that was asked for.
ReusedInOrder ==
    \A f \in Families : \A i, j \in DOMAIN order[f] : order[f][i] = order[f][j] => i = j

\* The documentation of inet4_range: "IPv4 address range for FakeIP."
GivenInRange == given # None => given.range = range
=============================================================================
