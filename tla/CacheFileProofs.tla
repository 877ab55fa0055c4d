-------------------------- MODULE CacheFileProofs --------------------------
(***************************************************************************)
(* Proofs about what is kept on disk: the fakeip store, for every set of   *)
(* domains and every size of the ranges, the persistent DNS cache, for any *)
(* keys and any number of saves, flushing goroutines and clears, and the   *)
(* usage statistics, for any number of requests, saves and restarts.       *)
(***************************************************************************)
EXTENDS SavedState, TLAPS

\* The part of the state the theorems are about, and its types.
Typed ==
    /\ range \in Ranges
    /\ current \in [Families -> 1..(Size - 2)]
    /\ domainOf \in [Addresses -> Domains \cup {None}]
    /\ addressOf \in [Families -> [Domains -> Addresses \cup {None}]]
    /\ metadata \in Metadata \cup {None}
    /\ timer \in [saves : Metadata, armed : BOOLEAN] \cup {None}
    /\ order \in [Families -> Seq(Usable)]

\* The address k steps before the place n, going around the usable ones.
Back(n, k) == IF n - k >= 2 THEN n - k ELSE n - k + (Size - 3)

\* The addresses remembered are the last ones up to the current place.
Window ==
    \A f \in Families :
        /\ Len(order[f]) <= Size - 3
        /\ \A i \in 1..Len(order[f]) : order[f][i] = Back(current[f], Len(order[f]) - i)

Inv == Typed /\ TablesInverse /\ Window

-----------------------------------------------------------------------------
\* What Create takes from the range is usable.
LEMMA NextUsable ==
  ASSUME NEW n \in 1..(Size - 2)
  PROVE  NextAddress(n) \in Usable /\ NextAddress(n) \in 1..(Size - 2)
                                   /\ NextAddress(n) \in 0..(Size - 1)
  BY SizeSuffices DEF NextAddress, Usable

\* The place after the next one, seen from it, is the one before.
LEMMA BackOfNext ==
  ASSUME NEW n \in 1..(Size - 2), NEW k \in 0..(Size - 5), Back(n, k) \in Usable
  PROVE  Back(NextAddress(n), k + 1) = Back(n, k)
  BY SizeSuffices DEF Back, NextAddress, Usable

\* Fewer steps back than there are usable addresses meet none twice.
LEMMA BackInjective ==
  ASSUME NEW n \in 1..(Size - 2), NEW k \in 0..(Size - 4), NEW l \in 0..(Size - 4),
         Back(n, k) = Back(n, l)
  PROVE  k = l
  BY SizeSuffices DEF Back

\* Storing an entry keeps the tables typed and inverse.
LEMMA StoreKeepsInverse ==
  ASSUME Typed, TablesInverse, NEW a \in Addresses, NEW d \in Domains,
         addressOf[a.fam][d] = None, FakeIPStoreEntry(a, d)
  PROVE  /\ domainOf' \in [Addresses -> Domains \cup {None}]
         /\ addressOf' \in [Families -> [Domains -> Addresses \cup {None}]]
         /\ TablesInverse'
<1> DEFINE old == domainOf[a]
<1>1. a.fam \in Families /\ d \in Domains
  BY DEF Addresses
<1>2. domainOf' = [domainOf EXCEPT ![a] = d]
  BY DEF FakeIPStoreEntry
<1>3. domainOf' \in [Addresses -> Domains \cup {None}]
  BY <1>2 DEF Typed
<1>4. old # d
  BY NoneIsNothing DEF Typed, TablesInverse, FakeIPLoad, FakeIPLoadDomain
<1>5. /\ addressOf' \in [Families -> [Domains -> Addresses \cup {None}]]
      /\ \A f \in Families : \A e \in Domains : addressOf'[f][e] =
           IF f = a.fam /\ e = d THEN a
           ELSE IF f = a.fam /\ e = old THEN None ELSE addressOf[f][e]
  <2>1. CASE old = None
    BY <1>1, <2>1, NoneIsNothing DEF FakeIPStoreEntry, Typed
  <2>2. CASE old # None
    <3>1. addressOf' = [addressOf EXCEPT ![a.fam][old] = None, ![a.fam][d] = a]
      BY <2>2 DEF FakeIPStoreEntry, AddressesWith
    <3>2. old \in Domains
      BY <2>2 DEF Typed
    <3> QED
      BY ZenonT(30), <1>1, <1>4, <3>1, <3>2 DEF Typed
  <2> QED
    BY Zenon, <2>1, <2>2
<1>6. ASSUME NEW f \in Families, NEW e \in Domains, addressOf'[f][e] # None
      PROVE  addressOf'[f][e].fam = f /\ domainOf'[addressOf'[f][e]] = e
  <2>1. CASE f = a.fam /\ e = d
    BY <1>2, <1>5, <2>1 DEF Typed
  <2>2. CASE ~(f = a.fam /\ e = d)
    <3>1. addressOf'[f][e] = addressOf[f][e] /\ ~(f = a.fam /\ e = old)
      BY <1>5, <1>6, <2>2
    <3>2. addressOf[f][e] \in Addresses /\ addressOf[f][e].fam = f
                                       /\ domainOf[addressOf[f][e]] = e
      BY <1>6, <3>1 DEF Typed, TablesInverse, FakeIPLoad, FakeIPLoadDomain
    <3>3. addressOf[f][e] # a
      BY <3>1, <3>2
    <3> QED
      BY Zenon, <1>2, <3>1, <3>2, <3>3 DEF Typed
  <2> QED
    BY Zenon, <2>1, <2>2
<1>7. ASSUME NEW b \in Addresses, domainOf'[b] # None
      PROVE  addressOf'[b.fam][domainOf'[b]] = b
  <2>1. CASE b = a
    BY <1>1, <1>2, <1>5, <2>1 DEF Typed
  <2>2. CASE b # a
    <3>1. domainOf'[b] = domainOf[b] /\ domainOf[b] \in Domains /\ b.fam \in Families
      BY ZenonT(30), <1>2, <1>7, <2>2 DEF Typed, Addresses
    <3>2. addressOf[b.fam][domainOf[b]] = b
      BY <1>7, <3>1 DEF TablesInverse, FakeIPLoad, FakeIPLoadDomain
    <3>3. ~(b.fam = a.fam /\ domainOf[b] = d)
      BY <3>2, NoneIsNothing
    <3>4. ~(b.fam = a.fam /\ domainOf[b] = old)
      BY <1>7, <2>2, <3>1, <3>2 DEF TablesInverse, FakeIPLoad, FakeIPLoadDomain
    <3> QED
      BY <1>5, <3>1, <3>2, <3>3, <3>4
  <2> QED
    BY Zenon, <2>1, <2>2
<1> QED
  BY Zenon, <1>3, <1>5, <1>6, <1>7 DEF TablesInverse, FakeIPLoad, FakeIPLoadDomain

\* Empty tables are typed and inverse.
LEMMA EmptiedInverse ==
  ASSUME Emptied
  PROVE  /\ domainOf' \in [Addresses -> Domains \cup {None}]
         /\ addressOf' \in [Families -> [Domains -> Addresses \cup {None}]]
         /\ TablesInverse'
  BY DEF Emptied, NoDomains, NoAddresses, TablesInverse, FakeIPLoad, FakeIPLoadDomain

\* Taking the next address moves the window on by one.
LEMMA PushKeepsWindow ==
  ASSUME NEW n \in 1..(Size - 2), NEW s \in Seq(Usable), Len(s) <= Size - 3,
         \A i \in 1..Len(s) : s[i] = Back(n, Len(s) - i)
  PROVE  LET t == Pushed(s, NextAddress(n))
         IN  /\ t \in Seq(Usable) /\ Len(t) <= Size - 3
             /\ \A i \in 1..Len(t) : t[i] = Back(NextAddress(n), Len(t) - i)
<1> DEFINE m == NextAddress(n)
           t == Pushed(s, m)
<1>1. m \in Usable /\ Back(m, 0) = m /\ m \in Int
  BY NextUsable, SizeSuffices DEF Usable, Back
<1>2. \A i \in 1..Len(s) : s[i] \in Usable
  OBVIOUS
<1>3. CASE Len(s) < Size - 3
  <2>1. t = Append(s, m)
    BY <1>3 DEF Pushed, Turn
  <2>2. t \in Seq(Usable) /\ Len(t) = Len(s) + 1 /\ Len(s) \in Nat
    BY <1>1, <2>1
  <2>3. ASSUME NEW i \in 1..Len(t)
        PROVE  t[i] = Back(m, Len(t) - i)
    <3>1. CASE i = Len(t)
      BY <1>1, <2>1, <2>2, <3>1
    <3>2. CASE i # Len(t)
      <4>1. i \in 1..Len(s) /\ t[i] = s[i]
        BY <2>1, <2>2, <3>2
      <4>2. Len(s) - i \in 0..(Size - 5) /\ Len(t) - i = (Len(s) - i) + 1
        BY <1>3, <2>2, <4>1, SizeSuffices
      <4> QED
        BY Zenon, <1>2, <4>1, <4>2, BackOfNext
    <3> QED
      BY Zenon, <3>1, <3>2
  <2> HIDE DEF t
  <2> QED
    BY <1>3, <2>2, <2>3, SizeSuffices DEF t
<1>4. CASE Len(s) = Size - 3
  <2>1. t = Append(Tail(s), m)
    BY <1>4, SizeSuffices DEF Pushed, Turn
  <2>2. /\ Tail(s) \in Seq(Usable) /\ Len(Tail(s)) = Len(s) - 1
        /\ \A i \in 1..(Len(s) - 1) : Tail(s)[i] = s[i + 1]
    BY <1>4, SizeSuffices
  <2>3. t \in Seq(Usable) /\ Len(t) = Len(s) /\ Len(s) \in Nat
    BY <1>1, <2>1, <2>2
  <2>4. ASSUME NEW i \in 1..Len(t)
        PROVE  t[i] = Back(m, Len(t) - i)
    <3>1. CASE i = Len(t)
      BY <1>1, <2>1, <2>2, <2>3, <3>1
    <3>2. CASE i # Len(t)
      <4>1. i \in 1..(Len(s) - 1) /\ i + 1 \in 1..Len(s)
        BY <2>3, <3>2
      <4>2. t[i] = s[i + 1]
        BY <2>1, <2>2, <4>1
      <4>3. Len(s) - (i + 1) \in 0..(Size - 5) /\ Len(t) - i = (Len(s) - (i + 1)) + 1
        BY <1>4, <2>3, <4>1, SizeSuffices
      <4> QED
        BY Zenon, <1>2, <4>1, <4>2, <4>3, BackOfNext
    <3> QED
      BY Zenon, <3>1, <3>2
  <2> HIDE DEF t
  <2> QED
    BY Zenon, <1>4, <2>3, <2>4, SizeSuffices DEF t
<1>5. Len(s) \in Nat /\ (Len(s) < Size - 3 \/ Len(s) = Size - 3)
  BY SizeSuffices
<1> HIDE DEF t
<1> QED
  BY Zenon, <1>3, <1>4, <1>5 DEF t

-----------------------------------------------------------------------------
LEMMA InitInv ==
  Init => Inv
<1> SUFFICES ASSUME Init PROVE Inv
  OBVIOUS
<1>1. Typed
  BY SizeSuffices DEF Init, Typed, NoDomains, NoAddresses
<1>2. TablesInverse
  BY DEF Init, TablesInverse, NoDomains, NoAddresses, FakeIPLoad, FakeIPLoadDomain
<1>3. Window
  BY SizeSuffices DEF Init, Window
<1> QED
  BY Zenon, <1>1, <1>2, <1>3 DEF Inv

LEMMA NextInv ==
  Inv /\ [Next]_vars => Inv'
<1> SUFFICES ASSUME Inv, [Next]_vars PROVE Inv'
  OBVIOUS
<1> USE DEF Inv
<1>1. ASSUME NEW rg \in Ranges, Start(rg)
      PROVE  Inv'
  <2>1. current' \in [Families -> 1..(Size - 2)]
    BY <1>1, SizeSuffices DEF Start, Typed, Metadata
  <2>2. /\ domainOf' \in [Addresses -> Domains \cup {None}]
        /\ addressOf' \in [Families -> [Domains -> Addresses \cup {None}]]
        /\ TablesInverse'
    <3>1. CASE Emptied
      BY <3>1, EmptiedInverse
    <3>2. CASE UNCHANGED tables
      BY <3>2 DEF Typed, TablesInverse, tables, FakeIPLoad, FakeIPLoadDomain
    <3> QED
      BY Zenon, <1>1, <3>1, <3>2 DEF Start, FakeIPReset
  <2>3. Typed'
    BY <1>1, <2>1, <2>2 DEF Start, Typed, FakeIPMetadata
  <2>4. Window'
    BY <1>1, SizeSuffices DEF Start, Window
  <2> QED
    BY Zenon, <2>2, <2>3, <2>4
<1>2. ASSUME NEW d \in Domains, NEW f \in Families, CreateKnown(d, f)
      PROVE  Inv'
  BY Zenon, <1>2 DEF CreateKnown, Typed, TablesInverse, Window, tables, FakeIPLoad, FakeIPLoadDomain
<1>3. ASSUME NEW d \in Domains, NEW f \in Families, CreateNew(d, f)
      PROVE  Inv'
  <2> DEFINE n == NextAddress(current[f])
             a == [fam |-> f, range |-> range, n |-> n]
  <2>1. current[f] \in 1..(Size - 2)
    BY DEF Typed
  <2>2. n \in Usable /\ n \in 1..(Size - 2) /\ n \in 0..(Size - 1)
    BY <2>1, NextUsable
  <2>3. a \in Addresses /\ a.fam = f
    BY <2>2 DEF Typed, Addresses
  <2>4. /\ current' = [current EXCEPT ![f] = n]
        /\ order' = [order EXCEPT ![f] = Pushed(@, n)]
        /\ FakeIPSaveMetadataAsync([range |-> range, current |-> current'])
        /\ UNCHANGED <<range, metadata>>
        /\ FakeIPStoreEntry(a, d) \/ UNCHANGED tables
        /\ addressOf[f][d] = None
    BY <1>3 DEF CreateNew, FakeIPLoadDomain
  <2> HIDE DEF n, a
  <2>5. /\ domainOf' \in [Addresses -> Domains \cup {None}]
        /\ addressOf' \in [Families -> [Domains -> Addresses \cup {None}]]
        /\ TablesInverse'
    <3>1. CASE FakeIPStoreEntry(a, d)
      BY <2>3, <2>4, <3>1, StoreKeepsInverse
    <3>2. CASE UNCHANGED tables
      BY <3>2 DEF Typed, TablesInverse, tables, FakeIPLoad, FakeIPLoadDomain
    <3> QED
      BY Zenon, <2>4, <3>1, <3>2
  <2>6. current' \in [Families -> 1..(Size - 2)]
    BY <2>2, <2>4 DEF Typed
  <2>7. timer' \in [saves : Metadata, armed : BOOLEAN] \cup {None}
    <3>1. [range |-> range, current |-> current'] \in Metadata
      BY <2>6 DEF Metadata, Typed
    <3> QED
      BY ZenonT(30), <2>4, <3>1 DEF FakeIPSaveMetadataAsync, Typed
  <2>8. /\ Pushed(order[f], n) \in Seq(Usable) /\ Len(Pushed(order[f], n)) <= Size - 3
        /\ \A i \in 1..Len(Pushed(order[f], n)) :
             Pushed(order[f], n)[i] = Back(n, Len(Pushed(order[f], n)) - i)
    <3>1. order[f] \in Seq(Usable) /\ Len(order[f]) <= Size - 3
      BY DEF Typed, Window
    <3>2. \A i \in 1..Len(order[f]) : order[f][i] = Back(current[f], Len(order[f]) - i)
      BY DEF Window
    <3> QED
      BY ZenonT(30), <2>1, <3>1, <3>2, PushKeepsWindow DEF n
  <2>9. order' \in [Families -> Seq(Usable)]
    BY <2>4, <2>8 DEF Typed
  <2>10. Typed'
    BY <2>4, <2>5, <2>6, <2>7, <2>9 DEF Typed
  <2>11. Window'
    <3> SUFFICES ASSUME NEW g \in Families
                 PROVE  /\ Len(order'[g]) <= Size - 3
                        /\ \A i \in 1..Len(order'[g]) :
                             order'[g][i] = Back(current'[g], Len(order'[g]) - i)
      BY DEF Window, Back
    <3>1. CASE g = f
      <4>1. order'[g] = Pushed(order[f], n) /\ current'[g] = n
        BY <2>4, <3>1 DEF Typed
      <4> QED
        BY Zenon, <2>8, <4>1
    <3>2. CASE g # f
      <4>1. order'[g] = order[g] /\ current'[g] = current[g]
        BY <2>4, <3>2 DEF Typed
      <4> QED
        BY Zenon, <4>1 DEF Window
    <3> QED
      BY Zenon, <3>1, <3>2
  <2> QED
    BY Zenon, <2>5, <2>10, <2>11
<1>4. CASE TimerFires
  <2>1. metadata' \in Metadata \cup {None} /\ timer' \in [saves : Metadata, armed : BOOLEAN] \cup {None}
    BY ZenonT(30), <1>4 DEF TimerFires, FakeIPSaveMetadata, Typed
  <2> QED
    BY <1>4, <2>1 DEF TimerFires, Typed, TablesInverse, Window, FakeIPLoad, FakeIPLoadDomain
<1>5. CASE Flush
  <2>1. /\ domainOf' \in [Addresses -> Domains \cup {None}]
        /\ addressOf' \in [Families -> [Domains -> Addresses \cup {None}]]
        /\ TablesInverse'
    <3>1. CASE Emptied
      BY <3>1, EmptiedInverse
    <3>2. CASE UNCHANGED tables
      BY <3>2 DEF Typed, TablesInverse, tables, FakeIPLoad, FakeIPLoadDomain
    <3> QED
      BY Zenon, <1>5, <3>1, <3>2 DEF Flush, FakeIPReset
  <2> QED
    BY Zenon, <1>5, <2>1 DEF Flush, Typed, Window
<1>6. CASE Close
  <2>1. metadata' \in Metadata \cup {None}
    BY <1>6 DEF Close, FakeIPSaveMetadata, Typed, Metadata
  <2> QED
    BY Zenon, <1>6, <2>1 DEF Close, Typed, TablesInverse, Window, FakeIPLoad, FakeIPLoadDomain
<1>7. CASE Exit
  <2>1. /\ domainOf' \in [Addresses -> Domains \cup {None}]
        /\ addressOf' \in [Families -> [Domains -> Addresses \cup {None}]]
        /\ TablesInverse'
    <3>1. CASE Emptied
      BY <3>1, EmptiedInverse
    <3>2. CASE UNCHANGED tables
      BY <3>2 DEF Typed, TablesInverse, tables, FakeIPLoad, FakeIPLoadDomain
    <3> QED
      BY Zenon, <1>7, <3>1, <3>2 DEF Exit
  <2> QED
    BY ZenonT(30), <1>7, <2>1 DEF Exit, Typed, Window
<1>8. CASE UNCHANGED vars
  BY <1>8 DEF vars, tables, Typed, TablesInverse, Window, FakeIPLoad, FakeIPLoadDomain
<1> QED
  BY Zenon, <1>1, <1>2, <1>3, <1>4, <1>5, <1>6, <1>7, <1>8 DEF Next

\* The rest of the types.
StoreTyped ==
    /\ storage \in {"file", "memory"} /\ phase \in {"down", "up", "closing"} /\ starts \in 0..MaxStarts
    /\ buckets \subseteq Buckets /\ given \in Addresses \cup {None}

LEMMA StoreTypes == ASSUME MaxStarts \in Nat PROVE Spec => []TypeOK
<1>1. Init => StoreTyped
  BY DEF Init, StoreTyped
<1>2. Inv /\ StoreTyped /\ [Next]_vars => StoreTyped'
  <2> SUFFICES ASSUME Inv, StoreTyped, [Next]_vars PROVE StoreTyped'
    OBVIOUS
  <2> USE DEF StoreTyped, FakeIPReset, Emptied, tables, Buckets
  <2>1. ASSUME NEW rg \in Ranges, Start(rg) PROVE StoreTyped'
    <3>1. /\ starts < MaxStarts /\ starts' = starts + 1 /\ phase' = "up"
          /\ UNCHANGED <<storage, given>>
          /\ buckets' = buckets \/ buckets' = {}
      BY Zenon, <2>1 DEF Start
    <3>2. starts' \in 0..MaxStarts
      BY <3>1
    <3> QED
      BY Zenon, <3>1, <3>2
  <2>2. ASSUME NEW d \in Domains, NEW f \in Families, CreateKnown(d, f) PROVE StoreTyped'
    BY <2>2 DEF CreateKnown, FakeIPLoadDomain, Inv, Typed
  <2>3. ASSUME NEW d \in Domains, NEW f \in Families, CreateNew(d, f) PROVE StoreTyped'
    <3> DEFINE n == NextAddress(current[f])
               a == [fam |-> f, range |-> range, n |-> n]
    <3>1. current[f] \in 1..(Size - 2) /\ range \in Ranges
      BY DEF Inv, Typed
    <3>2. a \in Addresses /\ a.fam = f
      BY <3>1, NextUsable DEF Addresses
    <3>3. /\ FakeIPStoreEntry(a, d) \/ UNCHANGED tables
          /\ given' = a /\ UNCHANGED <<storage, phase, starts>>
      BY <2>3 DEF CreateNew
    <3> HIDE DEF a
    <3>4. buckets' \subseteq Buckets
      BY <3>2, <3>3, FamiliesKnown DEF FakeIPStoreEntry
    <3> QED
      BY Zenon, <3>2, <3>3, <3>4
  <2>4. CASE TimerFires
    BY <2>4 DEF TimerFires, FakeIPSaveMetadata
  <2>5. CASE Flush
    BY Zenon, <2>5 DEF Flush
  <2>6. CASE Close
    BY Zenon, <2>6 DEF Close, FakeIPSaveMetadata
  <2>7. CASE Exit
    BY Zenon, <2>7 DEF Exit
  <2>8. CASE UNCHANGED vars
    BY <2>8 DEF vars
  <2> QED
    BY Zenon, <2>1, <2>2, <2>3, <2>4, <2>5, <2>6, <2>7, <2>8 DEF Next
<1>3. Inv /\ StoreTyped => TypeOK
  BY DEF Inv, Typed, Window, StoreTyped, TypeOK, Turn
<1> QED
  BY <1>1, <1>2, <1>3, InitInv, NextInv, PTL DEF Spec

\* Whatever the range and the domains, and through every restart and kill,
\* the two tables of the storage are inverse to each other.
THEOREM TablesInverseHolds == Spec => []TablesInverse
<1>1. Inv => TablesInverse
  BY DEF Inv
<1> QED
  BY <1>1, InitInv, NextInv, PTL DEF Spec

\* Whatever the size of the range, a process gives an address of it to
\* another domain only after all its other usable addresses.
THEOREM ReusedInOrderHolds == Spec => []ReusedInOrder
<1>1. Inv => ReusedInOrder
  <2> SUFFICES ASSUME Inv, NEW f \in Families,
                      NEW i \in DOMAIN order[f], NEW j \in DOMAIN order[f],
                      order[f][i] = order[f][j]
               PROVE  i = j
    BY DEF ReusedInOrder
  <2>1. order[f] \in Seq(Usable) /\ current[f] \in 1..(Size - 2)
    BY DEF Inv, Typed
  <2>2. i \in 1..Len(order[f]) /\ j \in 1..Len(order[f]) /\ Len(order[f]) \in Nat
    BY <2>1
  <2>3. /\ Len(order[f]) <= Size - 3
        /\ Back(current[f], Len(order[f]) - i) = Back(current[f], Len(order[f]) - j)
    BY <2>2 DEF Inv, Window
  <2>4. Len(order[f]) - i \in 0..(Size - 4) /\ Len(order[f]) - j \in 0..(Size - 4)
    BY <2>2, <2>3, SizeSuffices
  <2>5. Len(order[f]) - i = Len(order[f]) - j
    BY <2>1, <2>3, <2>4, BackInjective
  <2> QED
    BY <2>2, <2>5
<1> QED
  BY <1>1, InitInv, NextInv, PTL DEF Spec

-----------------------------------------------------------------------------
Queued == [message : Nat, sequence : Nat]

Goroutines == [pc : {"idle", "read", "save", "check", "done"}, key : Keys \cup {None},
               entry : Queued \cup {None}, failed : BOOLEAN]

\* None is no number, no key and no entry.
Distinct == MaxSaves \in Nat /\ None \notin Nat \cup Keys \cup Queued

Live(g) == flusher[g].pc \notin {"idle", "done"}

CacheTyped ==
    /\ saves \in Nat /\ clearing \in BOOLEAN /\ excused \subseteq Keys
    /\ saveDNSCache \in [Keys -> Queued \cup {None}]
    /\ file \in [Keys -> Nat \cup {None}] /\ newest \in [Keys -> Nat \cup {None}]
    /\ flusher \in [DNS!Flushers -> Goroutines]
    /\ \A g \in DNS!Flushers :
         /\ g > saves => flusher[g].pc = "idle"
         /\ Live(g) => flusher[g].key \in Keys
         /\ flusher[g].pc \in {"save", "check"} => flusher[g].entry \in Queued

\* What goroutine g holds, against the queued entry: an entry with its number
\* is the same, and the file has it once it is written.
Follows(g, q) ==
    LET f == flusher[g]
    IN  /\ f.pc \in {"save", "check"} =>
             /\ f.entry.sequence <= q.sequence
             /\ f.entry.sequence = q.sequence => f.entry = q
        /\ f.pc = "check" /\ ~f.failed => file[f.key] = f.entry.message

\* A key nothing went wrong with has a goroutine exactly while it is queued,
\* and only one.
Sound(k) ==
    /\ DNS!Flushing(k) => saveDNSCache[k] # None /\ ~clearing
    /\ clearing => saveDNSCache[k] = None
    /\ ~clearing => DNS!LoadDNSCache(k) = newest[k]
    /\ \A g \in DNS!Flushers : Live(g) /\ flusher[g].key = k =>
         /\ Follows(g, saveDNSCache[k])
         /\ \A h \in DNS!Flushers : Live(h) /\ flusher[h].key = k => h = g

CacheInv == CacheTyped /\ DNS!NoStuckEntry /\ \A k \in Keys \ excused : Sound(k)

\* A step of a goroutine of another key leaves a key as it is.
LEMMA SoundElsewhere ==
    ASSUME NEW g \in DNS!Flushers, NEW j \in Keys, Sound(j),
           \A h \in DNS!Flushers \ {g} : flusher'[h] = flusher[h],
           Live(g) => flusher[g].key # j, Live(g)' => flusher'[g].key # j,
           saveDNSCache'[j] = saveDNSCache[j], file'[j] = file[j], newest'[j] = newest[j],
           clearing' = clearing
    PROVE  Sound(j)'
<1>1. DNS!Flushing(j)' <=> DNS!Flushing(j)
  BY DEF DNS!Flushing, Live
<1>2. DNS!LoadDNSCache(j)' = DNS!LoadDNSCache(j)
  BY DEF DNS!LoadDNSCache
<1>3. ASSUME NEW h \in DNS!Flushers, Live(h)', flusher'[h].key = j
      PROVE  h # g /\ Live(h) /\ flusher[h].key = j /\ flusher'[h] = flusher[h]
  BY <1>3 DEF Live
<1>4. ASSUME NEW h \in DNS!Flushers, Live(h)', flusher'[h].key = j
      PROVE  Follows(h, saveDNSCache[j])'
  <2>1. Follows(h, saveDNSCache[j]) /\ flusher'[h] = flusher[h] /\ flusher[h].key = j
    BY <1>3, <1>4 DEF Sound
  <2> QED
    BY Zenon, <2>1 DEF Follows
<1>5. ASSUME NEW h \in DNS!Flushers, Live(h)', flusher'[h].key = j,
             NEW i \in DNS!Flushers, Live(i)', flusher'[i].key = j
      PROVE  i = h
  BY <1>3, <1>5 DEF Sound
<1> QED
  BY Zenon, <1>1, <1>2, <1>4, <1>5 DEF Sound

LEMMA SavePreserves ==
    ASSUME Distinct, CacheInv, NEW k \in Keys, DNS!SaveDNSCacheAsync(k) PROVE CacheInv'
<1> USE DEF Distinct, CacheInv, DNS!Flushers
<1>0. PICK g0 \in Nat : g0 = saves + 1
  BY DEF CacheTyped
<1>1. /\ g0 \in DNS!Flushers /\ saves' = g0 /\ g0 \in Nat
      /\ UNCHANGED <<file, clearing>> /\ newest' = [newest EXCEPT ![k] = g0]
  BY <1>0 DEF DNS!SaveDNSCacheAsync, CacheTyped
<1>2. /\ saveDNSCache' \in [Keys -> Queued \cup {None}] /\ saveDNSCache'[k] \in Queued
      /\ saveDNSCache'[k].message = g0
      /\ saveDNSCache[k] # None => saveDNSCache'[k].sequence = saveDNSCache[k].sequence + 1
      /\ \A j \in Keys \ {k} : saveDNSCache'[j] = saveDNSCache[j]
  BY <1>0, <1>1 DEF DNS!SaveDNSCacheAsync, CacheTyped, Queued
<1>3. CASE saveDNSCache[k] # None
  <2>1. flusher' = flusher
    BY <1>3 DEF DNS!SaveDNSCacheAsync
  <2>2. DNS!Flushing(k) /\ DNS!Flushing(k)'
    BY <1>3, <2>1 DEF DNS!NoStuckEntry, DNS!Flushing
  <2>3. CacheTyped'
    BY <1>0, <1>1, <1>2, <2>1 DEF CacheTyped, DNS!SaveDNSCacheAsync, Live
  <2>4. DNS!NoStuckEntry'
    BY <1>2, <2>1, <2>2 DEF DNS!NoStuckEntry, DNS!Flushing
  <2>5. ASSUME NEW j \in Keys \ excused' PROVE Sound(j)'
    <3>1. j \notin excused /\ (j = k => ~clearing)
      BY <2>2 DEF DNS!SaveDNSCacheAsync
    <3>2. CASE j # k
      BY <1>1, <1>2, <2>1, <3>1, <3>2 DEF Sound, DNS!Flushing, Live, Follows, DNS!LoadDNSCache, CacheTyped
    <3>3. CASE j = k
      BY <1>1, <1>2, <1>3, <2>1, <3>1, <3>3
      DEF Sound, DNS!Flushing, Live, Follows, DNS!LoadDNSCache, CacheTyped, Queued, Goroutines
    <3> QED
      BY Zenon, <3>2, <3>3
  <2> QED
    BY Zenon, <2>3, <2>4, <2>5
<1>4. CASE saveDNSCache[k] = None
  <2>1. /\ flusher' = [flusher EXCEPT ![g0] = [DNS!Idle EXCEPT !.pc = "read", !.key = k]]
        /\ flusher \in [DNS!Flushers -> Goroutines] /\ flusher[g0].pc = "idle"
    BY <1>0, <1>1, <1>4 DEF DNS!SaveDNSCacheAsync, CacheTyped
  <2>2. /\ flusher'[g0].pc = "read" /\ flusher'[g0].key = k
        /\ \A g \in DNS!Flushers \ {g0} : flusher'[g] = flusher[g]
        /\ flusher' \in [DNS!Flushers -> Goroutines]
    BY ZenonT(30), <1>1, <2>1 DEF DNS!Idle, Goroutines
  <2>3. DNS!Flushing(k)' /\ \A j \in Keys \ {k} : DNS!Flushing(j)' <=> DNS!Flushing(j)
    BY <1>1, <2>1, <2>2 DEF DNS!Flushing
  <2>4. CacheTyped'
    BY <1>0, <1>1, <1>2, <2>1, <2>2 DEF CacheTyped, DNS!SaveDNSCacheAsync, Live
  <2>5. DNS!NoStuckEntry'
    BY <1>2, <2>3 DEF DNS!NoStuckEntry
  <2>6. ASSUME NEW j \in Keys \ excused' PROVE Sound(j)'
    <3>1. CASE j # k
      <4>1. j \notin excused
        BY <3>1 DEF DNS!SaveDNSCacheAsync
      <4> QED
        BY Zenon, <1>1, <1>2, <2>1, <2>2, <3>1, <4>1, SoundElsewhere DEF Live, CacheTyped
    <3>2. CASE j = k
      <4>1. ~clearing /\ ~DNS!Flushing(k)
        BY <1>4, <3>2 DEF DNS!SaveDNSCacheAsync, Sound
      <4>2. \A g \in DNS!Flushers : Live(g)' /\ flusher'[g].key = k => g = g0
        BY <2>2, <4>1 DEF Live, DNS!Flushing
      <4>3. Follows(g0, saveDNSCache[k])'
        BY <2>2 DEF Follows
      <4> QED
        BY Zenon, <1>1, <1>2, <3>2, <4>1, <4>2, <4>3 DEF Sound, DNS!LoadDNSCache, CacheTyped
    <3> QED
      BY Zenon, <3>1, <3>2
  <2> QED
    BY Zenon, <2>4, <2>5, <2>6
<1> QED
  BY Zenon, <1>3, <1>4

LEMMA ReadPreserves ==
    ASSUME Distinct, CacheInv, NEW g \in DNS!Flushers, DNS!FlushRead(g) PROVE CacheInv'
<1> USE DEF Distinct, CacheInv
<1> DEFINE k == flusher[g].key
           q == saveDNSCache[k]
<1>1. /\ flusher[g].pc = "read" /\ k \in Keys /\ q \in Queued \cup {None}
      /\ UNCHANGED <<saves, saveDNSCache, file, clearing, newest, excused>>
      /\ flusher \in [DNS!Flushers -> Goroutines]
  BY DEF DNS!FlushRead, CacheTyped, Live
<1>2. /\ flusher' \in [DNS!Flushers -> Goroutines]
      /\ \A h \in DNS!Flushers \ {g} : flusher'[h] = flusher[h]
      /\ flusher'[g].entry = q /\ flusher'[g].key = k
      /\ flusher'[g].pc = IF q = None THEN "done" ELSE "save"
  BY <1>1 DEF DNS!FlushRead, Goroutines
<1>3. CacheTyped'
  BY <1>1, <1>2 DEF CacheTyped, Live
<1>4. DNS!NoStuckEntry'
  BY <1>1, <1>2 DEF DNS!NoStuckEntry, DNS!Flushing
<1>5. ASSUME NEW j \in Keys \ excused' PROVE Sound(j)'
  <2>1. CASE j # k
    BY <1>1, <1>2, <2>1, SoundElsewhere
  <2>2. CASE j = k
    <3>1. Sound(k) /\ Live(g) /\ DNS!Flushing(k)
      BY <1>1, <2>2 DEF DNS!Flushing, Live
    <3>2. q # None /\ q \in Queued /\ ~clearing /\ DNS!LoadDNSCache(k) = newest[k]
      BY <1>1, <3>1 DEF Sound
    <3>3. ASSUME NEW h \in DNS!Flushers, Live(h)', flusher'[h].key = k PROVE h = g
      BY <1>1, <1>2, <3>1, <3>3 DEF Sound, Live
    <3>4. Follows(g, saveDNSCache[j])'
      BY <1>1, <1>2, <2>2, <3>2 DEF Follows, Queued
    <3>5. DNS!LoadDNSCache(j)' = newest'[j]
      BY <1>1, <2>2, <3>2 DEF DNS!LoadDNSCache
    <3> QED
      BY Zenon, <1>1, <2>2, <3>2, <3>3, <3>4, <3>5 DEF Sound
  <2> QED
    BY Zenon, <2>1, <2>2
<1> QED
  BY Zenon, <1>3, <1>4, <1>5

LEMMA WritePreserves ==
    ASSUME Distinct, CacheInv, NEW g \in DNS!Flushers, DNS!SaveDNSCache(g) PROVE CacheInv'
<1> USE DEF Distinct, CacheInv
<1> DEFINE k == flusher[g].key
<1>1. /\ flusher[g].pc = "save" /\ k \in Keys /\ flusher[g].entry \in Queued
      /\ UNCHANGED <<saves, saveDNSCache, clearing, newest, excused>>
      /\ flusher \in [DNS!Flushers -> Goroutines] /\ file \in [Keys -> Nat \cup {None}]
  BY DEF DNS!SaveDNSCache, CacheTyped, Live
<1>2. /\ flusher' \in [DNS!Flushers -> Goroutines]
      /\ \A h \in DNS!Flushers \ {g} : flusher'[h] = flusher[h]
      /\ flusher'[g].entry = flusher[g].entry /\ flusher'[g].key = k
      /\ flusher'[g].pc = "check"
  BY <1>1 DEF DNS!SaveDNSCache, Goroutines
<1>3. /\ file' \in [Keys -> Nat \cup {None}]
      /\ \A j \in Keys \ {k} : file'[j] = file[j]
      /\ ~flusher'[g].failed => file'[k] = flusher[g].entry.message
  BY <1>1 DEF DNS!SaveDNSCache, Goroutines, Queued
<1>4. CacheTyped'
  BY <1>1, <1>2, <1>3 DEF CacheTyped, Live
<1>5. DNS!NoStuckEntry'
  BY <1>1, <1>2 DEF DNS!NoStuckEntry, DNS!Flushing
<1>6. ASSUME NEW j \in Keys \ excused' PROVE Sound(j)'
  <2>1. CASE j # k
    BY <1>1, <1>2, <1>3, <2>1, SoundElsewhere
  <2>2. CASE j = k
    BY <1>1, <1>2, <1>3, <2>2 DEF Sound, DNS!Flushing, Live, Follows, DNS!LoadDNSCache
  <2> QED
    BY Zenon, <2>1, <2>2
<1> QED
  BY Zenon, <1>4, <1>5, <1>6

LEMMA CheckPreserves ==
    ASSUME Distinct, CacheInv, NEW g \in DNS!Flushers, DNS!FlushCheck(g) PROVE CacheInv'
<1> USE DEF Distinct, CacheInv
<1>0. PICK k \in Keys : k = flusher[g].key
  BY DEF DNS!FlushCheck, CacheTyped, Live
<1> DEFINE q == saveDNSCache[k]
<1>1. /\ flusher[g].pc = "check" /\ k = flusher[g].key /\ q \in Queued \cup {None}
      /\ flusher[g].entry \in Queued
      /\ UNCHANGED <<saves, file, clearing, newest>>
      /\ flusher \in [DNS!Flushers -> Goroutines]
  BY <1>0 DEF DNS!FlushCheck, CacheTyped, Live
<1>2. CASE q # None /\ ~DNS!Saved(g, q)
  <2>1. /\ flusher' = [flusher EXCEPT ![g].pc = "read"]
        /\ UNCHANGED <<saveDNSCache, excused>>
    BY <1>0, <1>2 DEF DNS!FlushCheck, DNS!Again
  <2>2. /\ flusher' \in [DNS!Flushers -> Goroutines]
        /\ \A h \in DNS!Flushers \ {g} : flusher'[h] = flusher[h]
        /\ flusher'[g].key = k /\ flusher'[g].pc = "read"
    BY <1>1, <2>1 DEF Goroutines
  <2>3. CacheTyped'
    BY <1>1, <2>1, <2>2 DEF CacheTyped, Live
  <2>4. DNS!NoStuckEntry'
    BY <1>1, <2>1, <2>2 DEF DNS!NoStuckEntry, DNS!Flushing
  <2>5. ASSUME NEW j \in Keys \ excused' PROVE Sound(j)'
    BY <1>1, <2>1, <2>2 DEF Sound, DNS!Flushing, Live, Follows, DNS!LoadDNSCache
  <2> QED
    BY Zenon, <2>3, <2>4, <2>5
<1>3. CASE ~(q # None /\ ~DNS!Saved(g, q))
  <2>1. /\ flusher' = [flusher EXCEPT ![g].pc = "done"]
        /\ saveDNSCache' = [saveDNSCache EXCEPT ![k] = None]
        /\ excused' = IF flusher[g].failed THEN excused \cup {k} ELSE excused
    BY <1>0, <1>3 DEF DNS!FlushCheck
  <2>2. /\ flusher' \in [DNS!Flushers -> Goroutines]
        /\ \A h \in DNS!Flushers \ {g} : flusher'[h] = flusher[h]
        /\ flusher'[g].key = k /\ flusher'[g].pc = "done"
    BY <1>1, <2>1 DEF Goroutines
  <2>3. /\ saveDNSCache' \in [Keys -> Queued \cup {None}] /\ saveDNSCache'[k] = None
        /\ \A j \in Keys \ {k} : saveDNSCache'[j] = saveDNSCache[j]
    BY <1>1, <2>1 DEF CacheTyped
  <2>4. CacheTyped'
    BY <1>1, <2>1, <2>2, <2>3 DEF CacheTyped, Live
  <2>5. DNS!NoStuckEntry'
    BY <1>1, <2>2, <2>3 DEF DNS!NoStuckEntry, DNS!Flushing
  <2>6. ASSUME NEW j \in Keys \ excused' PROVE Sound(j)'
    <3>1. j \notin excused
      BY <2>1
    <3>2. CASE j # k
      BY <1>1, <2>2, <2>3, <3>1, <3>2, SoundElsewhere
    <3>3. CASE j = k
      <4>1. ~flusher[g].failed /\ q # None /\ ~clearing
        BY <1>1, <2>1, <3>1, <3>3 DEF Sound, DNS!Flushing
      <4>2. flusher[g].entry = q /\ file[k] = flusher[g].entry.message
        BY <1>1, <1>3, <3>1, <3>3, <4>1 DEF Sound, Live, Follows, DNS!Saved
      <4>3. ~DNS!Flushing(k)'
        BY <1>1, <2>2, <3>1, <3>3 DEF Sound, Live, DNS!Flushing
      <4>4. file[k] = newest[k]
        BY <3>1, <3>3, <4>1, <4>2 DEF Sound, DNS!LoadDNSCache
      <4>5. \A h \in DNS!Flushers : ~(Live(h)' /\ flusher'[h].key = k)
        BY <4>3 DEF Live, DNS!Flushing
      <4> QED
        BY Zenon, <1>1, <2>3, <3>3, <4>1, <4>3, <4>4, <4>5 DEF Sound, DNS!LoadDNSCache
    <3> QED
      BY Zenon, <3>2, <3>3
  <2> QED
    BY Zenon, <2>4, <2>5, <2>6
<1> QED
  BY Zenon, <1>2, <1>3

LEMMA CleanupPreserves ==
    ASSUME Distinct, CacheInv, NEW k \in Keys, DNS!cleanupDNSCache(k) PROVE CacheInv'
<1> USE DEF CacheInv
<1>1. /\ UNCHANGED <<saves, saveDNSCache, flusher, clearing>>
      /\ file' \in [Keys -> Nat \cup {None}] /\ file'[k] = None
      /\ newest' \in [Keys -> Nat \cup {None}]
      /\ \A j \in Keys \ {k} : file'[j] = file[j] /\ newest'[j] = newest[j]
      /\ excused \subseteq excused' /\ excused' \subseteq Keys
  BY DEF DNS!cleanupDNSCache, CacheTyped
<1>2. CacheTyped' /\ DNS!NoStuckEntry'
  BY <1>1 DEF CacheTyped, DNS!NoStuckEntry, DNS!Flushing, Live
<1>3. ASSUME NEW j \in Keys \ excused', j # k PROVE Sound(j)'
  <2>1. Sound(j) /\ file'[j] = file[j] /\ newest'[j] = newest[j]
    BY <1>1, <1>3
  <2>2. DNS!LoadDNSCache(j)' = DNS!LoadDNSCache(j)
    BY <1>1, <2>1 DEF DNS!LoadDNSCache
  <2>3. ASSUME NEW g \in DNS!Flushers, Live(g), flusher[g].key = j PROVE Follows(g, saveDNSCache[j])'
    BY <1>1, <2>1, <2>3 DEF Sound, Follows
  <2> QED BY Zenon, <1>1, <2>1, <2>2, <2>3 DEF Sound, Live, DNS!Flushing
<1>4. ASSUME k \notin excused' PROVE Sound(k)'
  <2>1. Sound(k) /\ \A g \in DNS!Flushers : ~(flusher[g].key = k /\ flusher[g].pc = "check")
    BY <1>1, <1>4 DEF DNS!cleanupDNSCache
  <2>2. ~clearing => DNS!LoadDNSCache(k)' = newest'[k]
    <3>1. CASE DNS!Flushing(k)
      BY <1>1, <2>1, <3>1 DEF DNS!cleanupDNSCache, Sound, DNS!LoadDNSCache
    <3>2. CASE ~DNS!Flushing(k)
      <4>1. saveDNSCache[k] = None BY <3>2 DEF DNS!NoStuckEntry
      <4>2. newest'[k] = None BY <3>2 DEF DNS!cleanupDNSCache, CacheTyped
      <4> QED BY <1>1, <4>1, <4>2 DEF DNS!LoadDNSCache
    <3> QED BY Zenon, <3>1, <3>2
  <2>3. ASSUME NEW g \in DNS!Flushers, Live(g), flusher[g].key = k PROVE Follows(g, saveDNSCache[k])'
    BY <1>1, <2>1, <2>3 DEF Sound, Follows
  <2> QED BY Zenon, <1>1, <2>1, <2>2, <2>3 DEF Sound, Live, DNS!Flushing
<1> QED
  BY Zenon, <1>2, <1>3, <1>4

LEMMA Inductive == ASSUME Distinct, CacheInv, [DNS!Next]_(DNS!vars) PROVE CacheInv'
<1>1. CASE DNS!ClearPending
  BY <1>1 DEF DNS!ClearPending, CacheInv, CacheTyped, DNS!NoStuckEntry, Sound, DNS!Flushing, Live, Distinct
<1>2. CASE DNS!ClearFile
  BY ZenonT(30), <1>2 DEF DNS!ClearFile, CacheInv, CacheTyped, DNS!NoStuckEntry, Sound, DNS!Flushing, Live, Distinct, DNS!LoadDNSCache
<1>3. CASE UNCHANGED DNS!vars
  BY <1>3 DEF DNS!vars, CacheInv, CacheTyped, DNS!NoStuckEntry, Sound, DNS!Flushing, Live, Follows, DNS!LoadDNSCache
<1>4. CASE DNS!ClearFails
  BY <1>4 DEF DNS!ClearFails, CacheInv, CacheTyped, DNS!NoStuckEntry, DNS!Flushing, Live
<1> QED
  BY Zenon, <1>1, <1>2, <1>3, <1>4, SavePreserves, ReadPreserves, WritePreserves, CheckPreserves,
     CleanupPreserves DEF DNS!Next

\* Messages and sequence numbers are no greater than the number of saves.
Counted ==
    /\ saves \in 0..MaxSaves
    /\ \A k \in Keys :
         /\ saveDNSCache[k] # None => saveDNSCache[k].message \in 1..saves /\ saveDNSCache[k].sequence \in 1..saves
         /\ file[k] # None => file[k] \in 1..saves
         /\ newest[k] # None => newest[k] \in 1..saves
    /\ \A g \in DNS!Flushers : flusher[g].pc \in {"save", "check"} => flusher[g].entry.message \in 1..saves

LEMMA CountedInductive ==
    ASSUME Distinct, CacheInv, Counted, [DNS!Next]_(DNS!vars) PROVE Counted'
<1> USE DEF Distinct, CacheInv, CacheTyped, Counted
<1>1. ASSUME NEW k \in Keys, DNS!SaveDNSCacheAsync(k) PROVE Counted'
  <2>0. PICK g0 \in Nat : g0 = saves + 1
    OBVIOUS
  <2>1. /\ g0 \in 1..MaxSaves /\ saves' = g0 /\ UNCHANGED <<file, clearing>>
        /\ newest' = [newest EXCEPT ![k] = g0]
    BY <1>1, <2>0 DEF DNS!SaveDNSCacheAsync
  <2>2. /\ saveDNSCache'[k].message = g0 /\ saveDNSCache'[k].sequence \in 1..g0
        /\ \A j \in Keys \ {k} : saveDNSCache'[j] = saveDNSCache[j]
    BY <1>1, <2>0 DEF DNS!SaveDNSCacheAsync, Queued
  <2>3. \A g \in DNS!Flushers : flusher'[g].pc \in {"save", "check"} => flusher'[g] = flusher[g]
    BY <1>1, <2>0, <2>1 DEF DNS!SaveDNSCacheAsync, DNS!Idle, DNS!Flushers
  <2> QED
    BY <2>0, <2>1, <2>2, <2>3
<1>2. ASSUME NEW g \in DNS!Flushers, DNS!FlushRead(g) PROVE Counted'
  <2>1. /\ UNCHANGED <<saves, saveDNSCache, file, clearing, newest, excused>>
        /\ \A h \in DNS!Flushers \ {g} : flusher'[h] = flusher[h]
        /\ flusher'[g].entry = saveDNSCache[flusher[g].key]
        /\ flusher'[g].pc \in {"save", "check"} => saveDNSCache[flusher[g].key] # None
        /\ flusher[g].key \in Keys
    BY <1>2 DEF DNS!FlushRead, Goroutines, Live
  <2> QED
    BY Zenon, <2>1
<1>3. ASSUME NEW g \in DNS!Flushers, DNS!SaveDNSCache(g) PROVE Counted'
  <2>1. /\ UNCHANGED <<saves, saveDNSCache, clearing, newest, excused>>
        /\ \A h \in DNS!Flushers : flusher'[h].entry = flusher[h].entry
        /\ \A h \in DNS!Flushers \ {g} : flusher'[h].pc = flusher[h].pc
        /\ flusher[g].pc = "save" /\ flusher[g].key \in Keys
    BY <1>3 DEF DNS!SaveDNSCache, Goroutines, Live
  <2>2. \A j \in Keys : file'[j] \in {file[j], flusher[g].entry.message}
    BY <1>3 DEF DNS!SaveDNSCache
  <2> QED
    BY Zenon, <2>1, <2>2
<1>4. ASSUME NEW g \in DNS!Flushers, DNS!FlushCheck(g) PROVE Counted'
  <2>1. /\ UNCHANGED <<saves, file, clearing, newest>>
        /\ \A h \in DNS!Flushers : flusher'[h].entry = flusher[h].entry
        /\ \A h \in DNS!Flushers \ {g} : flusher'[h].pc = flusher[h].pc
        /\ flusher'[g].pc \notin {"save", "check"}
    BY <1>4 DEF DNS!FlushCheck, DNS!Again, Goroutines
  <2>2. \A j \in Keys : saveDNSCache'[j] \in {saveDNSCache[j], None}
    BY <1>4 DEF DNS!FlushCheck
  <2> QED
    BY Zenon, <2>1, <2>2
<1>5. CASE DNS!ClearPending
  BY <1>5 DEF DNS!ClearPending
<1>6. CASE DNS!ClearFile
  BY <1>6 DEF DNS!ClearFile
<1>7. CASE UNCHANGED DNS!vars
  BY <1>7 DEF DNS!vars
<1>8. CASE DNS!ClearFails
  BY <1>8 DEF DNS!ClearFails
<1>9. ASSUME NEW k \in Keys, DNS!cleanupDNSCache(k) PROVE Counted'
  BY <1>9 DEF DNS!cleanupDNSCache
<1> QED
  BY Zenon, <1>1, <1>2, <1>3, <1>4, <1>5, <1>6, <1>7, <1>8, <1>9 DEF DNS!Next

\* A load from the DNS cache gives the message saved last, and every queued
\* message has a goroutine that will write it, however many saves, clears and
\* clean-ups overlap (SaveDNSCacheAsync, flushPendingDNSCacheWith, ClearDNSCache,
\* cleanupDNSCache).
THEOREM DNSCacheHolds == ASSUME Distinct PROVE DNS!Spec => [](DNS!TypeOK /\ DNS!CacheFlushes)
<1>1. DNS!Init => CacheInv /\ Counted
  <2> SUFFICES ASSUME DNS!Init PROVE CacheInv /\ Counted
    OBVIOUS
  <2>1. flusher \in [DNS!Flushers -> Goroutines] /\ \A g \in DNS!Flushers : flusher[g].pc = "idle"
    BY DEF DNS!Init, DNS!Idle, Goroutines
  <2>2. CacheTyped
    BY ZenonT(30), <2>1 DEF DNS!Init, CacheTyped, Live
  <2>3. CacheInv
    BY <2>1, <2>2 DEF DNS!Init, CacheInv, DNS!NoStuckEntry, Sound, DNS!Flushing, Live, DNS!LoadDNSCache
  <2>4. Counted
    BY <2>1 DEF DNS!Init, Counted, Distinct
  <2> QED
    BY Zenon, <2>3, <2>4
<1>2. CacheInv /\ Counted /\ [DNS!Next]_(DNS!vars) => CacheInv' /\ Counted'
  BY Inductive, CountedInductive
<1>3. CacheInv => DNS!CacheFlushes
  BY DEF CacheInv, CacheTyped, Sound, DNS!CacheFlushes, DNS!NewestLoaded
<1>4. CacheInv /\ Counted => DNS!TypeOK
  <2> SUFFICES ASSUME CacheInv, Counted PROVE DNS!TypeOK
    OBVIOUS
  <2> USE DEF CacheInv, CacheTyped, Counted, DNS!Flushers, Distinct
  <2>1. saveDNSCache \in [Keys -> [message : DNS!Flushers, sequence : DNS!Flushers] \cup {None}]
    BY DEF Queued
  <2>2. /\ file \in [Keys -> DNS!Flushers \cup {None}]
        /\ newest \in [Keys -> DNS!Flushers \cup {None}]
    OBVIOUS
  <2>3. \A g \in DNS!Flushers : flusher[g].pc \in {"idle", "read", "save", "check", "done"}
    BY DEF Goroutines
  <2> QED
    BY Zenon, <2>1, <2>2, <2>3 DEF DNS!TypeOK
<1> QED
  BY <1>1, <1>2, <1>3, <1>4, PTL DEF DNS!Spec

-----------------------------------------------------------------------------
(* The usage statistics.                                                   *)

\* None is no number, and Close is no goroutine of saveAsync or of the timer.
UsageNamed ==
    MaxAdds \in Nat /\ MaxRuns \in Nat /\ None \notin Int /\ Usage!Closer \notin Savers

\* Nothing holds more usages than were added.
Bounded ==
    /\ combinations <= adds /\ schedulers <= adds
    /\ tmpFile # None => tmpFile <= adds
    /\ usageFile # None => usageFile <= adds
    /\ \A s \in Usage!Everyone : save[s].data <= adds

\* A save that nobody joined has no other beside it,
Apart ==
    \A s, o \in Usage!Everyone : Usage!Saving(s) /\ save[s].alone /\ Usage!Saving(o) => o = s

\* and they all are such saves while no two overlapped.
Clean ==
    "overlap" \notin usageExcused =>
        usageFile # Usage!Torn /\ \A s \in Usage!Everyone : Usage!Saving(s) => save[s].alone

\* Somebody has yet to take the statistics.
Pending ==
    schedulers > 0 \/ saveTimer \/ \E s \in Usage!Everyone : save[s].pc \in {"callback", "encode"}

\* Such a save has the temporary file for itself, and it has taken the
\* statistics as they are, unless somebody will take them again.
Undisturbed(s) ==
    /\ save[s].pc = "write" => save[s].fd = "tmp" /\ tmpFile = Usage!Torn
    /\ save[s].pc = "rename" => tmpFile = save[s].data
    /\ save[s].pc \in {"open", "write", "rename"} =>
         /\ save[s].data = combinations \/ Pending
         /\ "late" \notin usageExcused /\ ccm \in {"closing", "closed"} /\ save[Usage!Closer].pc # "encode"
            => save[s].data = combinations

\* The flag of scheduleSave is up only while the timer or its callback will
\* come; the save of Close runs exactly while Close does, and has saved what
\* there is once it has renamed the file.
Scheduled ==
    /\ pendingSave => saveTimer \/ \E s \in Usage!Everyone : save[s].pc = "callback"
    /\ save[Usage!Closer].pc = "idle" <=> ccm # "closing"
    /\ save[Usage!Closer].pc # "callback"
    /\ save[Usage!Closer].pc \in {"stamp", "remove"} /\ usageExcused = {} => Usage!Loaded = combinations
    /\ ccm = "down" => /\ schedulers = 0 /\ ~saveTimer
                       /\ \A s \in Usage!Everyone : save[s].pc = "idle"

UsageInv ==
    /\ Usage!TypeOK /\ Bounded /\ Apart /\ Clean /\ Scheduled /\ Usage!UsageKept
    /\ \A s \in Usage!Everyone : save[s].alone => Undisturbed(s)

Places == {"idle", "callback", "encode", "open", "write", "rename", "stamp", "remove"}

\* What save holds for a goroutine.
Savings == [pc : Places, data : 0..MaxAdds, fd : {"tmp", "file", "gone"}, alone : BOOLEAN]

\* The goroutine b has moved to the place at; the others are where they were.
Moves(b, at) ==
    /\ save'[b].pc = at
    /\ \A o \in Usage!Everyone : /\ save'[o].data = save[o].data /\ save'[o].alone = save[o].alone
                                 /\ o # b => save'[o].pc = save[o].pc

LEMMA CloserIsSaver == Usage!Closer \in Usage!Everyone
  BY DEF Usage!Everyone

LEMMA MovesTyped ==
    ASSUME Usage!TypeOK, NEW b \in Usage!Everyone, NEW at \in Places,
           save' = [save EXCEPT ![b].pc = at]
    PROVE  /\ save' \in [Usage!Everyone -> Savings] /\ Moves(b, at)
           /\ \A o \in Usage!Everyone : save'[o].fd = save[o].fd
  BY DEF Usage!TypeOK, Moves, Places, Savings

\* A step that leaves the saves and the files alone, and after which somebody
\* has yet to take the statistics.
LEMMA WaitingPreserves ==
    ASSUME UsageInv, Usage!TypeOK', Bounded', Pending', ccm # "down",
           UNCHANGED <<ccm, save, tmpFile, usageFile>>,
           usageExcused' = usageExcused \/ usageExcused' = usageExcused \cup {"late"},
           combinations' = combinations \/ ccm = "up" \/ "late" \in usageExcused',
           pendingSave' => saveTimer' \/ \E s \in Usage!Everyone : save[s].pc = "callback"
    PROVE  UsageInv'
<1>1. Apart' /\ Clean'
  BY DEF UsageInv, Apart, Clean, Usage!Saving
<1>2. Usage!Loaded' = Usage!Loaded /\ (usageExcused' = {} => usageExcused = {})
  BY DEF Usage!Loaded
<1>3. Scheduled'
  BY <1>2 DEF UsageInv, Scheduled
<1>4. Usage!WillBeSaved'
  BY DEF Pending, Usage!WillBeSaved
<1>5. Usage!UsageKept'
  BY <1>2, <1>4 DEF UsageInv, Usage!UsageKept
<1>6. \A s \in Usage!Everyone : save'[s].alone => Undisturbed(s)'
  BY CloserIsSaver DEF UsageInv, Undisturbed, Scheduled
<1> QED
  BY Zenon, <1>1, <1>3, <1>5, <1>6 DEF UsageInv

\* A step with which a goroutine begins, or goes from the callback of the timer
\* to the save.
LEMMA BeginningPreserves ==
    ASSUME UsageNamed, UsageInv, ccm # "down",
           NEW b \in Usage!Everyone, NEW at \in {"callback", "encode"},
           save[b].pc \in {"idle", "callback"}, save' = [save EXCEPT ![b].pc = at],
           ccm' = IF b = Usage!Closer THEN "closing" ELSE ccm, b = Usage!Closer => at = "encode",
           UNCHANGED <<combinations, recent, tmpFile, usageFile, adds, runs, usageExcused>>,
           schedulers' \in 0..schedulers, pendingSave' \in BOOLEAN, saveTimer' \in BOOLEAN,
           pendingSave' => saveTimer' \/ \E s \in Usage!Everyone : save'[s].pc = "callback"
    PROVE  UsageInv'
<1>1. /\ save' \in [Usage!Everyone -> Savings] /\ Moves(b, at)
      /\ \A o \in Usage!Everyone : save'[o].fd = save[o].fd
  BY Zenon, MovesTyped DEF UsageInv, Places
<1>2. Usage!TypeOK' /\ Bounded'
  <2>1. ccm' \in {"down", "up", "closing", "closed"}
    BY DEF UsageInv, Usage!TypeOK
  <2>2. schedulers' \in 0..MaxAdds /\ schedulers' <= adds
    BY DEF UsageInv, Usage!TypeOK, Bounded, UsageNamed
  <2>3. Usage!TypeOK'
    BY <1>1, <2>1, <2>2 DEF UsageInv, Usage!TypeOK, Savings, Places
  <2> QED
    BY Zenon, <1>1, <2>2, <2>3 DEF UsageInv, Bounded, Moves
<1>3. Apart' /\ Clean'
  BY <1>1 DEF UsageInv, Apart, Clean, Usage!Saving, Moves
<1>4. Pending' /\ Usage!WillBeSaved' /\ Usage!Loaded' = Usage!Loaded
  BY <1>1 DEF Pending, Usage!WillBeSaved, Moves, Usage!Loaded
<1>5. Scheduled'
  BY <1>1, <1>4, CloserIsSaver DEF UsageInv, Scheduled, Moves
<1>6. Usage!UsageKept'
  BY <1>4 DEF UsageInv, Usage!UsageKept
<1>7. \A s \in Usage!Everyone : save'[s].alone => Undisturbed(s)'
  BY <1>1, <1>4, CloserIsSaver DEF UsageInv, Undisturbed, Moves
<1> QED
  BY Zenon, <1>2, <1>3, <1>5, <1>6, <1>7 DEF UsageInv

LEMMA UsageLoadPreserves == ASSUME UsageNamed, UsageInv, Usage!Load PROVE UsageInv'
<1>1. Usage!Loaded \in 0..adds /\ combinations' = Usage!Loaded /\ Usage!Loaded' = Usage!Loaded
  BY DEF UsageInv, Usage!Load, Usage!Loaded, Usage!TypeOK, Bounded, UsageNamed, Usage!Torn
<1>2. Usage!TypeOK' /\ Bounded'
  BY <1>1 DEF UsageInv, Usage!Load, Usage!TypeOK, Bounded, UsageNamed
<1>3. Apart' /\ Clean'
  BY DEF UsageInv, Usage!Load, Apart, Clean, Usage!Saving
<1>4. \A s \in Usage!Everyone : save[s].pc = "idle" /\ save'[s].pc = "idle"
  BY DEF UsageInv, Usage!Load, Scheduled
<1>5. Scheduled' /\ Usage!UsageKept'
  BY <1>1, <1>4, CloserIsSaver DEF UsageInv, Usage!Load, Scheduled, Usage!UsageKept
<1>6. \A s \in Usage!Everyone : Undisturbed(s)'
  BY <1>4 DEF Undisturbed
<1> QED
  BY Zenon, <1>2, <1>3, <1>5, <1>6 DEF UsageInv

LEMMA UsageAddPreserves == ASSUME UsageNamed, UsageInv, Usage!AddUsageWithCycleHint PROVE UsageInv'
<1>1. Usage!TypeOK' /\ Bounded'
  BY DEF UsageInv, Usage!AddUsageWithCycleHint, Usage!TypeOK, Bounded, UsageNamed
<1>2. Pending'
  BY DEF UsageInv, Usage!AddUsageWithCycleHint, Usage!TypeOK, Pending
<1>3. pendingSave' => saveTimer' \/ \E s \in Usage!Everyone : save[s].pc = "callback"
  BY DEF UsageInv, Usage!AddUsageWithCycleHint, Scheduled
<1> QED
  BY Zenon, <1>1, <1>2, <1>3, WaitingPreserves DEF Usage!AddUsageWithCycleHint

LEMMA UsageElapsePreserves == ASSUME UsageNamed, UsageInv, Usage!Elapse PROVE UsageInv'
<1>1. Usage!TypeOK' /\ Bounded' /\ Apart' /\ Clean'
  BY Zenon DEF UsageInv, Usage!Elapse, Usage!TypeOK, Bounded, Apart, Clean, Usage!Saving
<1>2. Scheduled' /\ Usage!UsageKept'
  BY DEF UsageInv, Usage!Elapse, Scheduled, Usage!UsageKept, Usage!WillBeSaved, Usage!Loaded
<1>3. \A s \in Usage!Everyone : save'[s].alone => Undisturbed(s)'
  BY DEF UsageInv, Usage!Elapse, Undisturbed, Pending
<1> QED
  BY Zenon, <1>1, <1>2, <1>3 DEF UsageInv

\* The goroutine that begins was idle, and is not that of Close.
LEMMA Begins ==
    ASSUME UsageNamed, NEW at, Usage!Begin(at)
    PROVE  \E b \in Usage!Everyone : /\ save[b].pc = "idle" /\ b # Usage!Closer
                                     /\ save' = [save EXCEPT ![b].pc = at]
  BY Zenon DEF Usage!Begin, Usage!Everyone, UsageNamed

LEMMA SchedulePreserves == ASSUME UsageNamed, UsageInv, Usage!scheduleSave PROVE UsageInv'
<1>1. /\ schedulers' \in 0..schedulers /\ ccm # "down"
      /\ UNCHANGED <<ccm, combinations, recent, tmpFile, usageFile, adds, runs, usageExcused>>
  BY DEF Usage!scheduleSave, UsageInv, Usage!TypeOK, Scheduled
<1>2. pendingSave \in BOOLEAN /\ saveTimer \in BOOLEAN
  BY DEF UsageInv, Usage!TypeOK
<1>3. pendingSave => saveTimer \/ \E s \in Usage!Everyone : save[s].pc = "callback"
  BY DEF UsageInv, Scheduled
<1>4. CASE ~recent /\ Usage!Begin("encode") /\ UNCHANGED <<pendingSave, saveTimer>>
  <2>1. PICK b \in Usage!Everyone : /\ save[b].pc = "idle" /\ b # Usage!Closer
                                    /\ save' = [save EXCEPT ![b].pc = "encode"]
    BY <1>4, Begins
  <2>2. Moves(b, "encode")
    BY Zenon, <2>1, MovesTyped DEF UsageInv, Places
  <2>3. pendingSave' => saveTimer' \/ \E s \in Usage!Everyone : save'[s].pc = "callback"
    BY <1>3, <1>4, <2>1, <2>2 DEF Moves
  <2> QED
    BY Zenon, <1>1, <1>2, <1>4, <2>1, <2>3, BeginningPreserves
<1>5. CASE recent /\ UNCHANGED save /\ saveTimer' \in BOOLEAN /\ pendingSave'
           /\ (saveTimer' \/ \E s \in Usage!Everyone : save[s].pc = "callback")
  <2>1. pendingSave' \in BOOLEAN /\ schedulers' \in 0..MaxAdds /\ schedulers' <= adds
    <3>1. pendingSave' \in BOOLEAN
      BY Zenon, <1>5
    <3> QED
      BY <1>1, <3>1 DEF UsageInv, Usage!TypeOK, Bounded, UsageNamed
  <2>2. Usage!TypeOK' /\ Bounded'
    BY <1>1, <1>5, <2>1 DEF UsageInv, Usage!TypeOK, Bounded
  <2>3. Pending'
    BY <1>5 DEF Pending
  <2> QED
    BY Zenon, <1>1, <1>5, <2>2, <2>3, WaitingPreserves
<1> QED
  BY Zenon, <1>2, <1>3, <1>4, <1>5 DEF Usage!scheduleSave

LEMMA TimerPreserves == ASSUME UsageNamed, UsageInv, Usage!TimerFires PROVE UsageInv'
<1>1. PICK b \in Usage!Everyone : /\ save[b].pc = "idle" /\ b # Usage!Closer
                                  /\ save' = [save EXCEPT ![b].pc = "callback"]
  BY Begins DEF Usage!TimerFires
<1>2. /\ ccm # "down" /\ schedulers' \in 0..schedulers
      /\ pendingSave' \in BOOLEAN /\ saveTimer' = FALSE
      /\ UNCHANGED <<ccm, combinations, recent, tmpFile, usageFile, adds, runs, usageExcused>>
  BY DEF Usage!TimerFires, UsageInv, Usage!TypeOK, Scheduled
<1>3. save'[b].pc = "callback"
  BY Zenon, <1>1, MovesTyped DEF UsageInv, Places, Moves
<1> QED
  BY Zenon, <1>1, <1>2, <1>3, BeginningPreserves

LEMMA CallbackPreserves ==
    ASSUME UsageNamed, UsageInv, NEW s \in Usage!Everyone, Usage!TimerCallback(s)
    PROVE  UsageInv'
<1>1. /\ ccm # "down" /\ s # Usage!Closer /\ schedulers' \in 0..schedulers
      /\ pendingSave' = FALSE /\ saveTimer' \in BOOLEAN
      /\ UNCHANGED <<ccm, combinations, recent, tmpFile, usageFile, adds, runs, usageExcused>>
      /\ save[s].pc = "callback" /\ save' = [save EXCEPT ![s].pc = "encode"]
  BY DEF Usage!TimerCallback, Usage!PendingAfterTimer, UsageInv, Usage!TypeOK, Scheduled
<1> QED
  BY Zenon, <1>1, BeginningPreserves

LEMMA ClosePreserves == ASSUME UsageNamed, UsageInv, Usage!Close PROVE UsageInv'
<1>1. /\ ccm # "down" /\ ccm' = "closing" /\ schedulers' \in 0..schedulers
      /\ pendingSave' = FALSE /\ saveTimer' = FALSE
      /\ UNCHANGED <<combinations, recent, tmpFile, usageFile, adds, runs, usageExcused>>
      /\ save[Usage!Closer].pc = "idle" /\ save' = [save EXCEPT ![Usage!Closer].pc = "encode"]
  BY DEF Usage!Close, UsageInv, Usage!TypeOK, Scheduled
<1> QED
  BY Zenon, <1>1, CloserIsSaver, BeginningPreserves

LEMMA EncodePreserves ==
    ASSUME UsageNamed, UsageInv, NEW s \in Usage!Everyone, Usage!Encode(s)
    PROVE  UsageInv'
<1> DEFINE others == {o \in Usage!Everyone : Usage!Saving(o)}
           nobody == others = {}
<1>1. /\ nobody \in BOOLEAN /\ save[s].pc = "encode"
      /\ UNCHANGED <<ccm, combinations, schedulers, recent, pendingSave, saveTimer, tmpFile, usageFile, adds, runs>>
      /\ usageExcused' = usageExcused \cup (IF nobody THEN {} ELSE {"overlap"})
      /\ save' = [o \in Usage!Everyone |->
             IF o = s THEN [save[s] EXCEPT !.pc = "open", !.data = combinations, !.alone = nobody]
             ELSE IF o \in others THEN [save[o] EXCEPT !.alone = FALSE] ELSE save[o]]
  BY Zenon DEF Usage!Encode
<1>2. \A o \in Usage!Everyone : Usage!Saving(o) => o \in others /\ ~nobody
  OBVIOUS
<1>3. ~nobody => \E o \in Usage!Everyone : Usage!Saving(o)
  OBVIOUS
<1>4. \A o \in Usage!Everyone : o \in others => Usage!Saving(o)
  OBVIOUS
<1> HIDE DEF others, nobody
<1>5. /\ save' \in [Usage!Everyone -> Savings]
      /\ save'[s].pc = "open" /\ save'[s].data = combinations /\ save'[s].alone = nobody
      /\ \A o \in Usage!Everyone \ {s} :
           /\ save'[o].pc = save[o].pc /\ save'[o].data = save[o].data /\ save'[o].fd = save[o].fd
           /\ save'[o].alone = IF o \in others THEN FALSE ELSE save[o].alone
  <2>1. \A o \in Usage!Everyone : save[o] \in Savings
    BY DEF UsageInv, Usage!TypeOK, Savings, Places
  <2>2. combinations \in 0..MaxAdds
    BY DEF UsageInv, Usage!TypeOK
  <2> QED
    BY ONLY Zenon, <1>1, <2>1, <2>2, s \in Usage!Everyone DEF Savings, Places
<1>6. Usage!TypeOK' /\ Bounded'
  BY <1>1, <1>5 DEF UsageInv, Usage!TypeOK, Bounded, Savings, Places
<1>7. save[s].pc = "encode" /\ ~Usage!Saving(s)
  BY <1>1 DEF Usage!Saving
<1>8. Apart'
  <2>1. ASSUME NEW o \in Usage!Everyone, Usage!Saving(o)' PROVE o = s \/ Usage!Saving(o)
    BY Zenon, <1>5, <2>1 DEF Usage!Saving
  <2>2. ASSUME NEW o \in Usage!Everyone, o # s, Usage!Saving(o), save'[o].alone PROVE FALSE
    BY Zenon, <1>5, <1>2, <2>2
  <2> QED
    BY Zenon, <1>2, <1>5, <2>1, <2>2 DEF Apart
<1>9. Clean'
  BY <1>1, <1>2, <1>5 DEF UsageInv, Clean, Usage!Saving
<1>10. Usage!WillBeSaved'
  BY <1>1, <1>5 DEF Usage!WillBeSaved
<1>11. Scheduled'
  <2>1. ccm # "down" /\ \A o \in Usage!Everyone : save[o].pc = "callback" => save'[o].pc = "callback"
    BY <1>1, <1>5, <1>7 DEF UsageInv, Scheduled
  <2>2. /\ usageExcused' = {} => usageExcused = {}
        /\ Usage!Loaded' = Usage!Loaded /\ combinations' = combinations
    BY <1>1 DEF Usage!Loaded
  <2>3. CASE s = Usage!Closer
    BY <1>1, <1>5, <2>1, <2>3 DEF UsageInv, Scheduled
  <2>4. CASE s # Usage!Closer
    BY <1>1, <1>5, <2>1, <2>2, <2>4, CloserIsSaver DEF UsageInv, Scheduled
  <2> QED
    BY Zenon, <2>3, <2>4
<1>12. Usage!UsageKept'
  BY <1>1, <1>10 DEF UsageInv, Usage!UsageKept, Usage!Loaded
<1>13. ASSUME NEW o \in Usage!Everyone, save'[o].alone PROVE Undisturbed(o)'
  BY <1>1, <1>2, <1>5, <1>13, CloserIsSaver DEF UsageInv, Undisturbed, Usage!Saving
<1> QED
  BY Zenon, <1>6, <1>8, <1>9, <1>11, <1>12, <1>13 DEF UsageInv

\* A save that fails leaves the others as they are.
LEMMA FailPreserves ==
    ASSUME UsageNamed, UsageInv, NEW s \in Usage!Everyone, save[s].pc \in {"open", "write"},
           Usage!Fails(s),
           \/ UNCHANGED <<tmpFile, usageFile>>
           \/ save[s].pc = "write" /\ Usage!Put(save[s].fd, Usage!Torn),
           UNCHANGED <<combinations, schedulers, recent, pendingSave, saveTimer, adds, runs>>
    PROVE  UsageInv'
<1>1. /\ save' \in [Usage!Everyone -> Savings] /\ save'[s].pc = "idle" /\ save'[s].data = 0
      /\ \A o \in Usage!Everyone \ {s} : save'[o] = save[o]
      /\ ccm' = IF s = Usage!Closer THEN "closed" ELSE ccm
      /\ usageExcused' = usageExcused \cup {"failed"}
  BY DEF UsageInv, Usage!Fails, Usage!End, Usage!TypeOK, Savings, Places, Usage!NoSave, UsageNamed
<1>2. /\ tmpFile' \in {tmpFile, Usage!Torn} /\ usageFile' \in {usageFile, Usage!Torn}
      /\ Usage!Torn \in -1..MaxAdds /\ Usage!Torn <= adds
  BY DEF UsageInv, Usage!Put, Usage!Torn, Usage!TypeOK, UsageNamed
<1>3. Usage!TypeOK'
  BY <1>1, <1>2 DEF UsageInv, Usage!TypeOK, Savings, Places
<1>4. Bounded'
  BY <1>1, <1>2 DEF UsageInv, Usage!TypeOK, Bounded
<1>5. Usage!Saving(s)
  BY DEF Usage!Saving
<1>6. "overlap" \notin usageExcused => usageFile' = usageFile
  BY <1>5 DEF UsageInv, Clean, Undisturbed, Usage!Put
<1>7. Apart' /\ Clean'
  BY <1>1, <1>6 DEF UsageInv, Apart, Clean, Usage!Saving
<1>8. Scheduled'
  BY Zenon, <1>1, CloserIsSaver DEF UsageInv, Scheduled
<1>9. Usage!UsageKept'
  BY Zenon, <1>1, <1>6 DEF UsageInv, Usage!UsageKept
<1>10. ASSUME NEW o \in Usage!Everyone, save'[o].alone PROVE Undisturbed(o)'
  BY <1>1, <1>5, <1>10 DEF UsageInv, Undisturbed, Apart, Usage!Saving
<1> QED
  BY Zenon, <1>3, <1>4, <1>7, <1>8, <1>9, <1>10 DEF UsageInv

\* The places between the first and the last of Save.
Inside == {"open", "write", "rename", "stamp", "remove"}

LEMMA InsideFacts ==
    ASSUME UsageInv, NEW s \in Usage!Everyone, save[s].pc \in Inside
    PROVE  /\ ccm # "down" /\ Usage!Saving(s) /\ save[s].data \in 0..MaxAdds /\ save[s].data <= adds
           /\ "overlap" \notin usageExcused => save[s].alone
           /\ save[s].alone => Undisturbed(s) /\ \A o \in Usage!Everyone : Usage!Saving(o) => o = s
<1>1. ccm # "down" /\ Usage!Saving(s)
  BY DEF UsageInv, Scheduled, Inside, Usage!Saving
<1>2. save[s].data \in 0..MaxAdds /\ save[s].data <= adds
  BY DEF UsageInv, Usage!TypeOK, Bounded
<1> QED
  BY Zenon, <1>1, <1>2 DEF UsageInv, Clean, Apart

\* What a save does inside of Save changes nothing but the files and, when it
\* has renamed the file, what is excused.
LEMMA InsidePreserves ==
    ASSUME UsageInv, NEW s \in Usage!Everyone, save[s].pc \in Inside, NEW to \in Inside,
           save' \in [Usage!Everyone -> Savings], Moves(s, to),
           tmpFile' \in -1..MaxAdds \cup {None}, tmpFile' # None => tmpFile' <= adds,
           usageFile' \in -1..MaxAdds \cup {None}, usageFile' # None => usageFile' <= adds,
           usageExcused' \subseteq usageExcused \cup {"failed"}, recent' \in BOOLEAN,
           UNCHANGED <<ccm, combinations, schedulers, pendingSave, saveTimer, adds, runs>>,
           "overlap" \notin usageExcused' => save[s].alone /\ usageFile' # Usage!Torn,
           save'[Usage!Closer].pc \in {"stamp", "remove"} /\ usageExcused' = {} =>
               Usage!Loaded' = combinations,
           save[s].alone => Undisturbed(s)', Usage!UsageKept'
    PROVE  UsageInv'
<1>1. Usage!TypeOK'
  BY SMTT(20) DEF UsageInv, Usage!TypeOK, Savings, Places
<1>2. Bounded'
  BY DEF UsageInv, Bounded, Moves
<1>3. Usage!Saving(s) /\ to \notin {"idle", "callback", "encode"} /\ ccm # "down"
  BY Zenon, InsideFacts DEF Inside
<1>4. \A o \in Usage!Everyone : Usage!Saving(o)' <=> Usage!Saving(o)
  BY Zenon, <1>3 DEF Usage!Saving, Moves
<1>5. Apart' /\ Clean'
  BY Zenon, <1>3, <1>4 DEF UsageInv, Apart, Clean, Moves
<1>6. /\ pendingSave' => saveTimer' \/ \E o \in Usage!Everyone : save'[o].pc = "callback"
      /\ save'[Usage!Closer].pc = "idle" <=> ccm' # "closing"
      /\ save'[Usage!Closer].pc # "callback"
  BY Zenon, <1>3, CloserIsSaver DEF UsageInv, Scheduled, Moves, Usage!Saving
<1>7. Scheduled'
  BY Zenon, <1>3, <1>6 DEF Scheduled
<1>8. ASSUME NEW o \in Usage!Everyone, o # s, save'[o].alone PROVE Undisturbed(o)'
  BY Zenon, <1>3, <1>8 DEF UsageInv, Apart, Undisturbed, Usage!Saving, Moves
<1> QED
  BY Zenon, <1>1, <1>2, <1>5, <1>7, <1>8 DEF UsageInv, Moves

LEMMA InsideMoves ==
    ASSUME NEW s \in Usage!Everyone, save[s].pc \in Inside, NEW to \in Inside, Moves(s, to),
           UNCHANGED <<combinations, schedulers, saveTimer>>
    PROVE  /\ Pending' <=> Pending
           /\ to \in {"write", "rename"} \/ save[s].pc \in {"stamp", "remove"} =>
                  (Usage!WillBeSaved => Usage!WillBeSaved')
<1>1. Pending' <=> Pending
  BY DEF Moves, Inside, Pending
<1> QED
  BY Zenon, <1>1 DEF Moves, Inside, Usage!WillBeSaved

LEMMA OpenPreserves ==
    ASSUME UsageNamed, UsageInv, NEW s \in Usage!Everyone, Usage!Open(s)
    PROVE  UsageInv'
<1>1. /\ save[s].pc = "open"
      /\ UNCHANGED <<combinations, schedulers, recent, pendingSave, saveTimer, adds, runs>>
  BY DEF Usage!Open
<1>2. CASE Usage!Fails(s) /\ UNCHANGED <<tmpFile, usageFile>>
  BY <1>1, <1>2, FailPreserves
<1>3. CASE /\ save' = [save EXCEPT ![s].pc = "write", ![s].fd = "tmp"]
           /\ tmpFile' = Usage!Torn /\ UNCHANGED <<ccm, usageFile, usageExcused>>
  <2>1. /\ save' \in [Usage!Everyone -> Savings] /\ Moves(s, "write") /\ save'[s].fd = "tmp"
        /\ recent' \in BOOLEAN
    BY Zenon, <1>1, <1>3 DEF UsageInv, Usage!TypeOK, Moves, Savings, Places
  <2>2. /\ tmpFile' \in -1..MaxAdds \cup {None} /\ tmpFile' <= adds
        /\ usageFile' \in -1..MaxAdds \cup {None} /\ (usageFile' # None => usageFile' <= adds)
    BY <1>3 DEF UsageInv, Usage!Torn, Usage!TypeOK, UsageNamed, Bounded
  <2>3. /\ "overlap" \notin usageExcused => save[s].alone
        /\ save[s].alone => Undisturbed(s)
    BY <1>1, InsideFacts DEF Inside
  <2>4. (Pending' <=> Pending) /\ (Usage!WillBeSaved => Usage!WillBeSaved')
    BY <1>1, <2>1, InsideMoves DEF Inside
  <2>5. Usage!Loaded' = Usage!Loaded
    BY <1>3 DEF Usage!Loaded
  <2>6. "overlap" \notin usageExcused' => save[s].alone /\ usageFile' # Usage!Torn
    BY <1>3, <2>3 DEF UsageInv, Clean
  <2>7. save'[Usage!Closer].pc \in {"stamp", "remove"} /\ usageExcused' = {} =>
            Usage!Loaded' = combinations
    BY <1>3, <2>1, <2>5, CloserIsSaver DEF UsageInv, Scheduled, Moves
  <2>8. save[s].alone => Undisturbed(s)'
    BY <1>1, <1>3, <2>1, <2>3, <2>4, CloserIsSaver DEF Undisturbed, Moves
  <2>9. Usage!UsageKept'
    BY <1>1, <1>3, <2>4, <2>5 DEF UsageInv, Usage!UsageKept
  <2> QED
    BY Zenon, <1>1, <1>3, <2>1, <2>2, <2>6, <2>7, <2>8, <2>9, InsidePreserves DEF Inside
<1> QED
  BY Zenon, <1>2, <1>3 DEF Usage!Open, Usage!Put, Usage!TmpName

LEMMA WritePreservesUsage ==
    ASSUME UsageNamed, UsageInv, NEW s \in Usage!Everyone, Usage!Write(s)
    PROVE  UsageInv'
<1>1. /\ save[s].pc = "write"
      /\ UNCHANGED <<combinations, schedulers, recent, pendingSave, saveTimer, adds, runs>>
  BY DEF Usage!Write
<1>2. CASE Usage!Put(save[s].fd, Usage!Torn) /\ Usage!Fails(s)
  BY <1>1, <1>2, FailPreserves
<1>3. ASSUME NEW data \in Usage!Written(s), Usage!Put(save[s].fd, data),
             save' = [save EXCEPT ![s].pc = "rename"], UNCHANGED <<ccm, usageExcused>>
      PROVE  UsageInv'
  <2>1. save' \in [Usage!Everyone -> Savings] /\ Moves(s, "rename") /\ recent' \in BOOLEAN
    BY Zenon, <1>1, <1>3, MovesTyped DEF UsageInv, Usage!TypeOK, Places
  <2>2. /\ "overlap" \notin usageExcused => save[s].alone
        /\ save[s].alone => Undisturbed(s)
        /\ save[s].data \in 0..MaxAdds /\ save[s].data <= adds
    BY <1>1, InsideFacts DEF Inside
  <2>3. data \in -1..MaxAdds /\ data <= adds
    BY <1>3, <2>2 DEF UsageInv, Usage!TypeOK, Usage!Written, Usage!Torn, UsageNamed
  <2>4. /\ tmpFile' \in -1..MaxAdds \cup {None} /\ (tmpFile' # None => tmpFile' <= adds)
        /\ usageFile' \in -1..MaxAdds \cup {None} /\ (usageFile' # None => usageFile' <= adds)
    BY <1>3, <2>3 DEF UsageInv, Usage!Put, Usage!TypeOK, Bounded
  <2>5. save[s].alone => tmpFile' = save[s].data /\ usageFile' = usageFile
    BY <1>1, <1>3, <2>2 DEF Undisturbed, Usage!Written, Usage!Put
  <2>6. (Pending' <=> Pending) /\ (Usage!WillBeSaved => Usage!WillBeSaved')
    BY <1>1, <2>1, InsideMoves DEF Inside
  <2>7. "overlap" \notin usageExcused => Usage!Loaded' = Usage!Loaded /\ usageFile' = usageFile
    BY <2>2, <2>5 DEF Usage!Loaded
  <2>8. "overlap" \notin usageExcused' => save[s].alone /\ usageFile' # Usage!Torn
    BY <1>3, <2>2, <2>7 DEF UsageInv, Clean
  <2>9. save'[Usage!Closer].pc \in {"stamp", "remove"} /\ usageExcused' = {} =>
            Usage!Loaded' = combinations
    BY <1>3, <2>1, <2>7, CloserIsSaver DEF UsageInv, Scheduled, Moves
  <2>10. save[s].alone => Undisturbed(s)'
    BY <1>1, <1>3, <2>1, <2>2, <2>5, <2>6, CloserIsSaver DEF Undisturbed, Moves
  <2>11. Usage!UsageKept'
    BY <1>1, <1>3, <2>6, <2>7 DEF UsageInv, Usage!UsageKept
  <2> QED
    BY Zenon, <1>1, <1>3, <2>1, <2>4, <2>8, <2>9, <2>10, <2>11, InsidePreserves DEF Inside
<1> QED
  BY Zenon, <1>2, <1>3 DEF Usage!Write

LEMMA RenamePreserves ==
    ASSUME UsageNamed, UsageInv, NEW s \in Usage!Everyone, Usage!Rename(s)
    PROVE  UsageInv'
<1>1. /\ save[s].pc = "rename"
      /\ UNCHANGED <<ccm, combinations, schedulers, recent, pendingSave, saveTimer, adds, runs>>
  BY DEF Usage!Rename
<1>2. /\ tmpFile \in -1..MaxAdds \cup {None} /\ (tmpFile # None => tmpFile <= adds)
      /\ usageFile \in -1..MaxAdds \cup {None} /\ (usageFile # None => usageFile <= adds)
      /\ recent \in BOOLEAN
  BY DEF UsageInv, Usage!TypeOK, Bounded
<1>3. /\ save[s].data \in 0..MaxAdds
      /\ "overlap" \notin usageExcused => save[s].alone
      /\ save[s].alone => Undisturbed(s) /\ \A o \in Usage!Everyone : Usage!Saving(o) => o = s
  BY <1>1, InsideFacts DEF Inside
<1>4. save[s].alone => tmpFile = save[s].data /\ tmpFile # None
  BY <1>1, <1>3 DEF Undisturbed, UsageNamed
<1>5. CASE /\ tmpFile = None /\ save' = [save EXCEPT ![s].pc = "remove"]
           /\ UNCHANGED <<tmpFile, usageFile, usageExcused>>
  <2>1. save' \in [Usage!Everyone -> Savings] /\ Moves(s, "remove")
    BY Zenon, <1>5, MovesTyped DEF UsageInv, Places
  <2>2. ~save[s].alone /\ "overlap" \in usageExcused'
    BY <1>3, <1>4, <1>5
  <2>3. Usage!UsageKept'
    BY <2>2 DEF Usage!UsageKept
  <2> QED
    BY Zenon, <1>1, <1>2, <1>5, <2>1, <2>2, <2>3, InsidePreserves DEF Inside
<1>6. CASE /\ tmpFile # None /\ usageFile' = tmpFile /\ tmpFile' = None
           /\ save' = [[o \in Usage!Everyone |-> Usage!Moved(o)] EXCEPT ![s].pc = "stamp"]
           /\ usageExcused' = IF save[s].alone THEN usageExcused \ {"overlap", "failed"} ELSE usageExcused
  <2>1. save' \in [Usage!Everyone -> Savings] /\ Moves(s, "stamp")
    <3>1. \A o \in Usage!Everyone :
            /\ Usage!Moved(o) \in Savings /\ Usage!Moved(o).pc = save[o].pc
            /\ Usage!Moved(o).data = save[o].data /\ Usage!Moved(o).alone = save[o].alone
      BY DEF UsageInv, Usage!TypeOK, Usage!Moved, Savings, Places
    <3>2. PICK m : m = [o \in Usage!Everyone |-> Usage!Moved(o)]
      BY Zenon
    <3>3. /\ m \in [Usage!Everyone -> Savings]
          /\ \A o \in Usage!Everyone : /\ m[o].pc = save[o].pc /\ m[o].data = save[o].data
                                       /\ m[o].alone = save[o].alone
      BY ONLY <3>1, <3>2
    <3>4. save' = [m EXCEPT ![s].pc = "stamp"]
      BY <1>6, <3>2
    <3> QED
      BY ONLY <3>3, <3>4, s \in Usage!Everyone DEF Moves, Savings, Places
  <2>2. (Pending' <=> Pending) /\ (Pending' => Usage!WillBeSaved')
    <3>1. Pending' <=> Pending
      BY <1>1, <2>1, InsideMoves DEF Inside
    <3> QED
      BY Zenon, <3>1 DEF Pending, Usage!WillBeSaved
  <2>3. /\ "overlap" \notin usageExcused' => save[s].alone
        /\ "late" \in usageExcused => "late" \in usageExcused'
    BY <1>3, <1>6
  <2>4. save[s].alone => usageFile' # Usage!Torn /\ Usage!Loaded' = save[s].data
    BY SMTT(20), <1>3, <1>4, <1>6 DEF Usage!Loaded, Usage!Torn, UsageNamed
  <2>5. /\ save[s].alone => save[s].data = combinations \/ Pending
        /\ save[s].alone /\ "late" \notin usageExcused /\ (ccm = "closed" \/ s = Usage!Closer)
               => save[s].data = combinations
    BY <1>1, <1>3 DEF UsageInv, Undisturbed, Scheduled
  <2>6. save[s].alone /\ save'[Usage!Closer].pc \in {"stamp", "remove"} => s = Usage!Closer
    BY <1>3, <2>1, CloserIsSaver DEF Moves, Usage!Saving
  <2>7. save'[Usage!Closer].pc \in {"stamp", "remove"} /\ usageExcused' = {} =>
            Usage!Loaded' = combinations
    BY <2>3, <2>4, <2>5, <2>6
  <2>8. Undisturbed(s)'
    BY <2>1 DEF Undisturbed, Moves
  <2>9. Usage!UsageKept'
    BY <1>1, <2>2, <2>3, <2>4, <2>5 DEF Usage!UsageKept
  <2> QED
    BY Zenon, <1>1, <1>2, <1>6, <2>1, <2>3, <2>4, <2>7, <2>8, <2>9, InsidePreserves DEF Inside
<1>7. CASE /\ tmpFile # None /\ save' = [save EXCEPT ![s].pc = "remove"]
           /\ usageExcused' = usageExcused \cup {"failed"} /\ UNCHANGED <<tmpFile, usageFile>>
  <2>1. save' \in [Usage!Everyone -> Savings] /\ Moves(s, "remove")
    BY Zenon, <1>7, MovesTyped DEF UsageInv, Places
  <2>2. "overlap" \notin usageExcused' => save[s].alone /\ usageFile' # Usage!Torn
    BY <1>3, <1>7 DEF UsageInv, Clean
  <2>3. Usage!UsageKept'
    BY <1>7 DEF UsageInv, Usage!UsageKept
  <2>4. Undisturbed(s)'
    BY <2>1 DEF Undisturbed, Moves
  <2> QED
    BY Zenon, <1>1, <1>2, <1>7, <2>1, <2>2, <2>3, <2>4, InsidePreserves DEF Inside
<1> QED
  BY Zenon, <1>5, <1>6, <1>7 DEF Usage!Rename

LEMMA StampPreserves ==
    ASSUME UsageNamed, UsageInv, NEW s \in Usage!Everyone, Usage!Stamp(s)
    PROVE  UsageInv'
<1>1. /\ save[s].pc = "stamp" /\ save' = [save EXCEPT ![s].pc = "remove"] /\ recent' = TRUE
      /\ UNCHANGED <<ccm, combinations, schedulers, pendingSave, saveTimer, tmpFile, usageFile,
                     adds, runs, usageExcused>>
  BY DEF Usage!Stamp
<1>2. save' \in [Usage!Everyone -> Savings] /\ Moves(s, "remove")
  BY Zenon, <1>1, MovesTyped DEF UsageInv, Places
<1>3. /\ tmpFile' \in -1..MaxAdds \cup {None} /\ (tmpFile' # None => tmpFile' <= adds)
      /\ usageFile' \in -1..MaxAdds \cup {None} /\ (usageFile' # None => usageFile' <= adds)
  BY <1>1 DEF UsageInv, Usage!TypeOK, Bounded
<1>4. Usage!Loaded' = Usage!Loaded /\ (Usage!WillBeSaved => Usage!WillBeSaved')
  BY <1>1, <1>2, InsideMoves DEF Inside, Usage!Loaded
<1>5. "overlap" \notin usageExcused' => save[s].alone /\ usageFile' # Usage!Torn
  BY <1>1, InsideFacts DEF UsageInv, Clean, Inside
<1>6. save'[Usage!Closer].pc \in {"stamp", "remove"} /\ usageExcused' = {} =>
          Usage!Loaded' = combinations
  BY <1>1, <1>2, <1>4, CloserIsSaver DEF UsageInv, Scheduled, Moves
<1>7. Undisturbed(s)'
  BY <1>2 DEF Undisturbed, Moves
<1>8. Usage!UsageKept'
  BY <1>1, <1>4 DEF UsageInv, Usage!UsageKept
<1> QED
  BY Zenon, <1>1, <1>2, <1>3, <1>5, <1>6, <1>7, <1>8, InsidePreserves DEF Inside

LEMMA RemovePreserves ==
    ASSUME UsageNamed, UsageInv, NEW s \in Usage!Everyone, Usage!Remove(s)
    PROVE  UsageInv'
<1>1. /\ save[s].pc = "remove" /\ tmpFile' = None
      /\ ccm' = IF s = Usage!Closer THEN "closed" ELSE ccm
      /\ UNCHANGED <<combinations, schedulers, recent, pendingSave, saveTimer, usageFile, adds, runs,
                     usageExcused>>
  BY DEF Usage!Remove, Usage!End
<1>2. /\ save' \in [Usage!Everyone -> Savings] /\ save'[s].pc = "idle" /\ save'[s].data = 0
      /\ \A o \in Usage!Everyone \ {s} :
           save'[o].pc = save[o].pc /\ save'[o].data = save[o].data /\ save'[o].alone = save[o].alone
  BY DEF UsageInv, Usage!Remove, Usage!TypeOK, Savings, Places, Usage!NoSave, UsageNamed
<1>3. Usage!TypeOK' /\ Bounded'
  BY <1>1, <1>2 DEF UsageInv, Usage!TypeOK, Bounded, Savings, Places
<1>4. Usage!Saving(s) /\ Usage!Loaded' = Usage!Loaded
  BY SMTT(20), <1>1 DEF Usage!Saving, Usage!Loaded
<1>5. Apart' /\ Clean'
  BY <1>1, <1>2 DEF UsageInv, Apart, Clean, Usage!Saving
<1>6. Scheduled'
  BY Zenon, <1>1, <1>2, <1>4, CloserIsSaver DEF UsageInv, Scheduled
<1>7. Usage!WillBeSaved => Usage!WillBeSaved'
  BY Zenon, <1>1, <1>2 DEF Usage!WillBeSaved
<1>8. ccm' = "closed" /\ usageExcused = {} => Usage!Loaded = combinations
  BY <1>1 DEF UsageInv, Scheduled, Usage!UsageKept
<1>9. Usage!UsageKept'
  BY SMTT(20), <1>1, <1>4, <1>7, <1>8 DEF UsageInv, Usage!UsageKept
<1>10. ASSUME NEW o \in Usage!Everyone, save'[o].alone PROVE Undisturbed(o)'
  BY <1>1, <1>2, <1>4, <1>10 DEF UsageInv, Undisturbed, Apart, Usage!Saving
<1> QED
  BY Zenon, <1>3, <1>5, <1>6, <1>9, <1>10 DEF UsageInv

LEMMA ExitPreserves == ASSUME UsageNamed, UsageInv, Usage!Exit PROVE UsageInv'
<1> USE DEF Usage!Exit
<1>1. /\ save' \in [Usage!Everyone -> Savings]
      /\ \A o \in Usage!Everyone : save'[o].pc = "idle" /\ save'[o].data = 0
  BY DEF Usage!NoSave, Savings, Places, UsageNamed
<1>2. recent' \in BOOLEAN /\ pendingSave' \in BOOLEAN /\ saveTimer' \in BOOLEAN
  BY Zenon
<1>3. Usage!TypeOK' /\ Bounded'
  BY <1>1, <1>2 DEF UsageInv, Usage!TypeOK, Bounded, Savings, Places, UsageNamed
<1>4. Apart' /\ Clean'
  BY Zenon, <1>1 DEF UsageInv, Apart, Clean, Usage!Saving
<1>5. Scheduled' /\ Usage!UsageKept'
  BY <1>1, CloserIsSaver DEF UsageInv, Scheduled, Usage!UsageKept
<1>6. \A o \in Usage!Everyone : Undisturbed(o)'
  BY <1>1 DEF Undisturbed
<1> QED
  BY Zenon, <1>3, <1>4, <1>5, <1>6 DEF UsageInv

\* What ccm has counted is in its file or will be saved, and the file is whole
\* whenever the process is killed, for any number of requests, saving
\* goroutines and restarts (scheduleSave, Save and Close).
THEOREM UsageKeptHolds == ASSUME UsageNamed PROVE Usage!Spec => [](Usage!TypeOK /\ Usage!UsageKept)
<1>1. Usage!Init => UsageInv
  <2> SUFFICES ASSUME Usage!Init PROVE UsageInv
    OBVIOUS
  <2> USE DEF Usage!Init
  <2>1. /\ save \in [Usage!Everyone -> Savings]
        /\ \A o \in Usage!Everyone : save[o].pc = "idle" /\ save[o].data = 0
    BY DEF Usage!NoSave, Savings, Places, UsageNamed
  <2>2. recent \in BOOLEAN /\ pendingSave \in BOOLEAN /\ saveTimer \in BOOLEAN
    BY Zenon
  <2>3. Usage!TypeOK /\ Bounded
    BY <2>1, <2>2 DEF Usage!TypeOK, Bounded, Savings, Places, UsageNamed
  <2>4. Apart /\ Clean /\ \A o \in Usage!Everyone : Undisturbed(o)
    BY <2>1 DEF Apart, Clean, Usage!Saving, Undisturbed, UsageNamed, Usage!Torn
  <2>5. Scheduled /\ Usage!UsageKept
    BY <2>1, CloserIsSaver DEF Scheduled, Usage!UsageKept, UsageNamed, Usage!Torn
  <2> QED
    BY Zenon, <2>3, <2>4, <2>5 DEF UsageInv
<1>2. UsageInv /\ [Usage!Next]_(Usage!usageVars) => UsageInv'
  <2> SUFFICES ASSUME UsageInv, [Usage!Next]_(Usage!usageVars) PROVE UsageInv'
    OBVIOUS
  <2>1. CASE UNCHANGED Usage!usageVars
    <3>1. Usage!TypeOK' /\ Bounded' /\ Apart' /\ Clean'
      BY <2>1 DEF UsageInv, Usage!usageVars, Usage!TypeOK, Bounded, Apart, Clean, Usage!Saving
    <3>2. Scheduled' /\ Usage!UsageKept'
      BY <2>1 DEF UsageInv, Usage!usageVars, Scheduled, Usage!UsageKept, Usage!WillBeSaved, Usage!Loaded
    <3>3. \A s \in Usage!Everyone : save'[s].alone => Undisturbed(s)'
      BY Zenon, <2>1 DEF UsageInv, Usage!usageVars, Undisturbed, Pending
    <3> QED
      BY Zenon, <3>1, <3>2, <3>3 DEF UsageInv
  <2> QED
    BY Zenon, <2>1, UsageLoadPreserves, UsageAddPreserves, SchedulePreserves, TimerPreserves,
       UsageElapsePreserves, ClosePreserves, ExitPreserves, CallbackPreserves, EncodePreserves,
       OpenPreserves, WritePreservesUsage, RenamePreserves, StampPreserves, RemovePreserves
       DEF Usage!Next
<1>3. UsageInv => Usage!TypeOK /\ Usage!UsageKept
  BY DEF UsageInv
<1> QED
  BY <1>1, <1>2, <1>3, PTL DEF Usage!Spec

-----------------------------------------------------------------------------
\* The fakeip store, the DNS cache and the usage statistics, whatever their
\* steps and however these interleave: each keeps what it promises to the next
\* process or the next query.
THEOREM CacheFlushesHolds ==
    ASSUME MaxStarts \in Nat, Distinct, UsageNamed
    PROVE  Spec /\ DNS!Spec /\ Usage!Spec => []CacheFlushes
<1>1. TypeOK /\ DNS!TypeOK /\ DNS!CacheFlushes /\ Usage!TypeOK /\ Usage!UsageKept => CacheFlushes
  BY DEF CacheFlushes
<1> QED
  BY <1>1, StoreTypes, DNSCacheHolds, UsageKeptHolds, PTL
=============================================================================
