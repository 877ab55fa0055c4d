--------------------------- MODULE DNSClientProofs ---------------------------
(***************************************************************************)
(* Proofs about the DNS client (dns/client.go), for every value of its     *)
(* constants and without the bounds of the model-checked instance.         *)
(***************************************************************************)
EXTENDS DNSClient, TLAPS

Asked == [checker : BOOLEAN, lookup : BOOLEAN, optimistic : BOOLEAN, cache : {"yes", "no", "subnet"}]
Made == [checker : BOOLEAN, lookup : BOOLEAN, optimistic : BOOLEAN, cache : {"yes", "no", "subnet"},
         key : Keys, parent : Requests \cup {None}, above : SUBSET Requests]
Refreshes == [phase : {"asking", "reading", "ending"}, checker : BOOLEAN]

\* None is no request, no cache entry, no refresh and no result.
ClientNamed ==
    /\ Options \subseteq Asked /\ Resolve \in Asked
    /\ None \notin Requests /\ None \notin Entry /\ None \notin Made /\ None \notin Refreshes
    /\ None \notin Answers \cup Errors

Holding == {"load", "check", "upstream", "dialling", "asking", "reading", "unlock"}
Ending == {"unlock", "close", "done"}

ClientTyped ==
    /\ TypeOK
    /\ req \in [Requests -> Made \cup {None}]
    /\ \A r \in Requests : pc[r] # "idle" => req[r] # None
    /\ \A r \in Requests : pc[r] \in Ending => result[r] # None

\* The owner of a key's channel is on its way to the deferred release, and only
\* the owner of its key's channel runs it.
Locks ==
    /\ \A k \in Keys : cacheLock[k] # None => req[cacheLock[k]].key = k /\ pc[cacheLock[k]] \in Holding
    /\ \A r \in Requests : pc[r] = "unlock" => cacheLock[req[r].key] = r
    /\ \A r \in Requests : pc[r] = "wait" =>
         /\ waitOn[r] # None
         /\ \/ waitOn[r] \in signalled \/ cacheLock[req[r].key] = waitOn[r] \/ pc[waitOn[r]] = "close"

Filtered ==
    /\ \A k \in Keys : cache[k] # None /\ cache[k].checked => cache[k].answer # "bad"
    /\ \A r \in Requests : pc[r] \in Ending /\ req[r].checker /\ result[r] = "bad" => r \in fromCache

ClientInv == ClientTyped /\ Locks /\ Filtered

LEMMA ClientInit == ASSUME ClientNamed, Init PROVE ClientInv
<1>1. TypeOK
  BY DEF Init, TypeOK, ClientNamed
<1> QED
  BY <1>1 DEF Init, ClientInv, ClientTyped, Locks, Filtered, ClientNamed, Ending

\* A request goes from one place of Exchange to another; Ends says with what it
\* returns there.
LEMMA ClientMoves ==
    ASSUME ClientNamed, ClientInv, NEW r \in Requests, NEW l,
           pc' = [pc EXCEPT ![r] = l],
           l \in (Holding \cup Ending \cup {"wait", "lock"}) \ {"close"},
           l \in {"unlock", "done"} => l = IF cacheLock[req[r].key] = r THEN "unlock" ELSE "done",
           cacheLock[req[r].key] = r => l \in Holding,
           pc[r] \notin {"idle", "unlock", "close", "done"},
           l = "wait" => waitOn'[r] = cacheLock[req[r].key] /\ waitOn'[r] # None,
           waitOn' = waitOn \/ \E w \in Requests \cup {None} : waitOn' = [waitOn EXCEPT ![r] = w],
           result' \in [Requests -> Answers \cup Errors \cup {None}],
           \A q \in Requests \ {r} : result'[q] = result[q],
           l \in Ending => result'[r] # None,
           fromCache \subseteq fromCache', fromCache' \subseteq Requests,
           l \in Ending /\ req[r].checker /\ result'[r] = "bad" => r \in fromCache',
           \A k \in Keys : cache'[k] # None /\ cache'[k].checked => cache'[k].answer # "bad",
           cache' \in [Keys -> Entry \cup {None}], rdrc' \subseteq Keys,
           refresh' \in [Keys -> Refreshes \cup {None}],
           UNCHANGED <<req, ctxDone, cacheLock, signalled>>
    PROVE  ClientInv'
<1> USE DEF ClientInv
<1>1. /\ pc \in [Requests -> {"idle", "question", "lock", "wait", "load", "check",
                            "upstream", "dialling", "asking", "reading", "unlock", "close", "done"}]
      /\ pc'[r] = l /\ \A q \in Requests \ {r} : pc'[q] = pc[q]
      /\ pc' \in [Requests -> {"idle", "question", "lock", "wait", "load", "check",
                            "upstream", "dialling", "asking", "reading", "unlock", "close", "done"}]
  BY DEF ClientTyped, TypeOK, Holding, Ending
<1>2. waitOn' \in [Requests -> Requests \cup {None}] /\ \A q \in Requests \ {r} : waitOn'[q] = waitOn[q]
  BY DEF ClientTyped, TypeOK
<1>3. TypeOK'
  BY <1>1, <1>2 DEF ClientTyped, TypeOK, Refreshes, Ending
<1>4. ClientTyped'
  BY <1>1, <1>3 DEF ClientTyped, Ending
<1>5. req[r].key \in Keys /\ \A q \in Requests : pc[q] # "idle" => req[q] \in Made /\ req[q].key \in Keys
  BY DEF ClientTyped, Made
<1>6. Locks'
  <2>1. ASSUME NEW k \in Keys, cacheLock[k] # None
        PROVE  req[cacheLock[k]].key = k /\ pc'[cacheLock[k]] \in Holding
    BY <1>1, <2>1 DEF Locks, ClientTyped, TypeOK
  <2>2. ASSUME NEW q \in Requests, pc'[q] = "unlock" PROVE cacheLock[req[q].key] = q
    BY <1>1, <2>2 DEF Locks, Holding, Ending
  <2>3. ASSUME NEW q \in Requests, pc'[q] = "wait"
        PROVE  /\ waitOn'[q] # None
               /\ \/ waitOn'[q] \in signalled \/ cacheLock[req[q].key] = waitOn'[q] \/ pc'[waitOn'[q]] = "close"
    <3>1. CASE q = r
      BY <1>1, <2>3, <3>1
    <3>2. CASE q # r
      BY <1>1, <1>2, <2>3, <3>2 DEF Locks, ClientTyped, TypeOK
    <3> QED
      BY <3>1, <3>2
  <2> QED
    BY <2>1, <2>2, <2>3 DEF Locks
<1>7. Filtered'
  BY <1>1 DEF Filtered
<1> QED
  BY <1>4, <1>6, <1>7

\* What Finish leaves, for the lemma on moves.
LEMMA ClientFinish ==
    ASSUME ClientNamed, ClientInv, NEW r \in Requests, NEW res \in Answers \cup Errors, Finish(r, res)
    PROVE  /\ pc' = [pc EXCEPT ![r] = IF cacheLock[req[r].key] = r THEN "unlock" ELSE "done"]
           /\ result' \in [Requests -> Answers \cup Errors \cup {None}]
           /\ result'[r] = res /\ result'[r] # None
           /\ \A q \in Requests \ {r} : result'[q] = result[q]
  BY DEF Finish, Goto, MustUnlock, Owner, ClientNamed, ClientInv, ClientTyped, TypeOK

\* The reads of the cache: questionCache and loadResponse.
LEMMA ClientReads ==
    ASSUME ClientNamed, ClientInv, NEW r \in Requests, questionCache(r) \/ loadResponse(r) PROVE ClientInv'
<1>1. req[r] \in Made /\ req[r].key \in Keys /\ req[r].checker \in BOOLEAN
  BY DEF ClientInv, ClientTyped, questionCache, loadResponse, Made
<1>2. UNCHANGED <<req, ctxDone, cacheLock, signalled, waitOn, rdrc>> /\ pc[r] \in {"question", "load"}
  BY DEF questionCache, loadResponse, lockVars
<1>3. /\ result \in [Requests -> Answers \cup Errors \cup {None}] /\ fromCache \subseteq Requests
      /\ refresh \in [Keys -> Refreshes \cup {None}] /\ cache \in [Keys -> Entry \cup {None}] /\ rdrc \subseteq Keys
  BY DEF ClientInv, ClientTyped, TypeOK, Refreshes
<1>4. CASE ServeCached(r)
  <2> DEFINE l == IF cacheLock[req[r].key] = r THEN "unlock" ELSE "done"
  <2>1. cache[req[r].key] \in Entry /\ cache[req[r].key].answer \in Answers \cup Errors
    BY <1>1, <1>3, <1>4 DEF ServeCached, Usable, Entry, Answers
  <2>2. /\ pc' = [pc EXCEPT ![r] = l]
        /\ result' \in [Requests -> Answers \cup Errors \cup {None}]
        /\ result'[r] # None /\ \A q \in Requests \ {r} : result'[q] = result[q]
    BY <1>4, <2>1, ClientFinish DEF ServeCached
  <2>3. refresh' \in [Keys -> Refreshes \cup {None}]
    BY <1>1, <1>3, <1>4 DEF ServeCached, backgroundRefreshDNS, Refreshes
  <2>4. fromCache' = fromCache \cup {r} /\ cache' = cache
    BY <1>4 DEF ServeCached
  <2>5. l \in {"unlock", "done"} /\ l \in (Holding \cup Ending \cup {"wait", "lock"}) \ {"close"} /\ l # "wait"
        /\ (cacheLock[req[r].key] = r => l \in Holding)
    BY DEF Holding, Ending
  <2>6. \A k \in Keys : cache[k] # None /\ cache[k].checked => cache[k].answer # "bad"
    BY DEF ClientInv, Filtered
  <2> QED
    BY ZenonT(30), <1>2, <1>3, <2>2, <2>3, <2>4, <2>5, <2>6, ClientMoves
<1>5. CASE ~ServeCached(r)
  <2>1. PICK l \in {"lock", "check"} : /\ pc' = [pc EXCEPT ![r] = l] /\ UNCHANGED <<cache, refresh, result, fromCache>>
                                       /\ pc[r] = "question" \/ l = "check"
    BY <1>5 DEF questionCache, loadResponse, MissCached, Goto, ExchangeStart
  <2>2. cacheLock[req[r].key] = r => l \in Holding
    BY <1>1, <1>2, <2>1 DEF ClientInv, Locks, ClientTyped, TypeOK, Holding, ClientNamed
  <2>3. l \in (Holding \cup Ending \cup {"wait", "lock"}) \ {"close"} /\ l \notin Ending /\ l # "wait"
    BY <2>1 DEF Holding, Ending
  <2>4. \A k \in Keys : cache[k] # None /\ cache[k].checked => cache[k].answer # "bad"
    BY DEF ClientInv, Filtered
  <2> QED
    BY ZenonT(30), <1>2, <1>3, <2>1, <2>2, <2>3, <2>4, ClientMoves DEF Ending
<1> QED
  BY <1>4, <1>5

\* Exchange while it holds no answer: the lock, the checks, the lookup of the
\* server's name and the read from a stream.
LEMMA ClientGoesOn ==
    ASSUME ClientNamed, ClientInv, NEW r \in Requests,
           Wait(r) \/ WaitCancelled(r) \/ Check(r) \/ Resolved(r) \/ ReadMessage(r)
    PROVE  ClientInv'
<1>1. req[r] \in Made /\ req[r].key \in Keys /\ pc[r] \in {"wait", "check", "dialling", "upstream", "asking"}
  BY DEF ClientInv, ClientTyped, Wait, WaitCancelled, Check, Resolved, ReadMessage, Made
<1>2. /\ UNCHANGED <<req, ctxDone, cacheLock, signalled, cache, rdrc, refresh, fromCache>>
      /\ waitOn' = waitOn \/ \E w \in Requests \cup {None} : waitOn' = [waitOn EXCEPT ![r] = w]
  BY DEF Wait, WaitCancelled, Check, Resolved, ReadMessage, lockVars, storeVars
<1>3. /\ result \in [Requests -> Answers \cup Errors \cup {None}] /\ fromCache \subseteq Requests
      /\ refresh \in [Keys -> Refreshes \cup {None}] /\ cache \in [Keys -> Entry \cup {None}] /\ rdrc \subseteq Keys
  BY DEF ClientInv, ClientTyped, TypeOK, Refreshes
<1>4. \A k \in Keys : cache[k] # None /\ cache[k].checked => cache[k].answer # "bad"
  BY DEF ClientInv, Filtered
<1>5. ASSUME NEW res \in Errors, Finish(r, res) PROVE ClientInv'
  <2> DEFINE l == IF cacheLock[req[r].key] = r THEN "unlock" ELSE "done"
  <2>1. /\ pc' = [pc EXCEPT ![r] = l]
        /\ result' \in [Requests -> Answers \cup Errors \cup {None}]
        /\ result'[r] = res /\ result'[r] # None /\ \A q \in Requests \ {r} : result'[q] = result[q]
    BY <1>5, ClientFinish
  <2>2. res # "bad"
    BY DEF Errors
  <2>3. l \in {"unlock", "done"} /\ l \in (Holding \cup Ending \cup {"wait", "lock"}) \ {"close"} /\ l # "wait"
        /\ (cacheLock[req[r].key] = r => l \in Holding)
    BY DEF Holding, Ending
  <2> QED
    BY ZenonT(30), <1>1, <1>2, <1>3, <1>4, <2>1, <2>2, <2>3, ClientMoves
<1>6. ASSUME NEW l \in {"load", "upstream", "asking", "reading"}, pc' = [pc EXCEPT ![r] = l], result' = result PROVE ClientInv'
  <2>1. l \in (Holding \cup Ending \cup {"wait", "lock"}) \ {"close"} /\ l \in Holding /\ l \notin Ending /\ l # "wait"
    BY DEF Holding, Ending
  <2> QED
    BY ZenonT(30), <1>1, <1>2, <1>3, <1>4, <1>6, <2>1, ClientMoves DEF Ending
<1> QED
  BY <1>5, <1>6 DEF Wait, WaitCancelled, Check, Resolved, ReadMessage, Goto, storeVars, Errors

\* exchangeToTransport returns.
LEMMA ClientAnswered ==
    ASSUME ClientNamed, ClientInv, NEW r \in Requests, NEW a \in Answers \cup {"error"}, exchangeToTransport(r, a)
    PROVE  ClientInv'
<1>1. req[r] \in Made /\ req[r].key \in Keys /\ pc[r] \in {"upstream", "asking", "reading"} /\ req[r].checker \in BOOLEAN
  BY DEF ClientInv, ClientTyped, exchangeToTransport, Made
<1>2. UNCHANGED <<req, ctxDone, cacheLock, signalled, waitOn, refresh, fromCache>>
  BY DEF exchangeToTransport, lockVars
<1>3. /\ result \in [Requests -> Answers \cup Errors \cup {None}] /\ fromCache \subseteq Requests
      /\ refresh \in [Keys -> Refreshes \cup {None}] /\ cache \in [Keys -> Entry \cup {None}] /\ rdrc \subseteq Keys
  BY DEF ClientInv, ClientTyped, TypeOK, Refreshes
<1>4. \A k \in Keys : cache[k] # None /\ cache[k].checked => cache[k].answer # "bad"
  BY DEF ClientInv, Filtered
<1>5. PICK res \in Answers \cup Errors : Finish(r, res) /\ (req[r].checker => res # "bad")
  BY <1>1 DEF exchangeToTransport, Rejects, Answers, Errors
<1>6. rdrc' \subseteq Keys
  BY <1>1, <1>3 DEF exchangeToTransport
<1>7. /\ cache' \in [Keys -> Entry \cup {None}]
      /\ \A k \in Keys : cache'[k] # None /\ cache'[k].checked => cache'[k].answer # "bad"
  <2>1. CASE cache' = cache
    BY <1>3, <1>4, <2>1
  <2>2. CASE cache' # cache
    <3>1. cache' = [cache EXCEPT ![req[r].key] = FreshEntry(a, req[r].checker)] /\ a \in {"good", "bad"}
          /\ (req[r].checker => a # "bad")
      BY <1>1, <2>2 DEF exchangeToTransport, Rejects, storeCache, Answers
    <3>2. FreshEntry(a, req[r].checker) \in Entry
          /\ (FreshEntry(a, req[r].checker).checked => FreshEntry(a, req[r].checker).answer # "bad")
      BY <1>1, <3>1 DEF FreshEntry, Entry
    <3> QED
      BY <1>1, <1>3, <1>4, <3>1, <3>2
  <2> QED
    BY <2>1, <2>2
<1> DEFINE l == IF cacheLock[req[r].key] = r THEN "unlock" ELSE "done"
<1>8. /\ pc' = [pc EXCEPT ![r] = l]
      /\ result' \in [Requests -> Answers \cup Errors \cup {None}]
      /\ result'[r] = res /\ result'[r] # None /\ \A q \in Requests \ {r} : result'[q] = result[q]
  BY <1>5, ClientFinish
<1>9. l \in {"unlock", "done"} /\ l \in (Holding \cup Ending \cup {"wait", "lock"}) \ {"close"} /\ l # "wait"
      /\ (cacheLock[req[r].key] = r => l \in Holding)
  BY DEF Holding, Ending
<1> QED
  BY ZenonT(30), <1>1, <1>2, <1>3, <1>5, <1>6, <1>7, <1>8, <1>9, ClientMoves

\* LoadOrStore, and the deferred Delete and close.
LEMMA ClientLocks ==
    ASSUME ClientNamed, ClientInv, NEW r \in Requests, LoadOrStore(r) \/ Unlock(r) \/ CloseChannel(r)
    PROVE  ClientInv'
<1> USE DEF ClientNamed
<1>1. /\ req[r] \in Made /\ req[r].key \in Keys /\ pc[r] \in {"lock", "unlock", "close"}
      /\ \A q \in Requests : pc[q] # "idle" => req[q].key \in Keys
  BY DEF ClientInv, ClientTyped, LoadOrStore, Unlock, CloseChannel, Made
<1>2. UNCHANGED <<req, ctxDone, cache, rdrc, refresh, result, fromCache>>
  BY DEF LoadOrStore, Unlock, CloseChannel, storeVars
<1>3. PICK l \in {"load", "wait", "close", "done"} :
        /\ pc' = [pc EXCEPT ![r] = l]
        /\ l \in Ending => pc[r] \in Ending
  BY DEF LoadOrStore, Unlock, CloseChannel, Goto, Ending
<1>4. pc'[r] = l /\ \A q \in Requests \ {r} : pc'[q] = pc[q]
  BY <1>3 DEF ClientInv, ClientTyped, TypeOK
<1>5. /\ cacheLock' \in [Keys -> Requests \cup {None}] /\ waitOn' \in [Requests -> Requests \cup {None}]
      /\ signalled \subseteq signalled' /\ signalled' \subseteq Requests
  BY <1>1 DEF LoadOrStore, Unlock, CloseChannel, ClientInv, ClientTyped, TypeOK
<1>6. ClientTyped'
  <2>1. TypeOK'
    BY ZenonT(30), <1>2, <1>3, <1>4, <1>5 DEF ClientInv, ClientTyped, TypeOK, Ending
  <2> QED
    BY <1>1, <1>2, <1>3, <1>4, <2>1 DEF ClientInv, ClientTyped
<1>7. Filtered'
  BY <1>2, <1>3, <1>4 DEF ClientInv, Filtered
<1>8. CASE LoadOrStore(r) /\ cacheLock[req[r].key] = None
  <2>1. /\ cacheLock' = [cacheLock EXCEPT ![req[r].key] = r] /\ waitOn' = waitOn /\ signalled' = signalled
        /\ pc'[r] = "load"
    BY <1>8 DEF LoadOrStore, Goto, ClientInv, ClientTyped, TypeOK
  <2>2. cacheLock'[req[r].key] = r /\ \A k \in Keys \ {req[r].key} : cacheLock'[k] = cacheLock[k]
    BY <1>1, <2>1 DEF ClientInv, ClientTyped, TypeOK
  <2>3. ASSUME NEW k \in Keys, cacheLock'[k] # None
        PROVE  req[cacheLock'[k]].key = k /\ pc'[cacheLock'[k]] \in Holding
    BY <1>1, <1>4, <1>8, <2>1, <2>2, <2>3 DEF LoadOrStore, ClientInv, ClientTyped, TypeOK, Locks, Holding
  <2>4. ASSUME NEW q \in Requests, pc'[q] = "unlock" PROVE cacheLock'[req[q].key] = q
    BY <1>1, <1>4, <1>8, <2>1, <2>2, <2>4 DEF ClientInv, Locks
  <2>5. ASSUME NEW q \in Requests, pc'[q] = "wait"
        PROVE  /\ waitOn[q] # None
               /\ \/ waitOn[q] \in signalled \/ cacheLock'[req[q].key] = waitOn[q] \/ pc'[waitOn[q]] = "close"
    BY <1>1, <1>4, <1>8, <2>1, <2>2, <2>5 DEF LoadOrStore, ClientInv, ClientTyped, TypeOK, Locks
  <2> QED
    BY <1>2, <1>6, <1>7, <2>1, <2>3, <2>4, <2>5 DEF ClientInv, Locks
<1>9. CASE LoadOrStore(r) /\ cacheLock[req[r].key] # None
  <2>1. /\ waitOn' = [waitOn EXCEPT ![r] = cacheLock[req[r].key]] /\ UNCHANGED <<cacheLock, signalled>>
        /\ pc'[r] = "wait"
    BY <1>9 DEF LoadOrStore, Goto, ClientInv, ClientTyped, TypeOK
  <2>2. waitOn'[r] = cacheLock[req[r].key] /\ \A q \in Requests \ {r} : waitOn'[q] = waitOn[q]
    BY <2>1 DEF ClientInv, ClientTyped, TypeOK
  <2>3. ASSUME NEW k \in Keys, cacheLock[k] # None
        PROVE  req[cacheLock[k]].key = k /\ pc'[cacheLock[k]] \in Holding
    BY <1>4, <1>9, <2>3 DEF LoadOrStore, ClientInv, ClientTyped, TypeOK, Locks, Holding
  <2>4. ASSUME NEW q \in Requests, pc'[q] = "wait"
        PROVE  /\ waitOn'[q] # None
               /\ \/ waitOn'[q] \in signalled \/ cacheLock[req[q].key] = waitOn'[q] \/ pc'[waitOn'[q]] = "close"
    BY <1>4, <1>9, <2>2, <2>4 DEF LoadOrStore, ClientInv, ClientTyped, TypeOK, Locks
  <2>5. \A q \in Requests : pc'[q] = "unlock" => cacheLock[req[q].key] = q
    BY <1>4, <2>1 DEF ClientInv, Locks
  <2> QED
    BY <1>2, <1>6, <1>7, <2>1, <2>3, <2>4, <2>5 DEF ClientInv, Locks
<1>10. CASE Unlock(r)
  <2>1. /\ cacheLock' = [cacheLock EXCEPT ![req[r].key] = None] /\ UNCHANGED <<waitOn, signalled>>
        /\ pc'[r] = "close" /\ pc[r] = "unlock" /\ cacheLock[req[r].key] = r
    BY <1>10 DEF Unlock, Goto, ClientInv, ClientTyped, TypeOK, Locks
  <2>2. cacheLock'[req[r].key] = None /\ \A k \in Keys \ {req[r].key} : cacheLock'[k] = cacheLock[k]
    BY <1>1, <2>1 DEF ClientInv, ClientTyped, TypeOK
  <2>3. ASSUME NEW k \in Keys, cacheLock'[k] # None
        PROVE  req[cacheLock'[k]].key = k /\ pc'[cacheLock'[k]] \in Holding
    BY <1>4, <2>1, <2>2, <2>3 DEF ClientInv, ClientTyped, TypeOK, Locks
  <2>4. ASSUME NEW q \in Requests, pc'[q] = "unlock" PROVE cacheLock'[req[q].key] = q
    BY <1>1, <1>4, <2>1, <2>2, <2>4 DEF ClientInv, Locks
  <2>5. ASSUME NEW q \in Requests, pc'[q] = "wait"
        PROVE  /\ waitOn[q] # None
               /\ \/ waitOn[q] \in signalled \/ cacheLock'[req[q].key] = waitOn[q] \/ pc'[waitOn[q]] = "close"
    BY <1>1, <1>4, <2>1, <2>2, <2>5 DEF ClientInv, ClientTyped, TypeOK, Locks
  <2> QED
    BY <1>2, <1>6, <1>7, <2>1, <2>3, <2>4, <2>5 DEF ClientInv, Locks
<1>11. CASE CloseChannel(r)
  <2>1. signalled' = signalled \cup {r} /\ UNCHANGED <<cacheLock, waitOn>> /\ pc'[r] = "done" /\ pc[r] = "close"
    BY <1>11 DEF CloseChannel, Goto, ClientInv, ClientTyped, TypeOK
  <2>2. ASSUME NEW k \in Keys, cacheLock[k] # None
        PROVE  req[cacheLock[k]].key = k /\ pc'[cacheLock[k]] \in Holding
    BY <1>4, <2>1, <2>2 DEF ClientInv, ClientTyped, TypeOK, Locks, Holding
  <2>3. \A q \in Requests : pc'[q] = "unlock" => cacheLock[req[q].key] = q
    BY <1>4, <2>1 DEF ClientInv, Locks
  <2>4. ASSUME NEW q \in Requests, pc'[q] = "wait"
        PROVE  /\ waitOn[q] # None
               /\ \/ waitOn[q] \in signalled' \/ cacheLock[req[q].key] = waitOn[q] \/ pc'[waitOn[q]] = "close"
    BY <1>4, <2>1, <2>4 DEF ClientInv, ClientTyped, TypeOK, Locks
  <2> QED
    BY <1>2, <1>6, <1>7, <2>1, <2>2, <2>3, <2>4 DEF ClientInv, Locks
<1> QED
  BY <1>8, <1>9, <1>10, <1>11

\* A request begins, of the router or for the name of a server.
LEMMA ClientCalls ==
    ASSUME ClientNamed, ClientInv,
           \/ \E r \in Outer : \E o \in Options : \E k \in Keys : Begin(r, o, k)
           \/ \E r \in Requests : \E n \in Inner : \E k \in Keys : Resolves(r, n, k)
    PROVE  ClientInv'
<1> USE DEF ClientNamed
<1>1. PICK n \in Requests, o \in Asked, k \in Keys, p \in Requests \cup {None}, l \in {"question", "lock", "check"} :
        /\ Call(n, o, k, p)
        /\ \/ p = None /\ pc' = [pc EXCEPT ![n] = l]
           \/ p # None /\ pc[p] = "upstream" /\ pc' = [pc EXCEPT ![p] = "dialling", ![n] = l]
        /\ UNCHANGED <<ctxDone, cacheLock, signalled, waitOn, cache, rdrc, refresh, result, fromCache>>
  <2>1. ASSUME NEW r \in Outer, NEW o \in Options, NEW k \in Keys, Begin(r, o, k)
        PROVE  \E l \in {"question", "lock", "check"} : pc' = [pc EXCEPT ![r] = l]
    BY ZenonT(30), <2>1 DEF Begin, Goto, LookupStart, ExchangeStart
  <2>2. LookupStart(Resolve) \in {"question", "lock", "check"}
    BY DEF LookupStart, ExchangeStart
  <2>3. CASE \E r \in Outer : \E o \in Options : \E k \in Keys : Begin(r, o, k)
    <3>1. PICK r \in Outer, o \in Options, k \in Keys : Begin(r, o, k)
      BY <2>3
    <3>2. PICK l \in {"question", "lock", "check"} : pc' = [pc EXCEPT ![r] = l]
      BY <2>1, <3>1
    <3> QED
      BY ZenonT(30), <3>1, <3>2 DEF Begin, Requests, lockVars, storeVars
  <2>4. CASE \E r \in Requests : \E n \in Inner : \E k \in Keys : Resolves(r, n, k)
    <3>1. PICK r \in Requests, n \in Inner, k \in Keys : Resolves(r, n, k)
      BY <2>4
    <3> DEFINE l == LookupStart(Resolve)
    <3>2. /\ Call(n, Resolve, k, r) /\ pc[r] = "upstream" /\ pc' = [pc EXCEPT ![r] = "dialling", ![n] = l]
          /\ UNCHANGED <<ctxDone, cacheLock, signalled, waitOn, cache, rdrc, refresh, result, fromCache>>
      BY <3>1 DEF Resolves, lockVars, storeVars
    <3> HIDE DEF l
    <3> QED
      BY ZenonT(30), <2>2, <3>2 DEF Requests, l
  <2> QED
    BY <2>3, <2>4
<1>2. /\ pc[n] = "idle" /\ n # p /\ pc'[n] = l
      /\ p # None => pc[p] = "upstream" /\ pc'[p] = "dialling"
      /\ \A q \in Requests \ {n, p} : pc'[q] = pc[q]
      /\ pc' \in [Requests -> {"idle", "question", "lock", "wait", "load", "check",
                            "upstream", "dialling", "asking", "reading", "unlock", "close", "done"}]
  BY <1>1 DEF Call, ClientInv, ClientTyped, TypeOK
<1> DEFINE v == [checker |-> o.checker, lookup |-> o.lookup, optimistic |-> o.optimistic,
                 cache |-> o.cache, key |-> k, parent |-> p,
                 above |-> IF p = None THEN {} ELSE req[p].above \cup {p}]
<1>3. req' = [req EXCEPT ![n] = v] /\ v \in Made
  <2>1. p # None => req[p] \in Made
    BY <1>2 DEF ClientInv, ClientTyped
  <2> QED
    BY <1>1, <2>1 DEF Call, Asked, Made
<1> HIDE DEF v
<1>4. /\ req'[n] = v /\ \A q \in Requests \ {n} : req'[q] = req[q]
      /\ req' \in [Requests -> Made \cup {None}]
  BY <1>3 DEF ClientInv, ClientTyped
<1>5. ClientTyped'
  <2>1. TypeOK'
    BY SMTT(30), <1>1, <1>2 DEF ClientInv, ClientTyped, TypeOK
  <2> QED
    BY <1>1, <1>2, <1>3, <1>4, <2>1 DEF ClientInv, ClientTyped, Ending
<1>6. Filtered'
  BY ZenonT(30), <1>1, <1>2, <1>4 DEF ClientInv, Filtered, Ending
<1>7. Locks'
  <2>1. ASSUME NEW j \in Keys, cacheLock[j] # None
        PROVE  req'[cacheLock[j]].key = j /\ pc'[cacheLock[j]] \in Holding
    BY SMTT(30), <1>2, <1>4, <2>1 DEF ClientInv, ClientTyped, TypeOK, Locks, Holding
  <2>2. ASSUME NEW q \in Requests, pc'[q] = "unlock" PROVE cacheLock[req'[q].key] = q
    BY <1>2, <1>4, <2>2 DEF ClientInv, Locks
  <2>3. ASSUME NEW q \in Requests, pc'[q] = "wait"
        PROVE  /\ waitOn[q] # None
               /\ \/ waitOn[q] \in signalled \/ cacheLock[req'[q].key] = waitOn[q] \/ pc'[waitOn[q]] = "close"
    BY <1>2, <1>4, <2>3 DEF ClientInv, ClientTyped, TypeOK, Locks
  <2> QED
    BY <1>1, <2>1, <2>2, <2>3 DEF Locks
<1> QED
  BY <1>5, <1>6, <1>7 DEF ClientInv

\* The timeout, the entries that expire or go, and the background refresh.
LEMMA ClientBackground ==
    ASSUME ClientNamed, ClientInv,
           \/ \E r \in Requests : Timeout(r)
           \/ \E k \in Keys : RefreshStep(k) \/ Expire(k) \/ Evict(k)
           \/ ClearCache
    PROVE  ClientInv'
<1> USE DEF ClientNamed
<1>1. UNCHANGED <<pc, req, cacheLock, signalled, waitOn, result, fromCache>>
  BY DEF Timeout, RefreshStep, RefreshReads, RefreshAnswered, RefreshEnds, Expire, Evict, ClearCache, lockVars
<1>2. ASSUME ctxDone' \subseteq Requests, rdrc' \subseteq Keys, refresh' \in [Keys -> Refreshes \cup {None}],
             cache' \in [Keys -> Entry \cup {None}],
             \A k \in Keys : cache'[k] # None /\ cache'[k].checked => cache'[k].answer # "bad"
      PROVE  ClientInv'
  <2>1. ClientTyped'
    BY <1>1, <1>2 DEF ClientInv, ClientTyped, TypeOK, Refreshes
  <2> QED
    BY <1>1, <1>2, <2>1 DEF ClientInv, Locks, Filtered
<1>3. /\ refresh \in [Keys -> Refreshes \cup {None}] /\ cache \in [Keys -> Entry \cup {None}] /\ rdrc \subseteq Keys
      /\ ctxDone \subseteq Requests
      /\ \A k \in Keys : cache[k] # None /\ cache[k].checked => cache[k].answer # "bad"
  BY DEF ClientInv, ClientTyped, TypeOK, Refreshes, Filtered
<1>4. ASSUME NEW r \in Requests, Timeout(r) PROVE ClientInv'
  BY <1>2, <1>3, <1>4 DEF Timeout, storeVars
<1>5. ASSUME NEW k \in Keys, Expire(k) PROVE ClientInv'
  <2>1. /\ cache[k] \in Entry /\ cache' = [cache EXCEPT ![k].age = "stale"]
        /\ UNCHANGED <<ctxDone, rdrc, refresh>>
    BY <1>3, <1>5 DEF Expire
  <2>2. [cache[k] EXCEPT !.age = "stale"] \in Entry
        /\ [cache[k] EXCEPT !.age = "stale"].checked = cache[k].checked
        /\ [cache[k] EXCEPT !.age = "stale"].answer = cache[k].answer
    BY <2>1 DEF Entry
  <2> QED
    BY <1>2, <1>3, <2>1, <2>2
<1>6. ASSUME NEW k \in Keys, Evict(k) PROVE ClientInv'
  BY <1>2, <1>3, <1>6 DEF Evict
<1>7. CASE ClearCache
  BY <1>2, <1>3, <1>7 DEF ClearCache
<1>8. ASSUME NEW k \in Keys, RefreshEnds(k) PROVE ClientInv'
  BY <1>2, <1>3, <1>8 DEF RefreshEnds
<1>9. ASSUME NEW k \in Keys, NEW a \in Answers \cup {"error"}, RefreshAnswered(k, a) PROVE ClientInv'
  <2>1. refresh[k] \in Refreshes /\ refresh[k].checker \in BOOLEAN
    BY <1>3, <1>9 DEF RefreshAnswered, Refreshes
  <2>2. rdrc' \subseteq Keys /\ ctxDone' = ctxDone /\ refresh' = [refresh EXCEPT ![k].phase = "ending"]
    BY <1>3, <1>9 DEF RefreshAnswered
  <2>3. refresh' \in [Keys -> Refreshes \cup {None}]
    <3>1. [refresh[k] EXCEPT !.phase = "ending"] \in Refreshes
      BY <2>1 DEF Refreshes
    <3> QED
      BY <1>3, <2>2, <3>1
  <2>4. CASE cache' = cache
    BY <1>2, <1>3, <2>2, <2>3, <2>4
  <2>5. CASE cache' # cache
    <3>1. cache' = [cache EXCEPT ![k] = FreshEntry(a, refresh[k].checker)] /\ a \in {"good", "bad"}
          /\ (refresh[k].checker => a # "bad")
      BY <1>9, <2>1, <2>5 DEF RefreshAnswered, Rejects, storeCache, Answers
    <3>2. FreshEntry(a, refresh[k].checker) \in Entry
          /\ (FreshEntry(a, refresh[k].checker).checked => FreshEntry(a, refresh[k].checker).answer # "bad")
      BY <2>1, <3>1 DEF FreshEntry, Entry
    <3>3. /\ cache' \in [Keys -> Entry \cup {None}]
          /\ \A j \in Keys : cache'[j] # None /\ cache'[j].checked => cache'[j].answer # "bad"
      BY <1>3, <3>1, <3>2
    <3> QED
      BY <1>2, <1>3, <2>2, <2>3, <3>3
  <2> QED
    BY <2>4, <2>5
<1>10. ASSUME NEW k \in Keys, RefreshReads(k) PROVE ClientInv'
  <2>1. refresh[k] \in Refreshes /\ refresh' = [refresh EXCEPT ![k].phase = "reading"]
    BY <1>3, <1>10 DEF RefreshReads
  <2>2. [refresh[k] EXCEPT !.phase = "reading"] \in Refreshes
    BY <2>1 DEF Refreshes
  <2> QED
    BY <1>2, <1>3, <1>10, <2>1, <2>2 DEF RefreshReads
<1> QED
  BY <1>4, <1>5, <1>6, <1>7, <1>8, <1>9, <1>10 DEF RefreshStep

LEMMA ClientInductive == ASSUME ClientNamed, ClientInv, [Next]_vars PROVE ClientInv'
<1>1. CASE UNCHANGED vars
  BY <1>1 DEF vars, lockVars, storeVars, ClientInv, ClientTyped, TypeOK, Locks, Filtered
<1> QED
  BY <1>1, ClientReads, ClientGoesOn, ClientAnswered, ClientLocks, ClientCalls, ClientBackground DEF Next, Step

\* No path through Exchange, its cancellation, or the lookups below it leaves a
\* request waiting for a channel that nobody will close (Client.Exchange).
THEOREM NoOrphanWaiterHolds == ASSUME ClientNamed PROVE Spec => []NoOrphanWaiter
<1>1. Init => ClientInv
  BY ClientInit
<1>2. ClientInv /\ [Next]_vars => ClientInv'
  BY ClientInductive
<1>3. ClientInv => NoOrphanWaiter
  BY DEF ClientInv, Locks, NoOrphanWaiter, Holding
<1> QED
  BY <1>1, <1>2, <1>3, PTL DEF Spec

\* What an address filter refuses is neither returned to a filtered request nor
\* cached for one, save where a request without a filter had cached it
\* (exchangeToTransport, backgroundRefreshDNS).
THEOREM FilteredAnswersHolds == ASSUME ClientNamed PROVE Spec => []FilteredAnswers
<1>1. Init => ClientInv
  BY ClientInit
<1>2. ClientInv /\ [Next]_vars => ClientInv'
  BY ClientInductive
<1>3. ClientInv => FilteredAnswers
  BY DEF ClientInv, Filtered, FilteredAnswers, Ending
<1> QED
  BY <1>1, <1>2, <1>3, PTL DEF Spec
=============================================================================
