----------------------------- MODULE DNSClient -----------------------------
(***************************************************************************)
(* The DNS client (dns/client.go): Exchange and Lookup over a cache with   *)
(* expiry and optimistic answers, a lock per cache key that makes the      *)
(* requests for one question wait for the first, the cache of rejected     *)
(* responses (RDRC), and the background refresh of stale entries.          *)
(*                                                                         *)
(* A member of Requests is one call of Exchange or lookupToExchange; a     *)
(* cache key is a transport with a question.  While a transport asks its   *)
(* server it may first have to resolve the server's name, which is another *)
(* request of this client, made with a context of the outer one.  (The     *)
(* same lookup below a background refresh is not modelled.)  A transport   *)
(* that reads from a stream, dns/transport/tcp.go:78 and the fallback of   *)
(* udp.go:145, does so without a deadline and without a look at the        *)
(* context: the request is then at "reading".                              *)
(*                                                                         *)
(* An answer is "good", "bad" (an address filter refuses it), "zero"       *)
(* (accepted, with a TTL of 0) or "fail" (a response code that is neither  *)
(* success nor a name error).                                              *)
(***************************************************************************)
EXTENDS Naturals, FiniteSets

CONSTANTS
    Outer,      \* the requests of the router
    Inner,      \* the lookups of the names of DNS servers
    Keys,       \* records of a transport and a question
    Options,    \* what a request may be: records of
                \*   checker     whether the rule filters addresses
                \*   lookup      whether it is a Lookup
                \*   optimistic  whether it takes stale answers
                \*   cache       "yes", "no" (DisableCache), or "subnet", a
                \*               client subnet: not a simple request
    Resolve,    \* the options of the lookup of a server's name
    None

Requests == Outer \cup Inner
Answers == {"good", "bad", "zero", "fail"}
Errors == {"error", "rejected", "loopback", "ctx"}

VARIABLES
    pc,
    req,        \* the options, key, parent and ancestors of each request
    ctxDone,    \* the requests whose time to ask the server is over
    cacheLock,  \* c.cacheLock: the request whose channel is stored
    signalled,  \* the requests whose channel is closed
    waitOn,     \* the channel each request waits on
    cache,      \* c.cache
    rdrc,       \* the keys in c.rdrc
    refresh,    \* c.backgroundRefresh, with the refresh that is running
    result,
    fromCache   \* the requests that were answered from the cache

lockVars == <<cacheLock, signalled, waitOn>>
storeVars == <<cache, rdrc, refresh>>
vars == <<pc, req, ctxDone, lockVars, storeVars, result, fromCache>>

Entry == [answer : {"good", "bad"}, age : {"fresh", "stale"}, checked : BOOLEAN]

TypeOK ==
    /\ pc \in [Requests -> {"idle", "question", "lock", "wait", "load", "check",
                            "upstream", "dialling", "asking", "reading", "unlock", "close",
                            "done"}]
    /\ ctxDone \subseteq Requests /\ signalled \subseteq Requests
    /\ cacheLock \in [Keys -> Requests \cup {None}]
    /\ waitOn \in [Requests -> Requests \cup {None}]
    /\ cache \in [Keys -> Entry \cup {None}]
    /\ rdrc \subseteq Keys
    /\ refresh \in [Keys -> [phase : {"asking", "reading", "ending"}, checker : BOOLEAN] \cup {None}]
    /\ result \in [Requests -> Answers \cup Errors \cup {None}]
    /\ fromCache \subseteq Requests
    /\ \A r \in Requests : pc[r] = "done" => result[r] # None

Init ==
    /\ pc = [r \in Requests |-> "idle"]
    /\ req = [r \in Requests |-> None]
    /\ ctxDone = {} /\ signalled = {}
    /\ cacheLock = [k \in Keys |-> None]
    /\ waitOn = [r \in Requests |-> None]
    /\ cache = [k \in Keys |-> None]
    /\ rdrc = {}
    /\ refresh = [k \in Keys |-> None]
    /\ result = [r \in Requests |-> None]
    /\ fromCache = {}

-----------------------------------------------------------------------------
Goto(r, l) == pc' = [pc EXCEPT ![r] = l]

Owner(r) == cacheLock[req[r].key] = r

\* Fault: the lock is released only when the server was asked.
ReleasedAfterAsking(r) == Owner(r) /\ pc[r] \in {"upstream", "asking", "dialling", "reading"}

MustUnlock(r) == Owner(r)

\* Exchange returns; the request that stored the channel runs its deferred
\* release first.
Finish(r, res) ==
    /\ result' = [result EXCEPT ![r] = res]
    /\ Goto(r, IF MustUnlock(r) THEN "unlock" ELSE "done")

\* Where Exchange starts: requests that are not simple, or have the cache
\* disabled, take neither lock nor cached answer.
ExchangeStart(o) == IF o.cache = "yes" THEN "lock" ELSE "check"

LookupStart(o) == IF o.cache # "no" THEN "question" ELSE ExchangeStart(o)

Call(r, o, k, p) ==
    /\ pc[r] = "idle"
    /\ req' = [req EXCEPT ![r] =
         [checker |-> o.checker, lookup |-> o.lookup, optimistic |-> o.optimistic,
          cache |-> o.cache, key |-> k, parent |-> p,
          above |-> IF p = None THEN {} ELSE req[p].above \cup {p}]]

Begin(r, o, k) ==
    /\ Call(r, o, k, None)
    /\ Goto(r, IF o.lookup THEN LookupStart(o) ELSE ExchangeStart(o))
    /\ UNCHANGED <<ctxDone, lockVars, storeVars, result, fromCache>>

-----------------------------------------------------------------------------
(* The cache.                                                              *)

\* backgroundRefreshDNS, which one request for a key starts at a time.
backgroundRefreshDNS(r) ==
    LET k == req[r].key
    IN  IF refresh[k] # None THEN refresh
        ELSE [refresh EXCEPT ![k] = [phase |-> "asking", checker |-> req[r].checker]]

Usable(r) ==
    LET e == cache[req[r].key]
    IN  e # None /\ (e.age = "fresh" \/ req[r].optimistic)

\* loadResponse finds an answer to return, the stale one with a refresh.
ServeCached(r) ==
    /\ Usable(r)
    /\ Finish(r, cache[req[r].key].answer)
    /\ fromCache' = fromCache \cup {r}
    /\ refresh' = IF cache[req[r].key].age = "stale" THEN backgroundRefreshDNS(r)
                  ELSE refresh
    /\ UNCHANGED cache

MissCached(r, next) ==
    /\ ~Usable(r)
    /\ Goto(r, next)
    /\ UNCHANGED <<cache, refresh, result, fromCache>>

\* A Lookup looks into the cache before Exchange does, without the lock and
\* whether or not the request is simple.
questionCache(r) ==
    /\ pc[r] = "question"
    /\ ServeCached(r) \/ MissCached(r, ExchangeStart(req[r]))
    /\ UNCHANGED <<req, ctxDone, lockVars, rdrc>>

FreshEntry(a, checker) == [answer |-> a, age |-> "fresh", checked |-> checker]

storeCache(k, a, checker) ==
    IF a = "zero" THEN cache ELSE [cache EXCEPT ![k] = FreshEntry(a, checker)]

\* An entry expires and, with optimistic caching, is stale from then on.
Expire(k) ==
    /\ cache[k] # None /\ cache[k].age = "fresh"
    /\ cache' = [cache EXCEPT ![k].age = "stale"]
    /\ UNCHANGED <<pc, req, ctxDone, lockVars, rdrc, refresh, result, fromCache>>

\* An entry is gone: evicted by the LRU, expired without optimistic caching,
\* past the optimistic timeout, or removed by a reader that found it so
\* before it was replaced.
Evict(k) ==
    /\ cache[k] # None
    /\ cache' = [cache EXCEPT ![k] = None]
    /\ UNCHANGED <<pc, req, ctxDone, lockVars, rdrc, refresh, result, fromCache>>

ClearCache ==
    /\ \E k \in Keys : cache[k] # None
    /\ cache' = [k \in Keys |-> None]
    /\ UNCHANGED <<pc, req, ctxDone, lockVars, rdrc, refresh, result, fromCache>>

-----------------------------------------------------------------------------
(* Exchange.                                                               *)

\* c.cacheLock.LoadOrStore: the first request for the key goes on, the
\* others wait for its channel.
LoadOrStore(r) ==
    /\ pc[r] = "lock"
    /\ IF cacheLock[req[r].key] = None
       THEN /\ cacheLock' = [cacheLock EXCEPT ![req[r].key] = r]
            /\ Goto(r, "load") /\ UNCHANGED waitOn
       ELSE /\ waitOn' = [waitOn EXCEPT ![r] = cacheLock[req[r].key]]
            /\ Goto(r, "wait") /\ UNCHANGED cacheLock
    /\ UNCHANGED <<req, ctxDone, signalled, storeVars, result, fromCache>>

Wait(r) ==
    /\ pc[r] = "wait" /\ waitOn[r] \in signalled
    /\ Goto(r, "load")
    /\ waitOn' = [waitOn EXCEPT ![r] = None]
    /\ UNCHANGED <<req, ctxDone, cacheLock, signalled, storeVars, result, fromCache>>

\* Fault: a waiting request does not watch its context.
NeverCancelled(r) == FALSE

\* The caller of an outer request may go away at any time; a lookup for a
\* server's name ends with the time its outer requests have.
Cancelled(r) == req[r].above = {} \/ req[r].above \cap ctxDone # {}

WaitCancelled(r) ==
    /\ pc[r] = "wait" /\ waitOn[r] \notin signalled /\ Cancelled(r)
    /\ Finish(r, "ctx")
    /\ waitOn' = [waitOn EXCEPT ![r] = None]
    /\ UNCHANGED <<req, ctxDone, cacheLock, signalled, storeVars, fromCache>>

loadResponse(r) ==
    /\ pc[r] = "load"
    /\ ServeCached(r) \/ MissCached(r, "check")
    /\ UNCHANGED <<req, ctxDone, lockVars, rdrc>>

Loopback(r) ==
    req[r].parent # None /\ req[req[r].parent].key.transport = req[r].key.transport

\* The transport must not be the one the context already asks, and the
\* question not one whose answer the filter refused before.
Check(r) ==
    /\ pc[r] = "check"
    /\ IF Loopback(r) THEN Finish(r, "loopback")
       ELSE IF req[r].cache = "yes" /\ req[r].checker /\ req[r].key \in rdrc
       THEN Finish(r, "rejected")
       ELSE Goto(r, "upstream") /\ UNCHANGED result
    /\ UNCHANGED <<req, ctxDone, lockVars, storeVars, fromCache>>

\* The transport resolves the name of its server first.
Resolves(r, n, k) ==
    /\ pc[r] = "upstream"
    /\ Call(n, Resolve, k, r)
    /\ pc' = [pc EXCEPT ![r] = "dialling", ![n] = LookupStart(Resolve)]
    /\ UNCHANGED <<ctxDone, lockVars, storeVars, result, fromCache>>

\* The timeout of exchangeToTransport, in a request that waits for another.
Timeout(r) ==
    /\ pc[r] = "dialling" /\ r \notin ctxDone
    /\ ctxDone' = ctxDone \cup {r}
    /\ UNCHANGED <<pc, req, lockVars, storeVars, result, fromCache>>

Resolved(r) ==
    /\ pc[r] = "dialling"
    /\ \E n \in Requests :
         /\ req[n] # None /\ req[n].parent = r /\ pc[n] = "done"
         /\ IF result[n] \in Errors \/ r \in ctxDone THEN Finish(r, "error")
            ELSE Goto(r, "asking") /\ UNCHANGED result
    /\ UNCHANGED <<req, ctxDone, lockVars, storeVars, fromCache>>

\* Fault: a response that the filter refuses is returned and kept.
FilterSkipped(checker, a) == checker /\ a = "fail"

Rejects(checker, a) == checker /\ a \in {"bad", "fail"}

\* The transport asks over a stream and reads the answer.
ReadMessage(r) ==
    /\ pc[r] \in {"upstream", "asking"}
    /\ Goto(r, "reading")
    /\ UNCHANGED <<req, ctxDone, lockVars, storeVars, result, fromCache>>

\* The transport returns: its answer is filtered, stored and returned.
exchangeToTransport(r, a) ==
    /\ pc[r] \in {"upstream", "asking", "reading"}
    /\ LET o == req[r]
       IN  IF a = "error"
           THEN Finish(r, "error") /\ UNCHANGED <<cache, rdrc>>
           ELSE IF Rejects(o.checker, a)
           THEN /\ Finish(r, "rejected")
                /\ rdrc' = IF o.cache = "yes" /\ a # "fail" THEN rdrc \cup {o.key} ELSE rdrc
                /\ UNCHANGED cache
           ELSE /\ Finish(r, IF o.lookup /\ a = "fail" THEN "error" ELSE a)
                /\ cache' = IF o.cache = "yes" /\ a # "fail"
                            THEN storeCache(o.key, a, o.checker) ELSE cache
                /\ UNCHANGED rdrc
    /\ UNCHANGED <<req, ctxDone, lockVars, refresh, fromCache>>

\* The deferred c.cacheLock.Delete and close(cond).
Unlock(r) ==
    /\ pc[r] = "unlock"
    /\ cacheLock' = [cacheLock EXCEPT ![req[r].key] = None]
    /\ Goto(r, "close")
    /\ UNCHANGED <<req, ctxDone, signalled, waitOn, storeVars, result, fromCache>>

CloseChannel(r) ==
    /\ pc[r] = "close"
    /\ signalled' = signalled \cup {r}
    /\ Goto(r, "done")
    /\ UNCHANGED <<req, ctxDone, cacheLock, waitOn, storeVars, result, fromCache>>

-----------------------------------------------------------------------------
(* The background refresh: it asks in the same way, and takes itself out   *)
(* of the map in a deferred call.                                          *)

RefreshReads(k) ==
    /\ refresh[k] # None /\ refresh[k].phase = "asking"
    /\ refresh' = [refresh EXCEPT ![k].phase = "reading"]
    /\ UNCHANGED <<pc, req, ctxDone, lockVars, cache, rdrc, result, fromCache>>

RefreshAnswered(k, a) ==
    /\ refresh[k] # None /\ refresh[k].phase \in {"asking", "reading"}
    /\ LET checker == refresh[k].checker
       IN  /\ rdrc' = IF Rejects(checker, a) THEN rdrc \cup {k} ELSE rdrc
           /\ cache' = IF a \in {"error", "fail"} \/ Rejects(checker, a) THEN cache
                       ELSE storeCache(k, a, checker)
    /\ refresh' = [refresh EXCEPT ![k].phase = "ending"]
    /\ UNCHANGED <<pc, req, ctxDone, lockVars, result, fromCache>>

RefreshEnds(k) ==
    /\ refresh[k] # None /\ refresh[k].phase = "ending"
    /\ refresh' = [refresh EXCEPT ![k] = None]
    /\ UNCHANGED <<pc, req, ctxDone, lockVars, cache, rdrc, result, fromCache>>

RefreshStep(k) ==
    \/ RefreshReads(k) \/ RefreshEnds(k)
    \/ \E a \in Answers \cup {"error"} : RefreshAnswered(k, a)

Step(r) ==
    \/ questionCache(r) \/ LoadOrStore(r) \/ Wait(r) \/ loadResponse(r) \/ Check(r)
    \/ Resolved(r) \/ ReadMessage(r) \/ Unlock(r) \/ CloseChannel(r)
    \/ \E a \in Answers \cup {"error"} : exchangeToTransport(r, a)

Next ==
    \/ \E r \in Outer : \E o \in Options : \E k \in Keys : Begin(r, o, k)
    \/ \E r \in Requests : Step(r) \/ WaitCancelled(r) \/ Timeout(r)
    \/ \E r \in Requests : \E n \in Inner : \E k \in Keys : Resolves(r, n, k)
    \/ \E k \in Keys : RefreshStep(k) \/ Expire(k) \/ Evict(k)
    \/ ClearCache

Spec == Init /\ [][Next]_vars

\* Goroutines are scheduled, a transport that does not read from a stream
\* returns by the timeout of exchangeToTransport, and that timeout reaches the
\* lookups made below it.  Nothing makes a read from a stream return, nor the
\* caller of an outer request go away.
Fairness ==
    /\ \A r \in Requests : WF_vars(pc[r] # "reading" /\ Step(r)) /\ WF_vars(Timeout(r))
    /\ \A r \in Requests : WF_vars(req[r] # None /\ req[r].above # {} /\ WaitCancelled(r))
    /\ \A k \in Keys :
         WF_vars(refresh[k] # None /\ refresh[k].phase # "reading" /\ RefreshStep(k))

FairSpec == Spec /\ Fairness

-----------------------------------------------------------------------------
(* Properties.                                                             *)

\* A stored channel belongs to a request that is still going to close it, and
\* whoever waits on a channel waits for such a request or for a channel that
\* is closed already: no path through Exchange leaves a waiter behind.
NoOrphanWaiter ==
    /\ \A k \in Keys : cacheLock[k] # None =>
         /\ req[cacheLock[k]].key = k
         /\ pc[cacheLock[k]] \notin {"idle", "question", "lock", "wait", "close", "done"}
    /\ \A r \in Requests : pc[r] = "wait" =>
         \/ waitOn[r] \in signalled
         \/ cacheLock[req[r].key] = waitOn[r]
         \/ pc[waitOn[r]] = "close"

\* An answer the address filter refuses is never returned to a filtered
\* request, and never cached by one or by its background refresh, unless it
\* was cached for a request without a filter.
FilteredAnswers ==
    /\ \A k \in Keys : cache[k] # None /\ cache[k].checked => cache[k].answer # "bad"
    /\ \A r \in Requests :
         pc[r] = "done" /\ req[r].checker /\ result[r] = "bad" => r \in fromCache

\* The requests that are held up by a read from a stream: those that read,
\* those of the router that wait for the channel of one that is held up, and
\* those whose server's name is looked up by one.
HeldUp ==
    LET held[n \in 0..Cardinality(Requests)] ==
          IF n = 0 THEN {r \in Requests : pc[r] = "reading"}
          ELSE held[n - 1] \cup
               {r \in Requests :
                  \/ pc[r] = "wait" /\ req[r].above = {} /\ waitOn[r] \in held[n - 1]
                  \/ pc[r] = "dialling" /\ \E m \in held[n - 1] : req[m].parent = r}
    IN  held[Cardinality(Requests)]

\* Every request that was made returns and every refresh ends, unless a server
\* leaves a read from a stream without an answer: also a lookup that waits for
\* the answer of a request further out, which itself waits for that lookup.
\* The read holds up nobody else but those that wait for its answer.
ReturnsUnlessHeld ==
    <>[](/\ \A r \in Requests : pc[r] \in {"idle", "done"} \/ r \in HeldUp
         /\ \A k \in Keys : refresh[k] # None => refresh[k].phase = "reading")

\* The documentation of the address filters: "When the query results do not
\* match the address filtering rule items, the current rule will be skipped."
FilterHonoured ==
    \A r \in Requests : pc[r] = "done" /\ req[r].checker => result[r] # "bad"
=============================================================================
