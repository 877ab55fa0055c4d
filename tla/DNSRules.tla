------------------------------ MODULE DNSRules ------------------------------
(***************************************************************************)
(* The DNS router's walk over its rules for one query (dns/router.go):     *)
(* Exchange and Lookup, in legacy mode (matchDNS, the query, the check of  *)
(* the answer, and on from the next rule when it is refused) and in the    *)
(* mode with evaluate and respond (exchangeWithRules).                     *)
(*                                                                         *)
(* A rule is abstracted to what the walk asks of it: matches (LegacyPre-   *)
(* Match, or Match of a rule that does not look at an answer), limit (With-*)
(* AddressLimit) and accepts (what it says of an answer), response (Match  *)
(* looks at the evaluated answer: "no", "yes", "inverted"), the action,    *)
(* whether the action sets a strategy, and the state of its server.  How   *)
(* an exchange ends is the environment's choice: with an answer that is    *)
(* checked, with one from the cache, which is not, with an error, or never.*)
(***************************************************************************)
EXTENDS Integers, Sequences

CONSTANT None

VARIABLES
    rules,  \* Router.rules
    query   \* the query that is walked

qvars == <<rules, query>>

Indices == 1..Len(rules)

\* dnsRuleModeRequirementsInDefaultRule
Disables(r) == r.response # "no" \/ r.action \in {"evaluate", "respond"}

\* resolveLegacyDNSMode
LegacyMode(rs) ==
    /\ \E i \in DOMAIN rs : rs[i].limit \/ rs[i].strategy
    /\ \A i \in DOMAIN rs : ~Disables(rs[i])

\* validateLegacyDNSModeDisabledRules: what looks at an answer has an evaluate
\* rule before it, and no rule filters addresses in the old way; nor does one
\* set a strategy (resolveLegacyDNSMode).
ValidModern(rs) ==
    \A i \in DOMAIN rs :
       /\ ~rs[i].limit /\ ~rs[i].strategy
       /\ (rs[i].response # "no" \/ rs[i].action = "respond")
            => \E j \in 1..(i - 1) : rs[j].action = "evaluate"

\* validateEvaluateFakeIPRules
NoFakeIPEvaluate(rs) ==
    \A i \in DOMAIN rs : ~(rs[i].action = "evaluate" /\ rs[i].server = "fakeip")

\* buildRules, when it does not fail
Built(rs) == NoFakeIPEvaluate(rs) /\ (LegacyMode(rs) \/ ValidModern(rs))

\* address: isAddressQuery.  A Lookup takes no fakeip answer.  options is the
\* set of rules whose options are in force, via the rule that decided (0: none
\* did), failed the rules whose query failed or whose answer was refused.
Ask(caller, address) ==
    [caller |-> caller, address |-> address, phase |-> "walk", index |-> 0,
     options |-> {}, evaluated |-> None, via |-> 0, check |-> FALSE,
     failed |-> {}, result |-> None]

AllowFakeIP == query.caller = "exchange"

\* The action's server is there and may be used.
Usable(r) == r.server = "real" \/ (r.server = "fakeip" /\ AllowFakeIP)

-----------------------------------------------------------------------------
\* Fault: a rule with an address filter is tried for every query.
LooksAtAll(r) == r.matches

\* A rule matchDNS does not pass over.
Looked(r) == r.matches /\ ~(r.limit /\ ~query.address)

\* Fault: a rule whose server is missing ends the walk.
StopsAnywhere(r) == Looked(r) /\ r.action # "options"

\* A rule at which matchDNS stops.
Stops(r) ==
    /\ Looked(r)
    /\ r.action # "options"
    /\ r.action = "route" => Usable(r)

\* Fault: the walk takes up again at the rule whose answer was refused.
StopAgain ==
    LET stops == {i \in Indices : i >= query.index /\ Stops(rules[i])}
    IN  IF stops = {} THEN 0 ELSE CHOOSE i \in stops : \A j \in stops : i <= j

NextStop ==
    LET stops == {i \in Indices : i > query.index /\ Stops(rules[i])}
    IN  IF stops = {} THEN 0 ELSE CHOOSE i \in stops : \A j \in stops : i <= j

\* The options matchDNS collects on the way to the rule i (0: the default).
Collected(i) ==
    {k \in Indices : /\ k > query.index /\ (i # 0 => k < i)
                     /\ Looked(rules[k]) /\ rules[k].action = "options"}

\* matchDNS, and the rejects and predefined answers of Exchange and Lookup.
\* The options start from the caller's at every turn of the loop.
MatchDNS ==
    /\ query.phase = "walk" /\ LegacyMode(rules)
    /\ LET i == NextStop
       IN  query' =
             IF i # 0 /\ rules[i].action \in {"reject", "predefined"}
             THEN [query EXCEPT !.phase = "done", !.via = i, !.result = rules[i].action]
             ELSE [query EXCEPT !.phase = "exchange", !.via = i,
                     !.options = Collected(i) \cup (IF i = 0 THEN {} ELSE {i}),
                     !.check = i # 0 /\ rules[i].limit]
    /\ UNCHANGED rules

Replies == {"checked", "cached", "failed"}

\* Whether the loop goes on after the query: Exchange goes on from a refused
\* answer, Lookup from any error of a rule with a check.
GoesOn(reply) ==
    /\ query.check
    /\ \/ reply = "checked" /\ ~rules[query.via].accepts
       \/ reply = "failed" /\ query.caller = "lookup"

ResultOf(reply) ==
    CASE reply = "checked" -> "answer" [] reply = "cached" -> "cached" [] OTHER -> "error"

\* client.Exchange or client.Lookup returns to the walk.  An answer that is in
\* the cache is returned without a look at the check (client.go:198); the
\* answers of a fakeip server are never cached.
LegacyAnswer(reply) ==
    /\ query.phase = "exchange" /\ LegacyMode(rules)
    /\ reply = "cached" /\ query.via # 0 => rules[query.via].server # "fakeip"
    /\ query' = IF GoesOn(reply)
                THEN [query EXCEPT !.phase = "walk", !.index = query.via,
                        !.failed = @ \cup {query.via}]
                ELSE [query EXCEPT !.phase = "done", !.result = ResultOf(reply)]
    /\ UNCHANGED rules

-----------------------------------------------------------------------------
\* DefaultDNSRule.Match in the mode with evaluate
MatchesNow(r) ==
    /\ r.matches
    /\ CASE r.response = "no" -> TRUE
         [] r.response = "yes" -> query.evaluated # None /\ r.accepts
         [] OTHER -> query.evaluated = None \/ ~r.accepts

Skip == [query EXCEPT !.index = @ + 1]

\* Fault: an evaluate action that fails leaves the answer of an earlier one.
KeepEvaluated(i, ok) == IF ok THEN [Skip EXCEPT !.evaluated = i] ELSE Skip

\* What an evaluate action leaves behind, whether its query failed or not.
SetEvaluated(i, ok) == [Skip EXCEPT !.evaluated = IF ok THEN i ELSE None]

\* What exchangeWithRules does at the rule i that matches.
RuleAction(i) ==
    LET r == rules[i] IN
    CASE r.action = "options" -> query' = [Skip EXCEPT !.options = @ \cup {i}]
      [] r.action = "evaluate" ->
            query' = IF r.server = "missing" THEN SetEvaluated(i, FALSE)
                     ELSE [query EXCEPT !.phase = "evaluate"]
      [] r.action = "respond" ->
            query' = [query EXCEPT !.phase = "done", !.via = i,
                        !.result = IF query.evaluated = None THEN "error" ELSE "evaluated"]
      [] r.action = "route" ->
            query' = IF Usable(r)
                     THEN [query EXCEPT !.phase = "exchange", !.via = i,
                             !.options = @ \cup {i}]
                     ELSE Skip
      [] OTHER ->
            query' = [query EXCEPT !.phase = "done", !.via = i, !.result = r.action]

\* exchangeWithRules, one rule
ExchangeWithRules ==
    /\ query.phase = "walk" /\ ~LegacyMode(rules)
    /\ query.index < Len(rules)
    /\ LET i == query.index + 1
       IN  IF MatchesNow(rules[i]) THEN RuleAction(i) ELSE query' = Skip
    /\ UNCHANGED rules

\* The query of an evaluate rule returns.
Evaluated(ok) ==
    /\ query.phase = "evaluate"
    /\ query' = [SetEvaluated(query.index + 1, ok) EXCEPT !.phase = "walk"]
    /\ UNCHANGED rules

\* No rule decided: the default transport.
DefaultTransport ==
    /\ query.phase = "walk" /\ ~LegacyMode(rules)
    /\ query.index = Len(rules)
    /\ query' = [query EXCEPT !.phase = "exchange", !.via = 0]
    /\ UNCHANGED rules

ModernAnswer(ok) ==
    /\ query.phase = "exchange" /\ ~LegacyMode(rules)
    /\ query' = [query EXCEPT !.phase = "done",
                   !.result = IF ok THEN "answer" ELSE "error"]
    /\ UNCHANGED rules

WalkStep ==
    \/ MatchDNS
    \/ \E reply \in Replies : LegacyAnswer(reply)
    \/ ExchangeWithRules
    \/ \E ok \in BOOLEAN : Evaluated(ok)
    \/ DefaultTransport
    \/ \E ok \in BOOLEAN : ModernAnswer(ok)

\* What is left to the program: a query that a server has may stay there.
OwnStep == query.phase = "walk" /\ WalkStep

\* A query comes to a router whose rules are built.  Only a rule with a server
\* has one that may be missing or a fakeip one.
Rule ==
    {r \in [matches : BOOLEAN, limit : BOOLEAN, accepts : BOOLEAN,
            response : {"no", "yes", "inverted"},
            action : {"route", "options", "reject", "predefined", "evaluate", "respond"},
            server : {"real", "fakeip", "missing"}, strategy : BOOLEAN] :
       /\ r.action \in {"route", "evaluate"} \/ r.server = "real"
       /\ r.action \in {"route", "evaluate", "options"} \/ ~r.strategy}

Asked ==
    /\ Built(rules)
    /\ \E caller \in {"exchange", "lookup"}, address \in BOOLEAN :
         (caller = "lookup" => address) /\ query = Ask(caller, address)

Spec == rules \in Seq(Rule) /\ Asked /\ [][WalkStep]_qvars

-----------------------------------------------------------------------------
\* What decides a query by the documentation: a rule that matches it and whose
\* action is final, with a server that is there and, where the rule filters
\* addresses, an answer that passes the filter.
Final(r) ==
    /\ r.action \in {"route", "reject", "predefined", "respond"}
    /\ r.action = "route" => Usable(r)

Decides(i) ==
    /\ rules[i].matches /\ Final(rules[i])
    /\ rules[i].limit => query.address
    /\ rules[i].limit /\ rules[i].action = "route" => i \notin query.failed

\* The query is decided by the first rule that decides it and by no other, or
\* by the default transport when no rule does; an answer that a server gave
\* passes the filter of the rule, while one from the cache was not looked at;
\* a Lookup never gets a fakeip answer from a rule (matchDNS and the loops of
\* Exchange and Lookup).
FirstDecides ==
    query.phase = "done" =>
       /\ query.via # 0 => Decides(query.via)
       /\ \A i \in Indices :
            (rules[i].response = "no" /\ Decides(i)) => (query.via # 0 /\ query.via <= i)
       /\ query.result = "answer" /\ query.check => rules[query.via].accepts
       /\ query.via # 0 /\ query.caller = "lookup" => rules[query.via].server # "fakeip"

\* The query goes out with the options of every route-options rule that
\* matched before the rule that sent it, and no other's, except that a refused
\* answer drops the ones collected before it (router.go:668).
OptionsInForce ==
    query.phase = "exchange" =>
       query.options \ {query.via} =
          {k \in Indices : /\ rules[k].action = "options" /\ rules[k].matches
                           /\ rules[k].response = "no"
                           /\ rules[k].limit => query.address
                           /\ query.via # 0 => k < query.via
                           /\ \A f \in query.failed : k > f}
       \cup {k \in query.options \ {query.via} : rules[k].response # "no"}

\* A respond rule answers with the result of the last evaluate rule that
\* matched before it, never with an earlier one's (exchangeWithRules).
RespondsLatest ==
    query.result = "evaluated" =>
       \A k \in (query.evaluated + 1)..(query.via - 1) :
          rules[k].action = "evaluate" => ~rules[k].matches \/ rules[k].response # "no"
=============================================================================
