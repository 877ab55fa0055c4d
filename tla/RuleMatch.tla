------------------------------ MODULE RuleMatch ------------------------------
(***************************************************************************)
(* How a rule matches: route/rule/match_state.go, rule_abstract.go, the    *)
(* rule set item and the DNS rules of rule_dns.go.  A rule's items fall in *)
(* four groups, any item of a group is enough for the group, and a branch  *)
(* of an included rule-set may stand in for a group of the rule that       *)
(* includes it.  The code walks the tree with sets of the groups matched   *)
(* so far (ruleMatchStateSet); Holds says what the documentation of route  *)
(* rules says.                                                             *)
(*                                                                         *)
(* A list of items is abstracted to "none" (empty), "hit" or "miss"; the   *)
(* ip_cidr items to whether they contain the source address and one of the *)
(* destination's addresses.                                                *)
(*                                                                         *)
(* What the code does by recursion over the tree of rules is a function on *)
(* the calls for the rules nested in the one that is matched; an operator  *)
(* on one rule has that function as the parameter below.                   *)
(***************************************************************************)
EXTENDS Naturals, Folds

CONSTANT None

MaxDepth == 2  \* bound: a rule, the rules of its rule-set, and the rules of those

Groups == {"sourceAddress", "sourcePort", "destinationAddress", "destinationPort"}

DefaultRule(invert, groups, cidr, items, ruleSet) ==
    [kind |-> "default", invert |-> invert, groups |-> groups, cidr |-> cidr,
     items |-> items, ruleSet |-> ruleSet]

Logical(mode, invert, rules) ==
    [kind |-> "logical", mode |-> mode, invert |-> invert, rules |-> rules]

\* len(r.allItems) == 0
IsEmptyRule(r) ==
    /\ \A g \in Groups : r.groups[g] = "none"
    /\ r.cidr = None /\ r.items = "none" /\ r.ruleSet = None

\* The rule with those nested in it.
Children(r) ==
    IF r.kind = "logical" THEN r.rules ELSE IF r.ruleSet = None THEN {} ELSE r.ruleSet.rules

Nested(rule) ==
    LET upTo[n \in 0..MaxDepth] ==
          IF n = 0 THEN {rule} ELSE upTo[n - 1] \cup UNION {Children(r) : r \in upTo[n - 1]}
    IN  upTo[MaxDepth]

-----------------------------------------------------------------------------
\* metadata: ignore is IgnoreDestinationIPCIDRMatch, empty says that there is
\* no destination address to match, in the connection or in the response.
Metadata(ignore, empty) ==
    [ignore |-> ignore, empty |-> empty, matchSource |-> FALSE, acceptEmpty |-> FALSE]

Metadatas == [ignore : BOOLEAN, empty : BOOLEAN, matchSource : BOOLEAN, acceptEmpty : BOOLEAN]

\* InboundContext.ResetRuleCache
ResetRuleCache(md) == [md EXCEPT !.matchSource = FALSE, !.acceptEmpty = FALSE]

\* IPCIDRItem.Match
CIDRMatch(cidr, md) ==
    IF md.matchSource THEN cidr.source
    ELSE IF md.empty THEN md.acceptEmpty
    ELSE cidr.destination

\* Fault: the ip_cidr items are required even while they are ignored.
EagerCIDRGroup(r, md) ==
    IF r.cidr = None THEN {}
    ELSE {IF md.matchSource THEN "sourceAddress" ELSE "destinationAddress"}

\* The group the ip_cidr items of a rule count for, if they count.
CIDRGroup(r, md) ==
    IF r.cidr = None \/ md.ignore THEN {}
    ELSE {IF md.matchSource THEN "sourceAddress" ELSE "destinationAddress"}

\* The groups a state needs to pass the filter of matchStatesWithBase.
Required(r, md) == {g \in Groups : r.groups[g] # "none"} \cup CIDRGroup(r, md)

\* The groups that the rule's own items match.
OwnMatches(r, md) ==
    {g \in Groups : r.groups[g] = "hit"} \cup
    {g \in CIDRGroup(r, md) : CIDRMatch(r.cidr, md)}

\* metadata.DidMatch at the end of matchStatesWithBase: some item was looked at.
DidMatch(r, md) == Required(r, md) # {} \/ r.items # "none" \/ r.ruleSet # None

\* A call for a rule below the one that is matched.
Call(r, md, base) == [rule |-> r, md |-> md, base |-> base]

\* RuleSetItem.matchStatesWithBase over the rules of its rule-sets, each of
\* which merges the states of its rules.
RuleSetStates(item, md, base, below) ==
    LET nested == [md EXCEPT !.matchSource = item.matchSource,
                             !.acceptEmpty = item.acceptEmpty]
    IN  UNION {below[Call(r, nested, base)] : r \in item.rules}

\* Fault: the branches of a logical and are merged, not combined.
MergeStates(s, t) == s \cup t

\* ruleMatchStateSet.combine
Combine(s, t) == {a \cup b : a \in s, b \in t}

\* Fault: an inverted rule profits from what was matched outside of it.
LeakyBase(r, base) == base

\* An inverted rule starts from nothing, and hands on what it was given.
EvaluationBase(r, base) == IF r.invert THEN {} ELSE base

\* abstractDefaultRule.matchStatesWithBase
DefaultStates(r, md, base, below) ==
    LET own == EvaluationBase(r, base) \cup OwnMatches(r, md)
        reached == IF r.ruleSet = None THEN {own} ELSE RuleSetStates(r.ruleSet, md, own, below)
        states == IF r.items = "miss" THEN {}
                  ELSE {s \in reached : Required(r, md) \subseteq s}
        deferred == md.ignore /\ states = {{}} /\ ~DidMatch(r, md) /\ r.cidr # None
    IN  CASE IsEmptyRule(r) -> {base}
          [] r.invert /\ (states = {} \/ deferred) -> {base}
          [] r.invert /\ states # {} /\ ~deferred -> {}
          [] OTHER -> states

\* abstractLogicalRule.matchStatesWithBase
LogicalStates(r, md, base, below) ==
    LET from == EvaluationBase(r, base)
        nested(s) == below[Call(s, ResetRuleCache(md), from)]
        states == IF r.mode = "or" THEN UNION {nested(s) : s \in r.rules}
                  ELSE MapThenFoldSet(Combine, {from}, nested,
                                      LAMBDA S : CHOOSE s \in S : TRUE, r.rules)
    IN  CASE r.invert /\ states = {} -> {base}
          [] r.invert /\ states # {} -> {}
          [] OTHER -> states

\* matchHeadlessRuleStatesWithBase
MatchStates(rule, metadata, none) ==
    LET states[c \in [rule : Nested(rule), md : Metadatas, base : SUBSET Groups]] ==
          IF c.rule.kind = "default" THEN DefaultStates(c.rule, c.md, c.base, states)
          ELSE LogicalStates(c.rule, c.md, c.base, states)
    IN  states[Call(rule, metadata, none)]

\* Match, of a route rule and of a DNS rule without match_response
Match(r, md) == MatchStates(r, md, {}) # {}

\* DefaultDNSRule.LegacyPreMatch and LogicalDNSRule.LegacyPreMatch
LegacyPreMatch(r) == Match(r, Metadata(TRUE, TRUE))

\* MatchAddressLimit of a response with or without addresses
MatchAddressLimit(r, empty) == Match(r, Metadata(FALSE, empty))

\* Metadata().ContainsIPCIDRRule of a rule-set is that one of its rules does.
HasCIDR(rule) == \E r \in Nested(rule) : r.kind = "default" /\ r.cidr # None

\* DefaultDNSRule.WithAddressLimit, with ContainsDestinationIPCIDRRule
WithAddressLimit(r) ==
    \/ r.cidr # None
    \/ r.ruleSet # None /\ ~r.ruleSet.matchSource /\ \E s \in r.ruleSet.rules : HasCIDR(s)

\* What the legacy rule walk of the DNS router does with a rule and the answer
\* it obtained: matchDNS, then addressLimitResponseCheck.
Taken(r, empty) ==
    LegacyPreMatch(r) /\ (WithAddressLimit(r) => MatchAddressLimit(r, empty))

-----------------------------------------------------------------------------
\* The documented meaning of a route rule (docs/configuration/route/rule.md:
\* 211-217), where ip_cidr is an address item as a domain is.  A rule-set is a
\* choice between branches; a branch is a set of plain rules that all hold, each
\* of them merged into the rule that includes the rule-set.  An inverted rule is
\* a condition of its own.  A DNS rule is matched by the same code, though its
\* documentation (dns/rule.md:233-238) has ip_cidr among the and-ed fields.
Branches(r, md, holds, below) ==
    IF r.invert THEN (IF holds THEN {{}} ELSE {})
    ELSE IF r.kind = "default" THEN {{r}}
    ELSE IF r.mode = "or" THEN UNION {below[<<s, md>>].branches : s \in r.rules}
    ELSE {UNION {pick[s] : s \in r.rules} :
             pick \in {p \in [r.rules -> UNION {below[<<s, md>>].branches : s \in r.rules}] :
                          \A s \in r.rules : p[s] \in below[<<s, md>>].branches}}

\* The plain rule r with the plain rules of a branch, those read with the
\* metadata of the rule-set.
MergedHolds(r, md, branch, inner) ==
    /\ r.items # "miss"
    /\ \A b \in branch :
         /\ b.items # "miss"
         /\ Required(b, inner) \subseteq OwnMatches(r, md) \cup OwnMatches(b, inner)
    /\ Required(r, md) \subseteq
         OwnMatches(r, md) \cup UNION {OwnMatches(b, inner) : b \in branch}

PlainHolds(r, md, below) ==
    LET inner == [md EXCEPT !.matchSource = r.ruleSet.matchSource,
                            !.acceptEmpty = r.ruleSet.acceptEmpty]
    IN  IF r.ruleSet = None THEN MergedHolds(r, md, {}, md)
        ELSE \E h \in r.ruleSet.rules : \E branch \in below[<<h, inner>>].branches :
                 MergedHolds(r, md, branch, inner)

RuleHolds(r, md, below) ==
    LET plain == IF r.kind = "default" THEN PlainHolds(r, md, below)
                 ELSE IF r.mode = "or" THEN \E s \in r.rules : below[<<s, md>>].holds
                 ELSE \A s \in r.rules : below[<<s, md>>].holds
    IN  IF r.kind = "default" /\ IsEmptyRule(r) THEN TRUE ELSE plain # r.invert

Holds(rule, metadata) ==
    LET meaning[c \in Nested(rule) \X Metadatas] ==
          LET holds == RuleHolds(c[1], c[2], meaning)
          IN  [holds |-> holds, branches |-> Branches(c[1], c[2], holds, meaning)]
    IN  meaning[<<rule, metadata>>].holds
=============================================================================
