------------------------------- MODULE MCCore -------------------------------
(***************************************************************************)
(* The daemon's service and the parts around the router.  A behaviour is   *)
(* one of one part: the service, the matching of one rule against its      *)
(* documented reading on every rule of a bounded shape, the router's walk  *)
(* over every list of three rules (once for PreMatch and then for the      *)
(* connection itself), the box, a selector, a downloaded rule-set, or the  *)
(* mode of the DNS rules; the variables of the other parts stay as they    *)
(* are at rest.                                                            *)
(***************************************************************************)
EXTENDS ServiceStatus, TLC

CONSTANTS MaxRead, Outbounds, Default, Callers, Links, MaxStarts,
          Contents, MaxFetch, MaxChanges, Sets, MaxUpdates

VARIABLES
    part,   \* what this behaviour is about
    input,  \* the rule, and the answer it is matched with
    rules,  \* of RouteRules
    conn,   \* the connection that is routed
    pre,    \* PreMatch for the same connection
    at, caller, next, reached, running, done, boxRaces,
    selected, stored, switcher, link, starts, selectorRaces,
    server, changes, up, refs, loaded, mem, disk, fetch, confirmed, restarts, fetchRaces,
    own, metadata, update, updates, start, built, legacyDNSMode, started, closing, modeRaces

boxVars == <<at, caller, next, reached, running, done, boxRaces>>
selectorVars == <<selected, stored, switcher, link, starts, selectorRaces>>
fetchVars == <<server, changes, up, refs, loaded, mem, disk, fetch, confirmed, restarts, fetchRaces>>
modeVars == <<own, metadata, update, updates, start, built, legacyDNSMode, started, closing, modeRaces>>

RM == INSTANCE RuleMatch
RR == INSTANCE RouteRules
PM == INSTANCE RouteRules WITH conn <- pre
BX == INSTANCE Box WITH races <- boxRaces
SL == INSTANCE Selector WITH caller <- switcher, races <- selectorRaces
RS == INSTANCE RemoteRuleSet WITH rules <- loaded, starts <- restarts, races <- fetchRaces
DM == INSTANCE DNSMode WITH RuleSets <- Sets, races <- modeRaces

-----------------------------------------------------------------------------
\* Rule matching: a rule, and in it a rule-set of two rules or of one logical
\* rule over the two, with the flags of the rule-set item.
Marks == {"none", "hit", "miss"}

Grouped(address, port) ==
    {[g \in RM!Groups |-> CASE g = "destinationAddress" -> a
                            [] g = "destinationPort" -> p
                            [] OTHER -> "none"] : a \in address, p \in port}

CIDRs == {None, [source |-> TRUE, destination |-> FALSE],
                [source |-> FALSE, destination |-> TRUE]}

OuterRules ==
    {RM!DefaultRule(i, g, c, "none", None) :
        i \in BOOLEAN, g \in Grouped(Marks, {"none", "miss"}), c \in CIDRs}

InnerRules ==
    {r \in {RM!DefaultRule(i, g, c, t, None) :
              i \in BOOLEAN, g \in Grouped(Marks, {"none", "hit"}), c \in CIDRs,
              t \in {"none", "miss"}} :
        /\ ~RM!IsEmptyRule(r)
        /\ r.items = "miss" => \A g \in RM!Groups : r.groups[g] # "hit"}

RuleSetsOf(a, b) ==
    {{a, b}} \cup {{RM!Logical(mode, i, {a, b})} : mode \in {"and", "or"}, i \in BOOLEAN}

Flags == {<<FALSE, FALSE>>, <<TRUE, FALSE>>, <<FALSE, TRUE>>}

InitRule ==
    /\ \E r \in OuterRules, e \in BOOLEAN : input = [rule |-> r, empty |-> e, built |-> FALSE]

BuildRule ==
    /\ ~input.built
    /\ \E a, b \in InnerRules : \E rs \in RuleSetsOf(a, b), f \in Flags :
         input' = [input EXCEPT !.built = TRUE,
                     !.rule.ruleSet = [rules |-> rs, matchSource |-> f[1], acceptEmpty |-> f[2]]]

Rule == input.rule
Included == IF Rule.ruleSet = None THEN {} ELSE Rule.ruleSet.rules
Below == Included \cup UNION {s.rules : s \in {t \in Included : t.kind = "logical"}}
Answer == RM!Metadata(FALSE, input.empty)

\* A rule matches exactly when the reading documented for route rules holds:
\* ip_cidr counts with the domains, each branch of an included rule-set is
\* merged into the rule, branches are or-ed, and an inverted rule is a condition
\* of its own (matchStatesWithBase and the state sets).  Left out: logical rules
\* below a rule-set item with a flag, which loses the flag there
\* (rule_abstract.go:246).
MatchesReference ==
    /\ part = "match"
    /\ \/ \A s \in Included : s.kind = "default"
       \/ ~Rule.ruleSet.matchSource /\ ~Rule.ruleSet.acceptEmpty
    => (RM!Match(Rule, Answer) <=> RM!Holds(Rule, Answer))

\* The first look decides too early in two cases: an inverted rule is refused
\* when what it has beside ip_cidr matches, and an address item that misses is
\* not given the ip_cidr that would stand in for it.
OnlyCIDR(r) ==
    /\ r.kind = "default" /\ r.items = "none" /\ r.ruleSet = None
    /\ \A g \in RM!Groups : r.groups[g] = "none"

RefusedEarly(r) ==
    /\ r.invert /\ RM!HasCIDR(r) /\ ~OnlyCIDR(r)
    /\ RM!LegacyPreMatch([r EXCEPT !.invert = FALSE])

MissedEarly(r) == ~r.invert /\ r.kind = "default" /\ r.groups["destinationAddress"] = "miss"

DecidedEarly == RM!WithAddressLimit(Rule) /\ \E r \in {Rule} \cup Below : RefusedEarly(r) \/ MissedEarly(r)

\* Nor does it read the ip_cidr of a rule-set that are for the source address,
\* and without an address limit there is no second look.
SourceUnread ==
    /\ Rule.ruleSet # None /\ Rule.ruleSet.matchSource /\ ~RM!WithAddressLimit(Rule)
    /\ \E s \in Included : RM!HasCIDR(s)

\* The two looks of the legacy DNS walk at a rule, LegacyPreMatch before the
\* query and MatchAddressLimit on the answer, together decide what one match
\* with the answer in hand decides, but for what the first look decides too
\* early or leaves unread.  In both an address item that hits makes up for an
\* ip_cidr that misses the answer, which docs/configuration/dns/rule.md:233-238
\* does not list with the address items.
TwoLooksAgree ==
    part = "match" /\ ~DecidedEarly /\ ~SourceUnread
    => (RM!Taken(Rule, input.empty) <=> RM!Match(Rule, Answer))

-----------------------------------------------------------------------------
\* Every list of three route rules, for a stream or for packets.
RouteRule(when, action, ok, names) ==
    [when |-> when, action |-> action, ok |-> ok, names |-> names]

RouteRuleSpace ==
    {RouteRule(w, a, TRUE, None) :
        w \in {"always", "sniffed", "resolved"},
        a \in {"route", "reject", "hijack", "bypass", "bypassTo"}}
    \cup {RouteRule("always", a, FALSE, None) : a \in {"route", "resolve"}}
    \cup {RouteRule("always", a, TRUE, None) : a \in {"options", "resolve"}}
    \cup {RouteRule("always", "sniff", ok, n) : ok \in BOOLEAN, n \in {"s1", "s2"}}
    \cup {RouteRule("never", "route", TRUE, None)}

InitRoute ==
    /\ \E r \in RouteRuleSpace : rules = <<r>>
    /\ conn = None /\ pre = None

BuildRoute ==
    /\ conn = None
    /\ \E a, b \in RouteRuleSpace, network \in {"tcp", "udp"}, bypass \in BOOLEAN :
         /\ rules' = rules \o <<a, b>>
         /\ conn' = RR!Arrive(network, FALSE, bypass)
         /\ pre' = PM!Arrive(network, TRUE, bypass)

RouteNext ==
    \/ BuildRoute
    \/ conn # None /\ PM!RouteStep /\ UNCHANGED conn
    \/ conn # None /\ pre.phase = "done" /\ RR!RouteStep /\ UNCHANGED pre

RouteDone == conn # None /\ conn.phase = "done" /\ pre.phase = "done"

\* The connection is handed over once, with the payload that was sniffed in
\* its order (routeConnection, routePacketConnection).
HandedOver == conn # None => RR!HandedOver

\* A connection that PreMatch refuses would have been refused by the same rule
\* had it been let in, whatever its payload: PreMatch decides nothing that
\* sniffing could change (matchRule with preMatch).
PreMatchAgrees ==
    RouteDone /\ pre.verdict = "reject" => conn.result = "reject" /\ conn.via = pre.via

\* Both, of the router's two walks over one connection (PreMatch, matchRule).
RoutedRight == HandedOver /\ PreMatchAgrees

-----------------------------------------------------------------------------
rulesVars == <<input, rules, conn, pre>>

RulesInit ==
    \/ part = "match" /\ InitRule /\ rules = <<>> /\ conn = None /\ pre = None
    \/ part = "route" /\ InitRoute /\ input = None

RulesNext ==
    /\ UNCHANGED part
    /\ \/ part = "match" /\ BuildRule /\ UNCHANGED <<rules, conn, pre>>
       \/ part = "route" /\ RouteNext /\ UNCHANGED input
       \/ /\ IF part = "match" THEN input.built ELSE RouteDone
          /\ UNCHANGED <<input, rules, conn, pre>>

-----------------------------------------------------------------------------
Parts == {"match", "route", "service", "box", "selector", "ruleset", "mode"}

RulesAtRest == input = None /\ rules = <<>> /\ conn = None /\ pre = None

MCInit ==
    /\ part \in Parts
    /\ IF part \in {"match", "route"} THEN RulesInit ELSE RulesAtRest
    /\ Init /\ BX!Init /\ SL!Init
    /\ RS!Init /\ (part # "ruleset" => server.tagged /\ refs /\ server.content = CHOOSE c \in Contents : TRUE)
    /\ DM!Init /\ (part # "mode" => own = {} /\ \A s \in Sets : metadata[s] = {})

\* Three calls of StartOrReloadService, or two with a client that waits.
ServiceBound ==
    \/ \A w \in Waiters : pc[w] = "call"
    \/ \E i \in Starters : pc[i] = "call"

MCNext ==
    /\ UNCHANGED part
    /\ IF part \in {"match", "route"} THEN RulesNext ELSE UNCHANGED rulesVars
    /\ IF part = "service" THEN Next /\ ServiceBound' ELSE UNCHANGED vars
    /\ IF part = "box" THEN BX!Next ELSE UNCHANGED boxVars
    /\ IF part = "selector" THEN SL!Next ELSE UNCHANGED selectorVars
    /\ IF part = "ruleset" THEN RS!Next ELSE UNCHANGED fetchVars
    /\ IF part = "mode" THEN DM!Next ELSE UNCHANGED modeVars

MCSpec == MCInit /\ [][MCNext]_<<part, rulesVars, vars, boxVars, selectorVars, fetchVars, modeVars>>

\* The calls of StartOrReloadService are alike.
Symmetry == Permutations(Starters)

-----------------------------------------------------------------------------
\* Every manager goes through all the stages in order, the inbounds open last,
\* and what Start began is closed by whoever ends the box (Box.preStart,
\* Box.start, Box.Close).
BoxInOrder == part = "box" => BX!StagesInOrder /\ BX!ClosedBehind

\* A switch is stored for the next process and ends the connections that are to
\* be ended (Selector.SelectOutbound, interrupt.Group).
SwitchComplete == part = "selector" => SL!ChoiceSurvives /\ SL!NoOldConnection

\* The documentation of interrupt_exist_connections: a switch ends the inbound
\* connections (Selector.NewConnectionEx).
InboundInterrupted == part = "selector" => SL!InboundInterrupted

\* Content that counts as up to date is the server's, and rules are there while
\* somebody refers to them (RemoteRuleSet.fetch, loadBytes, Cleanup).
FreshMeansConfirmed == part = "ruleset" => RS!FreshMeansConfirmed /\ RS!RulesWhileReferred

\* The rule-sets in use fit the mode the DNS router was started in
\* (ValidateRuleSetMetadataUpdate).
ModeFits == part = "mode" => DM!ModeFits
=============================================================================
