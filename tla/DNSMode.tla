------------------------------- MODULE DNSMode -------------------------------
(***************************************************************************)
(* The mode of the DNS router (dns/router.go): legacy rules filter         *)
(* addresses, modern ones look at answers, and which mode the rules run in *)
(* depends on what the rule-sets they refer to contain.  A rule-set that   *)
(* changes asks the router first (reloadRules of rule_set_local.go,        *)
(* loadBytes of rule_set_remote.go) and takes the new metadata after it    *)
(* was allowed, with nothing held in between.                              *)
(***************************************************************************)
EXTENDS Naturals

CONSTANTS
    RuleSets,     \* rule-sets the DNS rules refer to
    MaxUpdates,   \* updates of one rule-set
    None

VARIABLES
    own,          \* what the rules themselves ask for
    metadata,     \* what each rule-set contains
    update,       \* the metadata a rule-set was allowed and has not taken yet
    updates,
    start,        \* "new", "built", "started", "closed" or "failed"
    built,        \* the mode buildRules found
    legacyDNSMode,
    started, closing,
    races         \* history: the rule-sets whose update was under way when
                  \* another one, or the start, looked at them; all of them when
                  \* an update was allowed between buildRules and its publication

vars == <<own, metadata, update, updates, start, built, legacyDNSMode, started, closing, races>>

Flags == {"disabled", "needed", "strategy"}

\* RuleSetMetadata: a query_type rule disables the legacy mode, an ip_cidr rule
\* needs it.
Contains == SUBSET {"disabled", "needed"}

Init ==
    /\ own \in {{}, {"disabled"}, {"needed"}, {"needed", "strategy"}}
    /\ metadata \in [RuleSets -> Contains]
    /\ update = [s \in RuleSets |-> None] /\ updates = [s \in RuleSets |-> 0]
    /\ start = "new" /\ built = None /\ legacyDNSMode = FALSE
    /\ started = FALSE /\ closing = FALSE /\ races = {}

\* dnsRuleModeRequirements
Requirements(md) == own \cup UNION {md[s] : s \in RuleSets}

\* resolveLegacyDNSMode
ResolveLegacyDNSMode(md) ==
    CASE {"disabled", "strategy"} \subseteq Requirements(md) -> "error"
      [] "disabled" \notin Requirements(md) /\ "needed" \in Requirements(md) -> "legacy"
      [] OTHER -> "modern"

\* validateLegacyDNSModeDisabledRules, of the rules alone
ValidWhenDisabled == "needed" \notin own

\* Fault: once started, the new metadata is not compared with the mode.
AllowOnceStarted(md) == ResolveLegacyDNSMode(md) # "error"

\* ValidateRuleSetMetadataUpdate once the mode is fixed.
FitsMode(md) ==
    IF legacyDNSMode THEN "disabled" \notin Requirements(md)
    ELSE ResolveLegacyDNSMode(md) = "modern"

\* ValidateRuleSetMetadataUpdate before it is.
CanBuild(md) ==
    \/ ResolveLegacyDNSMode(md) = "legacy"
    \/ ResolveLegacyDNSMode(md) = "modern" /\ ValidWhenDisabled

UnderWay == {s \in RuleSets : update[s] # None}

\* The rule-set asks the router
ValidateRuleSetMetadataUpdate(s, new) ==
    /\ update[s] = None /\ updates[s] < MaxUpdates /\ new # metadata[s]
    /\ updates' = [updates EXCEPT ![s] = @ + 1]
    /\ LET md == [metadata EXCEPT ![s] = new]
           allowed == closing \/ (IF started THEN FitsMode(md) ELSE CanBuild(md))
       IN /\ update' = [update EXCEPT ![s] = IF allowed THEN new ELSE None]
          /\ races' = races \cup (IF ~allowed THEN {} ELSE IF start = "built" THEN RuleSets ELSE UnderWay)
    /\ UNCHANGED <<own, metadata, start, built, legacyDNSMode, started, closing>>

\* and takes the metadata.
TakeMetadata(s) ==
    /\ update[s] # None
    /\ metadata' = [metadata EXCEPT ![s] = update[s]] /\ update' = [update EXCEPT ![s] = None]
    /\ UNCHANGED <<own, updates, start, built, legacyDNSMode, started, closing, races>>

-----------------------------------------------------------------------------
\* buildRules
BuildRules ==
    /\ start = "new"
    /\ IF CanBuild(metadata)
       THEN /\ start' = "built" /\ built' = ResolveLegacyDNSMode(metadata)
            /\ races' = races \cup UnderWay
       ELSE start' = "failed" /\ UNCHANGED <<built, races>>
    /\ UNCHANGED <<own, metadata, update, updates, legacyDNSMode, started, closing>>

\* Start publishes what was built.
Publish ==
    /\ start = "built"
    /\ IF closing THEN start' = "closed" /\ UNCHANGED <<legacyDNSMode, started>>
       ELSE start' = "started" /\ legacyDNSMode' = (built = "legacy") /\ started' = TRUE
    /\ races' = races \cup UnderWay
    /\ UNCHANGED <<own, metadata, update, updates, built, closing>>

Close ==
    /\ ~closing /\ closing' = TRUE
    /\ UNCHANGED <<own, metadata, update, updates, start, built, legacyDNSMode, started, races>>

Next ==
    \/ BuildRules \/ Publish \/ Close
    \/ \E s \in RuleSets :
          \/ \E new \in Contains : ValidateRuleSetMetadataUpdate(s, new)
          \/ TakeMetadata(s)

Spec == Init /\ [][Next]_vars

-----------------------------------------------------------------------------
\* While the router runs, the mode it started in can serve what the rule-sets
\* contain now: no query_type rule-set under legacy rules, no address filter
\* under modern ones.  Every update is checked against the others as they were,
\* so two updates at once, or one across the start, can break it.
ModeFits ==
    started /\ ~closing /\ races = {} =>
       IF legacyDNSMode THEN "disabled" \notin Requirements(metadata)
       ELSE ResolveLegacyDNSMode(metadata) = "modern"
=============================================================================
