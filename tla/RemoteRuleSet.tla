---------------------------- MODULE RemoteRuleSet ----------------------------
(***************************************************************************)
(* A rule-set that is downloaded (route/rule/rule_set_remote.go): started  *)
(* from the cache file or by a first fetch, refreshed by the update loop   *)
(* with the ETag of what it has, saved, dropped from memory when no rule   *)
(* refers to it, closed while a fetch is under way, restarted after a      *)
(* crash at any point.                                                     *)
(*                                                                         *)
(* A content stands for its ETag; the server may serve it without one.     *)
(* at is the number of the fetch that last confirmed a content             *)
(* (lastUpdated), 0 for the zero time.                                     *)
(***************************************************************************)
EXTENDS Naturals, Sequences

CONSTANTS Contents, MaxFetch, MaxChanges, MaxStarts, None

VARIABLES
    server,      \* [content, tagged]
    changes,
    up,          \* "down", "starting", "up" or "closed"
    refs,        \* whether a rule refers to the set
    rules,       \* the content the rules were built from, None for nil
    mem,         \* [content, etag, at]: what was last loaded and confirmed
    disk,        \* the same in the cache file, None without an entry
    fetch,       \* None, or the response being handled
    confirmed,   \* history: what the server had when it answered each fetch
    starts,
    races        \* history: "save" when a save failed, "untagged" when a content
                 \* without ETag was loaded over one with, "closed" when a
                 \* download was loaded after Close

vars == <<server, changes, up, refs, rules, mem, disk, fetch, confirmed, starts, races>>

Nothing == [content |-> None, etag |-> None, at |-> 0]

Init ==
    /\ server \in [content : Contents, tagged : BOOLEAN]
    /\ changes = 0 /\ starts = 0 /\ up = "down" /\ refs \in BOOLEAN
    /\ rules = None /\ mem = Nothing /\ disk = None /\ fetch = None
    /\ confirmed = <<>> /\ races = {}

ServerChanges ==
    /\ changes < MaxChanges /\ changes' = changes + 1
    /\ server' \in [content : Contents, tagged : BOOLEAN] /\ server' # server
    /\ UNCHANGED <<up, refs, rules, mem, disk, fetch, confirmed, starts, races>>

\* StartContext, up to the first fetch
StartContext ==
    /\ up = "down" /\ starts < MaxStarts /\ starts' = starts + 1
    /\ IF disk = None THEN up' = "starting" /\ UNCHANGED <<mem, rules>>
       ELSE up' = "up" /\ mem' = disk /\ rules' = disk.content
    /\ UNCHANGED <<server, changes, refs, disk, fetch, confirmed, races>>

\* The request and its answer.  The initial fetch, the one of loopUpdate for
\* an old set and those of updateOnce are all this one.
Request ==
    /\ up \in {"starting", "up"} /\ fetch = None /\ Len(confirmed) < MaxFetch
    /\ confirmed' = Append(confirmed, server.content)
    /\ fetch' = IF mem.etag # None /\ server.tagged /\ mem.etag = server.content
                THEN [step |-> "304", content |-> None, tagged |-> TRUE]
                ELSE [step |-> "200", content |-> server.content, tagged |-> server.tagged]
    /\ UNCHANGED <<server, changes, up, refs, rules, mem, disk, starts, races>>

\* A fetch that fails: the initial one fails the start.
FetchFails ==
    /\ up \in {"starting", "up"} /\ fetch = None
    /\ up' = IF up = "starting" THEN "down" ELSE up
    /\ UNCHANGED <<server, changes, refs, rules, mem, disk, fetch, confirmed, starts, races>>

Now == Len(confirmed)

\* Fault: the saved entry is replaced by a new time on an empty one.
TimeOnly(d) == [Nothing EXCEPT !.at = Now]

Touched(d) == [d EXCEPT !.at = Now]

\* http.StatusNotModified
NotModified ==
    /\ fetch # None /\ fetch.step = "304" /\ fetch' = None
    /\ mem' = [mem EXCEPT !.at = Now]
    /\ \/ disk' = (IF disk = None THEN None ELSE Touched(disk)) /\ UNCHANGED races
       \/ UNCHANGED disk /\ races' = races \cup {"save"}
    /\ rules' = IF up = "up" /\ ~refs THEN None ELSE rules
    /\ UNCHANGED <<server, changes, up, refs, confirmed, starts>>

\* Fault: the ETag is remembered although the content was refused.
TagRefused(m) == [m EXCEPT !.etag = IF fetch.tagged THEN fetch.content ELSE @]

Refused(m) == m

\* loadBytes refuses the content.
LoadFails ==
    /\ fetch # None /\ fetch.step = "200" /\ fetch' = None
    /\ mem' = Refused(mem)
    /\ up' = IF up = "starting" THEN "down" ELSE up
    /\ UNCHANGED <<server, changes, refs, rules, disk, confirmed, starts, races>>

\* loadBytes, lastEtag and lastUpdated
LoadBytes ==
    /\ fetch # None /\ fetch.step = "200"
    /\ rules' = fetch.content
    /\ mem' = [content |-> fetch.content, at |-> Now,
               etag |-> IF fetch.tagged THEN fetch.content ELSE mem.etag]
    /\ fetch' = [fetch EXCEPT !.step = "save"]
    /\ races' = races
          \cup (IF ~fetch.tagged /\ mem.etag \notin {None, fetch.content} THEN {"untagged"} ELSE {})
          \cup (IF up = "closed" THEN {"closed"} ELSE {})
    /\ UNCHANGED <<server, changes, up, refs, disk, confirmed, starts>>

\* SaveRuleSet, then the rules of a set nobody refers to are dropped.
SaveRuleSet ==
    /\ fetch # None /\ fetch.step = "save" /\ fetch' = None
    /\ \/ disk' = mem /\ UNCHANGED races
       \/ UNCHANGED disk /\ races' = races \cup {"save"}
    /\ rules' = IF up = "up" /\ ~refs THEN None ELSE rules
    /\ up' = IF up = "starting" THEN "up" ELSE up
    /\ UNCHANGED <<server, changes, refs, mem, confirmed, starts>>

\* Cleanup, once everything is started
Cleanup ==
    /\ up = "up" /\ ~refs /\ rules # None /\ rules' = None
    /\ UNCHANGED <<server, changes, up, refs, mem, disk, fetch, confirmed, starts, races>>

Close ==
    /\ up = "up" /\ up' = "closed" /\ rules' = None
    /\ \/ UNCHANGED fetch
       \/ fetch # None /\ fetch.step \in {"304", "200"} /\ fetch' = None
    /\ UNCHANGED <<server, changes, refs, mem, disk, confirmed, starts, races>>

\* The process ends.
Crash ==
    /\ up # "down" /\ up' = "down"
    /\ rules' = None /\ mem' = Nothing /\ fetch' = None
    /\ UNCHANGED <<server, changes, refs, disk, confirmed, starts, races>>

Next ==
    \/ ServerChanges \/ StartContext \/ Request \/ FetchFails \/ NotModified
    \/ LoadFails \/ LoadBytes \/ SaveRuleSet \/ Cleanup \/ Close \/ Crash

Spec == Init /\ [][Next]_vars

-----------------------------------------------------------------------------
\* What is loaded, and what the cache file would restore, is what the server
\* had at the fetch its time names: a set is never taken for fresh with a
\* content the server did not confirm then.  It takes a save that failed, or a
\* content served without ETag over one with, to break it
\* (rule_set_remote.go:276 and :299).
FreshMeansConfirmed ==
    races \cap {"save", "untagged"} = {} =>
       \A s \in {mem, disk} \ {None} : s.at > 0 => s.content = confirmed[s.at]

\* A running set that rules refer to has its rules, and a closed one has none
\* but those of a download that was under way.
RulesWhileReferred ==
    /\ up = "up" /\ refs => rules = mem.content
    /\ up = "closed" /\ "closed" \notin races => rules = None
=============================================================================
