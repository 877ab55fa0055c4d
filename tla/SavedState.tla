----------------------------- MODULE SavedState -----------------------------
(***************************************************************************)
(* What is saved for the next process: the fakeip store and the DNS cache  *)
(* in the cache file, and the usage statistics in a file of their own.     *)
(***************************************************************************)
EXTENDS FakeIPStore

CONSTANTS Keys, MaxSaves, Savers, MaxAdds, MaxRuns

VARIABLES
    tenant,   \* what a behaviour is about
    saves, saveDNSCache, file, flusher, clearing, newest, excused,
    ccm, combinations, schedulers, recent, pendingSave, saveTimer, save, tmpFile, usageFile,
    adds, runs, usageExcused

DNS == INSTANCE DNSCacheFile
Usage == INSTANCE UsageStore WITH up <- ccm, file <- usageFile, excused <- usageExcused

dnsVars == <<saves, saveDNSCache, file, flusher, clearing, newest, excused>>
usageVars == <<ccm, combinations, schedulers, recent, pendingSave, saveTimer, save, tmpFile, usageFile,
               adds, runs, usageExcused>>

\* A load from the DNS cache gives the message saved last, whatever saves
\* overlapped, unless the write failed or met a ClearDNSCache; and a queued
\* message always has a goroutine that will write it (SaveDNSCacheAsync,
\* ClearDNSCache).  A usage of ccm is in its file, or somebody will save it
\* (scheduleSave, Save).
CacheFlushes ==
    /\ tenant \in {"fakeip", "dns"} => TypeOK /\ DNS!TypeOK /\ DNS!CacheFlushes
    /\ tenant = "usage" => Usage!TypeOK /\ Usage!UsageKept
=============================================================================
