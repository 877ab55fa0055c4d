----------------------------- MODULE UsageStore -----------------------------
(***************************************************************************)
(* The usage statistics of the ccm service (service/ccm/service_usage.go;  *)
(* service/ocm has the same): usages are added in memory, saved to a file  *)
(* at most once a minute or by a timer, and once more by Close.  A save    *)
(* writes a temporary file, whose name all saves share, and renames it.    *)
(*                                                                         *)
(* The statistics are the number of usages in them.  What a goroutine has  *)
(* opened is known by the name it has now: "tmp", "file", or "gone" once   *)
(* it has none.                                                            *)
(***************************************************************************)
EXTENDS Integers

CONSTANTS
    Savers,   \* goroutines of saveAsync and of the timer
    MaxAdds,  \* bound: usages added
    MaxRuns,  \* bound: processes
    None

VARIABLES
    up,           \* the service: "down", "up", "closing" while Close saves, "closed"
    combinations, \* u.Combinations
    schedulers,   \* goroutines of scheduleSave that have not run
    recent,       \* less than saveInterval has passed since lastSaveTime
    pendingSave,
    saveTimer,    \* the timer is armed
    save,         \* where each goroutine in Save is
    tmpFile,      \* what the temporary file holds, None without one
    file,
    adds, runs,
    excused       \* history: what the file may not be up to date after: two saves
                  \* that overlapped, a failed one, usages added beside Close

usageVars == <<up, combinations, schedulers, recent, pendingSave, saveTimer, save, tmpFile, file,
               adds, runs, excused>>

Torn == -1         \* not all that was to be written
Closer == "close"  \* the Save of Close
Everyone == Savers \cup {Closer}
NoSave == [pc |-> "idle", data |-> 0, fd |-> "gone", alone |-> TRUE]

Init ==
    /\ up = "down" /\ combinations = 0 /\ schedulers = 0 /\ recent = FALSE
    /\ pendingSave = FALSE /\ saveTimer = FALSE /\ save = [s \in Everyone |-> NoSave]
    /\ tmpFile = None /\ file = None /\ adds = 0 /\ runs = 0 /\ excused = {}

-----------------------------------------------------------------------------
Loaded == IF file \in {None, Torn} THEN 0 ELSE file

\* Service.Start reads the file; one that cannot be read counts as empty.
Load ==
    /\ up = "down" /\ up' = "up" /\ runs < MaxRuns /\ runs' = runs + 1
    /\ combinations' = Loaded
    /\ UNCHANGED <<schedulers, recent, pendingSave, saveTimer, save, tmpFile, file, adds, excused>>

\* A request is over: the usage is added, and a goroutine started.  Close does
\* not wait for the requests under way.
AddUsageWithCycleHint ==
    /\ up # "down" /\ adds < MaxAdds /\ adds' = adds + 1
    /\ combinations' = combinations + 1 /\ schedulers' = schedulers + 1
    /\ excused' = excused \cup (IF up = "up" THEN {} ELSE {"late"})
    /\ UNCHANGED <<up, recent, pendingSave, saveTimer, save, tmpFile, file, runs>>

\* A goroutine begins, at the save itself or in the callback of the timer.
Begin(at) ==
    LET free == {s \in Savers : save[s].pc = "idle"}
    IN  free # {} /\ save' = [save EXCEPT ![CHOOSE s \in free : TRUE].pc = at]

scheduleSave ==
    /\ schedulers > 0 /\ schedulers' = schedulers - 1
    /\ \/ ~recent /\ Begin("encode") /\ UNCHANGED <<pendingSave, saveTimer>>
       \/ recent /\ pendingSave /\ UNCHANGED <<pendingSave, saveTimer, save>>
       \/ recent /\ ~pendingSave /\ pendingSave' = TRUE /\ saveTimer' = TRUE /\ UNCHANGED save
    /\ UNCHANGED <<up, combinations, recent, tmpFile, file, adds, runs, excused>>

TimerFires ==
    /\ saveTimer /\ saveTimer' = FALSE /\ Begin("callback")
    /\ UNCHANGED <<up, combinations, schedulers, recent, pendingSave, tmpFile, file, adds, runs, excused>>

\* Fault: the flag is left for the save to clear.
StillPending == pendingSave

PendingAfterTimer == FALSE

TimerCallback(s) ==
    /\ save[s].pc = "callback" /\ save' = [save EXCEPT ![s].pc = "encode"]
    /\ pendingSave' = PendingAfterTimer
    /\ UNCHANGED <<up, combinations, schedulers, recent, saveTimer, tmpFile, file, adds, runs, excused>>

Elapse ==
    /\ recent /\ recent' = FALSE
    /\ UNCHANGED <<up, combinations, schedulers, pendingSave, saveTimer, save, tmpFile, file,
                   adds, runs, excused>>

-----------------------------------------------------------------------------
(* Save.                                                                   *)

Saving(s) == save[s].pc \notin {"idle", "callback", "encode"}

\* ToJSON, under the lock of the statistics.
Encode(s) ==
    /\ save[s].pc = "encode"
    /\ LET others == {o \in Everyone : Saving(o)} IN
       /\ save' = [o \in Everyone |->
             IF o = s THEN [save[s] EXCEPT !.pc = "open", !.data = combinations, !.alone = others = {}]
             ELSE IF o \in others THEN [save[o] EXCEPT !.alone = FALSE] ELSE save[o]]
       /\ excused' = excused \cup (IF others = {} THEN {} ELSE {"overlap"})
    /\ UNCHANGED <<up, combinations, schedulers, recent, pendingSave, saveTimer, tmpFile, file, adds, runs>>

\* The end of a save, and of Close if it is that of Close.
End(s) == up' = IF s = Closer THEN "closed" ELSE up

Fails(s) ==
    /\ save' = [save EXCEPT ![s] = NoSave] /\ End(s)
    /\ excused' = excused \cup {"failed"}

\* Fault: the statistics are written to the file itself.
WrittenName == "file"

TmpName == "tmp"

Put(fd, data) ==
    /\ tmpFile' = IF fd = "tmp" THEN data ELSE tmpFile
    /\ file' = IF fd = "file" THEN data ELSE file

\* os.WriteFile truncates the file or creates it,
Open(s) ==
    /\ save[s].pc = "open"
    /\ \/ Fails(s) /\ UNCHANGED <<tmpFile, file>>
       \/ /\ save' = [save EXCEPT ![s].pc = "write", ![s].fd = TmpName]
          /\ Put(TmpName, Torn)
          /\ UNCHANGED <<up, excused>>
    /\ UNCHANGED <<combinations, schedulers, recent, pendingSave, saveTimer, adds, runs>>

\* and writes; over what another save has written, some of that may remain.
Written(s) ==
    LET was == IF save[s].fd = "tmp" THEN tmpFile ELSE file
    IN  IF was = Torn THEN {save[s].data} ELSE {save[s].data, Torn}

Write(s) ==
    /\ save[s].pc = "write"
    /\ \/ /\ \E data \in Written(s) : Put(save[s].fd, data)
          /\ save' = [save EXCEPT ![s].pc = "rename"]
          /\ UNCHANGED <<up, excused>>
       \/ Put(save[s].fd, Torn) /\ Fails(s)
    /\ UNCHANGED <<combinations, schedulers, recent, pendingSave, saveTimer, adds, runs>>

\* What a goroutine has opened, after a name was given to another file.
Moved(o) == [save[o] EXCEPT !.fd = CASE @ = "tmp" -> "file" [] OTHER -> "gone"]

\* os.Rename, which fails when another save has removed the file, or else; a
\* save that nobody joined makes up for what went wrong before.
Rename(s) ==
    /\ save[s].pc = "rename"
    /\ \/ /\ tmpFile = None
          /\ save' = [save EXCEPT ![s].pc = "remove"]
          /\ UNCHANGED <<tmpFile, file, excused>>
       \/ /\ tmpFile # None
          /\ file' = tmpFile /\ tmpFile' = None
          /\ save' = [[o \in Everyone |-> Moved(o)] EXCEPT ![s].pc = "stamp"]
          /\ excused' = IF save[s].alone THEN excused \ {"overlap", "failed"} ELSE excused
       \/ /\ tmpFile # None
          /\ save' = [save EXCEPT ![s].pc = "remove"]
          /\ excused' = excused \cup {"failed"}
          /\ UNCHANGED <<tmpFile, file>>
    /\ UNCHANGED <<up, combinations, schedulers, recent, pendingSave, saveTimer, adds, runs>>

Stamp(s) ==
    /\ save[s].pc = "stamp" /\ save' = [save EXCEPT ![s].pc = "remove"] /\ recent' = TRUE
    /\ UNCHANGED <<up, combinations, schedulers, pendingSave, saveTimer, tmpFile, file, adds, runs, excused>>

\* The deferred os.Remove of the temporary file, whoever has made it by now.
Remove(s) ==
    /\ save[s].pc = "remove" /\ tmpFile' = None /\ End(s)
    /\ save' = [o \in Everyone |-> IF o = s THEN NoSave
                                   ELSE IF save[o].fd = "tmp" THEN [save[o] EXCEPT !.fd = "gone"]
                                   ELSE save[o]]
    /\ UNCHANGED <<combinations, schedulers, recent, pendingSave, saveTimer, file, adds, runs, excused>>

-----------------------------------------------------------------------------
\* Close: cancelPendingSave, and then Save.
Close ==
    /\ up = "up" /\ up' = "closing" /\ pendingSave' = FALSE /\ saveTimer' = FALSE
    /\ save' = [save EXCEPT ![Closer].pc = "encode"]
    /\ UNCHANGED <<combinations, schedulers, recent, tmpFile, file, adds, runs, excused>>

\* The process is killed, or ends once the service is closed.
Exit ==
    /\ up # "down" /\ up' = "down" /\ combinations' = 0 /\ schedulers' = 0 /\ recent' = FALSE
    /\ pendingSave' = FALSE /\ saveTimer' = FALSE /\ save' = [s \in Everyone |-> NoSave]
    /\ excused' = excused \ {"late"}
    /\ UNCHANGED <<tmpFile, file, adds, runs>>

Next ==
    \/ Load \/ AddUsageWithCycleHint \/ scheduleSave \/ TimerFires \/ Elapse \/ Close \/ Exit
    \/ \E s \in Everyone : \/ TimerCallback(s) \/ Encode(s) \/ Open(s) \/ Write(s)
                           \/ Rename(s) \/ Stamp(s) \/ Remove(s)

Spec == Init /\ [][Next]_usageVars

-----------------------------------------------------------------------------
\* The values the variables take.
TypeOK ==
    /\ up \in {"down", "up", "closing", "closed"} /\ combinations \in 0..MaxAdds
    /\ schedulers \in 0..MaxAdds /\ recent \in BOOLEAN /\ pendingSave \in BOOLEAN /\ saveTimer \in BOOLEAN
    /\ save \in [Everyone ->
          [pc : {"idle", "callback", "encode", "open", "write", "rename", "stamp", "remove"},
           data : 0..MaxAdds, fd : {"tmp", "file", "gone"}, alone : BOOLEAN]]
    /\ tmpFile \in -1..MaxAdds \cup {None} /\ file \in -1..MaxAdds \cup {None}
    /\ adds \in 0..MaxAdds /\ runs \in 0..MaxRuns /\ excused \subseteq {"overlap", "failed", "late"}

\* A usage in memory that is not in the file has somebody who will save it: a
\* goroutine that has yet to look, the timer, or a save under way
\* (scheduleSave).
WillBeSaved ==
    \/ schedulers > 0 \/ saveTimer
    \/ \E s \in Everyone : \/ save[s].pc \in {"callback", "encode"}
                           \/ save[s].pc \in {"open", "write", "rename"} /\ save[s].data = combinations

\* Whenever the process is killed the file is whole, and what was added is in
\* it, will be, or is there when Close has returned; unless saves overlapped or
\* failed since the last one that nobody disturbed, or usages were added
\* beside Close (Save, scheduleSave, cancelPendingSave).
UsageKept ==
    /\ "overlap" \in excused \/ file # Torn
    /\ excused = {} /\ up \in {"up", "closing"} => Loaded = combinations \/ WillBeSaved
    /\ excused = {} /\ up = "closed" => Loaded = combinations
=============================================================================
