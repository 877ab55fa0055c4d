----------------------------- MODULE OOMKiller -----------------------------
(***************************************************************************)
(* The memory guard (service/oomkiller) as it runs in a network extension: *)
(* services that share one monitor of memory pressure, each with its       *)
(* adaptive timer.  The timer polls the memory in use, and so does the     *)
(* monitor's callback; a poll takes its sample before it takes the lock of *)
(* the timer, and resets the network after it has let go of it.            *)
(*                                                                         *)
(* Time is left out: how long a timer waits, whether the growth since the  *)
(* baseline is critical and whether the baseline is too old are free.      *)
(***************************************************************************)
EXTENDS Naturals, FiniteSets

CONSTANTS
    Services,
    TimerPolls,       \* the goroutines timers run poll in: a slow one can be overtaken
    None,
    Usages,           \* the amounts of memory that may be in use
    Limits,           \* records of memory (the limit) and margin (the safety margin)
    MaxPressure       \* bound: how often the monitor calls back

VARIABLES
    usage, limit,
    life,             \* per service: where Start and Close are
    globalServices, monitor,
    pressure,         \* how often the monitor has called back
    callback,         \* the services the callback has still to notify, or None
    t,                \* per service: its adaptive timer
    poll,             \* per goroutine: the service it polls for, where it is, its sample
    cleared,          \* history: per service, the pressure was over since its last reset
    excused           \* history: the calls that ran side by side

oomVars == <<usage, limit, life, globalServices, monitor, pressure, callback, t, poll, cleared, excused>>
memory == <<usage, limit>>
registry == <<life, globalServices, monitor>>

Polls == TimerPolls \cup {"callback"}
NoTimer == [running |-> FALSE, due |-> FALSE, state |-> "normal", pending |-> FALSE, baseline |-> None]

TypeOK ==
    /\ usage \in Usages /\ limit \in Limits
    /\ globalServices \subseteq Services /\ monitor \in BOOLEAN
    /\ life \in [Services -> {"new", "listed", "up", "stopped", "unlisted", "closed"}]
    /\ \A s \in Services :
         /\ t[s].state \in {"normal", "armed", "triggered"} /\ t[s].baseline \in Usages \cup {None}
         /\ t[s].due => t[s].running
    /\ \A g \in Polls : poll[g] # None => poll[g].of \in Services /\ poll[g].sample \in Usages \cup {None}

Init ==
    /\ usage \in Usages /\ limit \in Limits
    /\ life = [s \in Services |-> "new"]
    /\ globalServices = {} /\ monitor = FALSE
    /\ pressure = 0 /\ callback = None
    /\ t = [s \in Services |-> NoTimer]
    /\ poll = [g \in Polls |-> None]
    /\ cleared = [s \in Services |-> TRUE]
    /\ excused = {}

-----------------------------------------------------------------------------
(* The memory in use, the thresholds and the states. *)

Least(a, b) == IF a <= b THEN a ELSE b

\* computeLimitThresholds; with a margin of a quarter of the limit or more
\* resume is 0, and a timer that has triggered never leaves that state.
Margin == Least(limit.margin, limit.memory)
Thresholds ==
    [trigger |-> limit.memory - Margin,
     armed   |-> limit.memory - Least(Margin * 2, limit.memory),
     resume  |-> limit.memory - Least(Margin * 4, limit.memory)]

Below(amount) == amount < Thresholds.resume

\* Fault: a timer that has triggered is treated like any other.
NoHysteresis(current, sample) ==
    CASE sample >= Thresholds.trigger -> "triggered"
      [] sample \in Thresholds.armed..(Thresholds.trigger - 1) -> "armed"
      [] OTHER -> "normal"

NextPressureState(current, sample) ==
    CASE current = "triggered" -> IF sample >= Thresholds.resume THEN "triggered" ELSE "normal"
      [] current # "triggered" /\ sample >= Thresholds.trigger -> "triggered"
      [] current # "triggered" /\ sample \in Thresholds.armed..(Thresholds.trigger - 1) -> "armed"
      [] OTHER -> "normal"

Use ==
    /\ usage' \in Usages \ {usage}
    /\ cleared' = [s \in Services |-> cleared[s] \/ Below(usage')]
    /\ UNCHANGED <<limit, registry, pressure, callback, t, poll, excused>>

-----------------------------------------------------------------------------
(* Start and Close of a service. *)

\* Between the lock of the list and the monitor, or on the way there.
Underway == {s \in Services : life[s] \in {"listed", "stopped", "unlisted"}}
SideBySide == IF Underway = {} THEN {} ELSE {"monitor"}

\* Start makes the timer and joins the list under the global lock; ...
StartListed(s) ==
    /\ life[s] = "new"
    /\ life' = [life EXCEPT ![s] = IF globalServices = {} THEN "listed" ELSE "up"]
    /\ globalServices' = globalServices \cup {s}
    /\ excused' = excused \cup SideBySide
    /\ UNCHANGED <<memory, monitor, pressure, callback, t, poll, cleared>>

\* ... the first one starts the monitor when the lock is gone.
StartMonitor(s) ==
    /\ life[s] = "listed"
    /\ life' = [life EXCEPT ![s] = "up"]
    /\ monitor' = TRUE
    /\ UNCHANGED <<memory, globalServices, pressure, callback, t, poll, cleared, excused>>

\* Close stops the timer, also of a service a callback has yet to notify; ...
StopTimer(s) ==
    /\ life[s] = "up"
    /\ life' = [life EXCEPT ![s] = "stopped"]
    /\ t' = [t EXCEPT ![s].running = FALSE, ![s].due = FALSE]
    /\ excused' = excused \cup SideBySide \cup (IF callback # None /\ s \in callback THEN {s} ELSE {})
    /\ UNCHANGED <<memory, globalServices, monitor, pressure, callback, poll, cleared>>

\* Fault: Close leaves the service in the list when it is not the only one.
Kept(s) == IF globalServices = {s} THEN {} ELSE globalServices

Without(s) == globalServices \ {s}

\* ... it leaves the list, ...
CloseUnlisted(s) ==
    /\ life[s] = "stopped"
    /\ globalServices' = Without(s)
    /\ life' = [life EXCEPT ![s] = IF globalServices' = {} THEN "unlisted" ELSE "closed"]
    /\ UNCHANGED <<memory, monitor, pressure, callback, t, poll, cleared, excused>>

\* ... and the last one stops the monitor.
StopMonitor(s) ==
    /\ life[s] = "unlisted"
    /\ life' = [life EXCEPT ![s] = "closed"]
    /\ monitor' = FALSE
    /\ UNCHANGED <<memory, globalServices, pressure, callback, t, poll, cleared, excused>>

-----------------------------------------------------------------------------
(* The callback and the polls. *)

\* goMemoryPressureCallback copies the list; a service whose Close is past
\* its timer is still on it.
Pressure ==
    /\ monitor /\ callback = None /\ pressure < MaxPressure
    /\ pressure' = pressure + 1
    /\ callback' = IF globalServices = {} THEN None ELSE globalServices
    /\ excused' = excused \cup {s \in globalServices : life[s] = "stopped"}
    /\ UNCHANGED <<memory, registry, t, poll, cleared>>

\* startLocked: a timer that does not run starts over, in the normal state.
Started(s) ==
    IF t[s].running THEN t[s] ELSE [t[s] EXCEPT !.running = TRUE, !.due = TRUE, !.state = "normal"]

\* notifyPressure under the lock of the timer; poll follows.
Notify(s) ==
    /\ callback # None /\ s \in callback /\ poll["callback"] = None
    /\ callback' = IF callback = {s} THEN None ELSE callback \ {s}
    /\ t' = [t EXCEPT ![s] = [Started(s) EXCEPT !.pending = TRUE]]
    /\ cleared' = [cleared EXCEPT ![s] = @ \/ ~t[s].running]
    /\ poll' = [poll EXCEPT !["callback"] = [of |-> s, at |-> "begun", sample |-> None, old |-> FALSE]]
    /\ UNCHANGED <<memory, registry, pressure, excused>>

Fire(g, s) ==
    /\ g \in TimerPolls /\ poll[g] = None /\ t[s].due
    /\ t' = [t EXCEPT ![s].due = FALSE]
    /\ poll' = [poll EXCEPT ![g] = [of |-> s, at |-> "begun", sample |-> None, old |-> FALSE]]
    /\ UNCHANGED <<memory, registry, pressure, callback, cleared, excused>>

\* readMemorySample, without a lock.
Sample(g) ==
    /\ poll[g] # None /\ poll[g].at = "begun"
    /\ poll' = [poll EXCEPT ![g].at = "sampled", ![g].sample = usage]
    /\ UNCHANGED <<memory, registry, pressure, callback, t, cleared, excused>>

\* poll under the lock, the timer having been stopped since it fired.
Stopped(g) ==
    /\ poll[g] # None /\ poll[g].at = "sampled" /\ ~t[poll[g].of].running
    /\ poll' = [poll EXCEPT ![g] = None]
    /\ UNCHANGED <<memory, registry, pressure, callback, t, cleared, excused>>

\* The timer after the sample of a poll: a pending baseline is the sample, a
\* baseline may have become too old, and the timer is due again.
After(s, sample) ==
    LET new   == NextPressureState(t[s].state, sample)
        based == IF t[s].pending THEN sample ELSE t[s].baseline
    IN {[t[s] EXCEPT !.state = new, !.pending = FALSE, !.baseline = b, !.due = TRUE] :
            b \in {based} \cup (IF new = "normal" /\ ~t[s].pending THEN {None} ELSE {})}

\* Only then can the growth be critical.
Grown(timer, sample) == timer.baseline # None /\ sample > timer.baseline /\ sample < limit.memory

\* The other polls of the service that have their sample.
Overtaken(g) == {h \in Polls \ {g} : poll[h] # None /\ poll[h].of = poll[g].of /\ poll[h].at = "sampled"}

\* poll under the lock: it ends, or it is to reset the network.
Evaluate(g) ==
    /\ poll[g] # None /\ poll[g].at = "sampled" /\ t[poll[g].of].running
    /\ LET s == poll[g].of
           sample == poll[g].sample
       IN \E timer \in After(s, sample) :
            LET crossed == t[s].state # "triggered" /\ timer.state = "triggered"
            IN \E critical \in IF ~crossed /\ Grown(timer, sample) THEN BOOLEAN ELSE {FALSE} :
                 IF crossed \/ critical
                 THEN /\ t' = [t EXCEPT ![s] = [timer EXCEPT !.state = "triggered"]]
                      /\ poll' = [h \in Polls |-> CASE h = g -> [poll[h] EXCEPT !.at = "reset"]
                                                    [] h \in Overtaken(g) -> [poll[h] EXCEPT !.old = TRUE]
                                                    [] OTHER -> poll[h]]
                      /\ cleared' = [cleared EXCEPT ![s] = Below(usage)]
                 ELSE /\ t' = [t EXCEPT ![s] = timer]
                      /\ poll' = [poll EXCEPT ![g] = None]
                      /\ cleared' = [cleared EXCEPT ![s] = @ \/ (poll[g].old /\ Below(sample))]
    /\ UNCHANGED <<memory, registry, pressure, callback, excused>>

\* ResetNetwork and the report, with no lock held.
Reset(g) ==
    /\ poll[g] # None /\ poll[g].at = "reset"
    /\ poll' = [poll EXCEPT ![g] = None]
    /\ UNCHANGED <<memory, registry, pressure, callback, t, cleared, excused>>

Next ==
    \/ Use
    \/ \E s \in Services : StartListed(s) \/ StartMonitor(s) \/ StopTimer(s) \/ CloseUnlisted(s) \/ StopMonitor(s)
    \/ Pressure
    \/ \E s \in Services : Notify(s) \/ \E g \in TimerPolls : Fire(g, s)
    \/ \E g \in Polls : Sample(g) \/ Stopped(g) \/ Evaluate(g) \/ Reset(g)

Spec == Init /\ [][Next]_oomVars

-----------------------------------------------------------------------------
\* A timer is ready to reset the network on the threshold only if the pressure
\* was over since its last reset: the memory in use has been below the resume
\* mark, or a poll that this reset overtook had seen it there (poll samples
\* before it locks), or the timer was stopped and started again.  The growth
\* rate knows no such pause: it can reset the network at every poll.
ResetsSpaced == \A s \in Services : t[s].running /\ t[s].state # "triggered" => cleared[s]

\* The timer of a closed service does not run, unless a callback had the
\* service in its copy of the list when Close stopped the timer, or copied it
\* before Close had left the list: Close stops the timer first, and
\* notifyPressure starts a stopped timer.
QuietAfterClose == \A s \in Services \ excused : life[s] = "closed" => ~t[s].running

\* The monitor runs exactly when a service is registered, unless two calls of
\* Start or Close were underway together: both start and stop it after they
\* have released the lock that told them they are the first or the last.
MonitorMatches == Underway = {} /\ "monitor" \notin excused => monitor = (globalServices # {})
=============================================================================
