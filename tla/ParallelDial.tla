----------------------------- MODULE ParallelDial -----------------------------
(***************************************************************************)
(* Dials that race (common/dialer/default_parallel_interface.go and        *)
(* default_parallel_network.go): over the network interfaces selected for  *)
(* a strategy, with the fallback ones after a delay or, shortly after a    *)
(* fallback had to be used, at once; and over the IPv4 and IPv6 addresses  *)
(* of a destination, each family in series.                                *)
(*                                                                         *)
(* A racer is a role and what it dials.  Results go through an unbuffered  *)
(* channel: a racer waits until the dialing call takes its result or       *)
(* returns.                                                                *)
(*                                                                         *)
(* A dial that fails with EPERM under the default strategy is repeated     *)
(* without one (default.go:302-307), which is no race and left out.        *)
(***************************************************************************)
EXTENDS Naturals, FiniteSets

CONSTANTS
    Interfaces,   \* the network interfaces; an interface stands for its type
    MaxAddress,   \* addresses of one family
    None

VARIABLES
    mode,         \* "interface", "fast" or "network"
    racer,        \* state of each racer that exists
    left,         \* addresses a racer has not tried yet
    timer,        \* the fallback timer: "none", "armed", "fired"
    errors,       \* len(errors)
    result,       \* the racer whose connection is returned, None on failure
    returned,     \* close(returned)
    recent        \* networkLastFallback is within the timeout

vars == <<mode, racer, left, timer, errors, result, returned, recent>>

\* An interface that is configured, or is the default, but is not there.
Absent == "absent"

\* selectInterfaces
PrimaryInterfaces(strategy, types, default) ==
    IF types # {} THEN types \cap Interfaces
    ELSE IF strategy = "hybrid" \/ default = None THEN Interfaces ELSE {default} \cap Interfaces

FallbackInterfaces(strategy, types, fallbackTypes, default) ==
    IF strategy # "fallback" THEN {}
    ELSE IF fallbackTypes # {} THEN fallbackTypes \cap Interfaces
    ELSE Interfaces \ PrimaryInterfaces(strategy, types, default)

Racers == DOMAIN racer
Role(r) == r[1]

\* A dial is under way: primary racers run, fallback racers wait for the timer
\* unless a fallback was needed a moment ago.
Begin(m, primary, fallback, addresses) ==
    /\ mode = m
    /\ racer = [r \in ({"primary"} \X primary) \cup ({"fallback"} \X fallback) |->
                  IF Role(r) = "primary" \/ m = "fast" THEN "dialing" ELSE "idle"]
    /\ left = [r \in DOMAIN racer |-> addresses]
    /\ timer = IF m = "fast" \/ fallback = {} THEN "none" ELSE "armed"
    /\ errors = 0 /\ result = None
    /\ returned = (primary \cup fallback = {})

Init ==
    \/ \E strategy \in {"default", "hybrid", "fallback"},
          types, fallbackTypes \in SUBSET (Interfaces \cup {Absent}),
          default \in Interfaces \cup {Absent, None} :
          /\ recent \in BOOLEAN
          /\ Begin(IF recent THEN "fast" ELSE "interface",
                   PrimaryInterfaces(strategy, types, default),
                   FallbackInterfaces(strategy, types, fallbackTypes, default), 1)
    \/ /\ recent = FALSE
       /\ \E n \in 1..MaxAddress : Begin("network", {"v4"}, {"v6"}, n)

-----------------------------------------------------------------------------
\* The dial of a racer, or the next one of DialSerialNetwork.
DialSerialNetwork(r) ==
    /\ racer[r] = "dialing"
    /\ \/ racer' = [racer EXCEPT ![r] = "connected"] /\ UNCHANGED left
       \/ /\ left' = [left EXCEPT ![r] = @ - 1]
          /\ racer' = [racer EXCEPT ![r] = IF left[r] = 1 THEN "failed" ELSE "dialing"]
    /\ UNCHANGED <<mode, timer, errors, result, returned, recent>>

\* The fallback timer fires: at its delay, or at once when a primary failed.
StartFallback ==
    /\ ~returned /\ timer = "armed" /\ timer' = "fired"
    /\ racer' = [r \in Racers |-> IF Role(r) = "fallback" THEN "dialing" ELSE racer[r]]
    /\ UNCHANGED <<mode, left, errors, result, returned, recent>>

\* Fault: the failures of the fallback racers are not waited for.
PrimariesFailed(n) == n >= Cardinality({r \in Racers : Role(r) = "primary"})

AllFailed(n) == n = Cardinality(Racers)

\* res := <-results
TakeResult(r) ==
    /\ ~returned
    /\ \/ /\ racer[r] = "connected"
          /\ racer' = [racer EXCEPT ![r] = "returned"]
          /\ result' = r /\ returned' = TRUE
          /\ recent' = (recent \/ (mode = "interface" /\ Role(r) = "fallback"))
          /\ UNCHANGED errors
       \/ /\ racer[r] = "failed"
          /\ racer' = [racer EXCEPT ![r] = "over"]
          /\ errors' = errors + 1 /\ returned' = AllFailed(errors')
          /\ UNCHANGED <<result, recent>>
    /\ UNCHANGED <<mode, left, timer>>

\* Fault: a connection that comes too late is dropped without a close.
DropLate(r) == "connected"

CloseLate(r) == "over"

\* <-returned: too late.  In a fast fallback a primary that answers within the
\* delay ends the fast mode.
TooLate(r) ==
    /\ returned
    /\ \/ racer[r] = "failed" /\ racer' = [racer EXCEPT ![r] = "over"] /\ UNCHANGED recent
       \/ /\ racer[r] = "connected"
          /\ racer' = [racer EXCEPT ![r] = CloseLate(r)]
          /\ recent' \in {recent} \cup (IF mode = "fast" /\ Role(r) = "primary" THEN {FALSE} ELSE {})
    /\ UNCHANGED <<mode, left, timer, errors, result, returned>>

Next ==
    \/ StartFallback
    \/ \E r \in Racers : DialSerialNetwork(r) \/ TakeResult(r) \/ TooLate(r)

Spec == Init /\ [][Next]_vars

-----------------------------------------------------------------------------
\* A dial fails only when every interface and every address of both families
\* was tried and failed, the fallback ones included: no result is counted for
\* a racer that did not run.
FailsOnlyWhenAllFailed ==
    returned /\ result = None => \A r \in Racers : racer[r] = "over" /\ left[r] = 0

\* Given that every dial of a racer ends and the timer fires, every dial
\* returns and leaves one connection, the one it returned: the ones that come
\* later are closed.
OneConnectionLeft ==
    <>[](returned /\ \A r \in Racers : racer[r] \in {"over", "idle"} \/ r = result)
=============================================================================
