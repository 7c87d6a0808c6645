----------------------------- MODULE HealthCache -----------------------------
(***************************************************************************)
(* The background health refresh of the sampling pipeline                  *)
(* (internal/collect/pipeline/pipeline.go, cachedHealth and refreshHealth). *)
(* Every sample calls cachedHealth, which takes healthMu twice: once to    *)
(* read the cache and decide whether to start a refresh, once to take the  *)
(* last refresh error.  A refresh runs in a goroutine of its own and       *)
(* publishes under the same mutex.  A critical section is one action; what *)
(* interleaves is what happens between them.                               *)
(*                                                                         *)
(* Refreshes are numbered in the order they start.  A number stands for    *)
(* the signals or for the error that refresh delivered; 0 is "none".  The  *)
(* time since the last refresh ended is an age that saturates at Period:   *)
(* the code asks only whether it has reached healthCollectPeriod, and a    *)
(* pipeline that never refreshed counts as stale.                          *)
(***************************************************************************)
EXTENDS Naturals

CONSTANTS
    Callers,       \* goroutines that call Collect on one Pipeline
    Period,        \* healthCollectPeriod, in clock ticks
    MaxRefreshes   \* bound: after this many the cache is never stale again

ASSUME PeriodAssumption == Period \in Nat \ {0}
ASSUME MaxRefreshesAssumption == MaxRefreshes \in Nat \ {0}

VARIABLES
    started,         \* the number of refreshes started so far
    inFlight,        \* refreshes whose goroutine has not published yet
    healthCache,     \* the refresh whose signals are cached, 0 for nil
    healthRunning,   \* Pipeline.healthRunning
    healthLastErr,   \* the refresh whose error waits to be surfaced, 0 for nil
    age,             \* ticks since healthLastRun, Period when stale
    phase,           \* where each caller stands in cachedHealth
    local,           \* the caller's local variable cache
    sample,          \* what the caller's last completed sample carried
    reported         \* refreshes whose error some sample has carried

vars == <<started, inFlight, healthCache, healthRunning, healthLastErr, age,
          phase, local, sample, reported>>

None == 0
RefreshId == 1 .. MaxRefreshes

Init ==
    /\ started = 0
    /\ inFlight = {}
    /\ healthCache = None
    /\ healthRunning = FALSE
    /\ healthLastErr = None
    /\ age = Period
    /\ phase = [c \in Callers |-> "idle"]
    /\ local = [c \in Callers |-> None]
    /\ sample = [c \in Callers |-> [cache |-> None, err |-> None]]
    /\ reported = {}

-----------------------------------------------------------------------------
stale == age >= Period

(* faulty: a refresh starts although one is running *)
shouldStart_IgnoresRunning == stale

shouldStart == stale /\ ~healthRunning

StartRefresh ==
    /\ healthRunning' = TRUE
    /\ started' = started + 1
    /\ inFlight' = inFlight \union {started + 1}

(* The first critical section, and the go statement behind it. *)
ReadCache(c) ==
    /\ phase[c] = "idle"
    /\ local' = [local EXCEPT ![c] = healthCache]
    /\ \/ shouldStart /\ StartRefresh
       \/ ~shouldStart /\ UNCHANGED <<healthRunning, started, inFlight>>
    /\ phase' = [phase EXCEPT ![c] = "surface"]
    /\ UNCHANGED <<healthCache, healthLastErr, age, sample, reported>>

(* faulty: the error is reported but left in place *)
TakeError_KeepsError ==
    /\ reported' = reported \union ({healthLastErr} \ {None})
    /\ UNCHANGED healthLastErr

TakeError ==
    /\ reported' = reported \union ({healthLastErr} \ {None})
    /\ healthLastErr' = None

(* faulty: the cache is read again in the second critical section *)
carried_ReadsCacheLate(c) == [cache |-> healthCache, err |-> healthLastErr]

carried(c) == [cache |-> local[c], err |-> healthLastErr]

(* The second critical section: take the error, return the cache read before. *)
SurfaceError(c) ==
    /\ phase[c] = "surface"
    /\ sample' = [sample EXCEPT ![c] = carried(c)]
    /\ TakeError
    /\ phase' = [phase EXCEPT ![c] = "idle"]
    /\ UNCHANGED <<started, inFlight, healthCache, healthRunning, age, local>>

(* faulty: the refresh ends without releasing the flag *)
StampAndRelease_KeepsRunning == age' = 0 /\ UNCHANGED healthRunning

StampAndRelease == age' = 0 /\ healthRunning' = FALSE

(* CollectHealth of refresh r returned; both outcomes stamp and release. *)
FinishRefresh(r) ==
    /\ r \in inFlight
    /\ StampAndRelease
    /\ inFlight' = inFlight \ {r}
    /\ UNCHANGED <<started, phase, local, sample, reported>>

PublishSignals(r) ==
    /\ FinishRefresh(r)
    /\ healthCache' = r
    /\ UNCHANGED healthLastErr

PublishError(r) ==
    /\ FinishRefresh(r)
    /\ healthLastErr' = r
    /\ UNCHANGED healthCache

(* Time passes.  MaxRefreshes bounds the model: the clock stops short of     *)
(* staleness when that many refreshes have started.                         *)
Tick ==
    /\ age < Period
    /\ started = MaxRefreshes => age + 1 < Period
    /\ age' = age + 1
    /\ UNCHANGED <<started, inFlight, healthCache, healthRunning, healthLastErr,
                   phase, local, sample, reported>>

Next ==
    \/ \E c \in Callers : ReadCache(c) \/ SurfaceError(c)
    \/ \E r \in inFlight : PublishSignals(r) \/ PublishError(r)
    \/ Tick

Spec == Init /\ [][Next]_vars

(* Sampling goes on, the clock runs, and the driver answers every refresh. *)
SamplingGoesOn ==
    /\ \A c \in Callers : WF_vars(ReadCache(c))
    /\ WF_vars(Tick)
    /\ \A r \in RefreshId : WF_vars(PublishSignals(r) \/ PublishError(r))

-----------------------------------------------------------------------------
TypeOK ==
    /\ started \in Nat
    /\ inFlight \subseteq 1 .. started
    /\ healthCache \in 0 .. started
    /\ healthRunning \in BOOLEAN
    /\ healthLastErr \in 0 .. started
    /\ age \in 0 .. Period
    /\ phase \in [Callers -> {"idle", "surface"}]
    /\ local \in [Callers -> 0 .. started]
    /\ sample \in [Callers -> [cache : 0 .. started, err : 0 .. started]]
    /\ reported \subseteq 1 .. started

(* "cachedHealth guarantees at most one refresh is in flight"               *)
(* (pipeline.go:332), whatever the number of overlapping samples, and the   *)
(* flag says exactly whether there is one.                                  *)
AtMostOneRefresh ==
    /\ \A r, s \in inFlight : r = s
    /\ healthRunning <=> inFlight # {}

(* Every failed refresh is carried by at most one sample: an error waiting  *)
(* to be surfaced has never been surfaced, and no error is both waiting and *)
(* still to come.                                                           *)
ErrorReportedOnce ==
    /\ healthLastErr \notin reported
    /\ inFlight \cap (reported \union {healthLastErr}) = {}

(* The cached signals, and the error that waits, only move forward: a       *)
(* refresh that started earlier never overwrites the result of a later one. *)
ResultsMoveForward ==
    [][/\ healthCache' >= healthCache
       /\ healthLastErr' # None => healthLastErr' >= healthLastErr]_vars

(* With one caller, a sample never pairs signals with the error of an older *)
(* refresh: what it reports as failed is newer than what it shows.          *)
ErrorNewerThanSignals ==
    \A c \in Callers :
        sample[c].err # None => sample[c].err > sample[c].cache

(* A failed refresh never wedges the cache: while sampling goes on another  *)
(* refresh is always started, and an error is surfaced or replaced by a     *)
(* newer one.                                                               *)
FailuresNeverWedge ==
    SamplingGoesOn =>
        /\ \A n \in 0 .. MaxRefreshes - 1 : started = n ~> started > n
        /\ \A n \in RefreshId : healthLastErr = n ~> healthLastErr # n
=============================================================================
