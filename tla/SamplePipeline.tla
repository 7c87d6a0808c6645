--------------------------- MODULE SamplePipeline ---------------------------
(***************************************************************************)
(* Pipeline.Collect on real hardware (internal/collect/pipeline): the      *)
(* host, GPU and log collectors of one sample, in goroutines or one after  *)
(* the other, then the health cache, then the hint rules.  Several         *)
(* goroutines may be in Collect on one Pipeline at once: the agent has     *)
(* one, the TUI starts one per tick.                                       *)
(*                                                                         *)
(* Kernel log events are read once (the log collector is a cursor on       *)
(* /dev/kmsg), so an event is in one place at a time: still unread, held   *)
(* by a sample in progress, in a returned snapshot, or gone.  The health   *)
(* cache is module HealthCache.  What a collector measures is left out:    *)
(* only how its call ends matters here.                                    *)
(***************************************************************************)
EXTENDS Naturals

CONSTANTS
    Callers,        \* goroutines calling Collect
    Period,         \* see HealthCache
    MaxRefreshes,   \* see HealthCache
    Events          \* kernel log events that may happen (a bound)

VARIABLES
    started, inFlight, healthCache, healthRunning, healthLastErr, age,
    phase, local, sample, reported,      \* the variables of HealthCache
    parallel,    \* WithParallelCollection, fixed when the pipeline is made
    stage,       \* where each caller stands in Collect
    outcome,     \* how the collectors of the caller's sample ended
    happened,    \* events the kernel has logged
    unread,      \* logged events no sample has read yet
    held,        \* events read by the caller's sample (logMarkers)
    delivered,   \* events in returned snapshots
    shown        \* refresh errors in returned snapshots

healthVars == <<started, inFlight, healthCache, healthRunning, healthLastErr,
                age, phase, local, sample, reported>>
vars == <<healthVars, parallel, stage, outcome, happened, unread, held, delivered, shown>>

Health == INSTANCE HealthCache

NoOutcome == [host |-> "pending", gpu |-> "pending", log |-> "pending"]
Outcomes == [host : {"pending", "ok", "failed"},
             gpu : {"pending", "ok", "noProcs", "notImplemented", "failed"},
             log : {"pending", "ok", "failed"}]

Init ==
    /\ Health!Init
    /\ parallel \in BOOLEAN
    /\ stage = [c \in Callers |-> "idle"]
    /\ outcome = [c \in Callers |-> NoOutcome]
    /\ happened = {} /\ unread = {} /\ delivered = {} /\ shown = {}
    /\ held = [c \in Callers |-> {}]

-----------------------------------------------------------------------------
Kernel(e) ==
    /\ e \notin happened
    /\ happened' = happened \union {e}
    /\ unread' = unread \union {e}
    /\ UNCHANGED <<healthVars, stage, outcome, held, delivered, shown>>

Begin(c) ==
    /\ stage[c] = "idle"
    /\ stage' = [stage EXCEPT ![c] = "collect"]
    /\ UNCHANGED <<healthVars, outcome, happened, unread, held, delivered, shown>>

(* Only these two fail a sample: ErrNotImplemented, a failed process list   *)
(* and a failed log collection become markers of the snapshot.              *)
hostFailed(c) == outcome[c].host = "failed"
gpuFailed(c) == outcome[c].gpu = "failed"

(* faulty: a source that is not implemented fails the sample *)
fatal_NotImplemented(c) ==
    hostFailed(c) \/ gpuFailed(c) \/ outcome[c].gpu = "notImplemented"

fatal(c) == hostFailed(c) \/ gpuFailed(c)

(* faulty: one after the other, but without returning on an error *)
mayRun_NoEarlyReturn(c, fn) ==
    /\ stage[c] = "collect"
    /\ outcome[c][fn] = "pending"
    /\ (~parallel /\ fn # "host") => outcome[c].host # "pending"
    /\ (~parallel /\ fn = "log") => outcome[c].gpu # "pending"

(* The collector function fn of c's sample may run: at once when the three  *)
(* are goroutines, else after its predecessors succeeded.                   *)
mayRun(c, fn) ==
    /\ stage[c] = "collect"
    /\ outcome[c][fn] = "pending"
    /\ (~parallel /\ fn # "host") => outcome[c].host = "ok"
    /\ (~parallel /\ fn = "log") => ~gpuFailed(c) /\ outcome[c].gpu # "pending"

endFn(c, fn, how) == outcome' = [outcome EXCEPT ![c][fn] = how]

hostFn(c, how) ==
    /\ mayRun(c, "host")
    /\ endFn(c, "host", how)
    /\ UNCHANGED <<healthVars, stage, happened, unread, held, delivered, shown>>

gpuFn(c, how) ==
    /\ mayRun(c, "gpu")
    /\ endFn(c, "gpu", how)
    /\ UNCHANGED <<healthVars, stage, happened, unread, held, delivered, shown>>

(* faulty: what was read stays behind for the next reader *)
takeEvents_Copied(c, S) ==
    /\ held' = [held EXCEPT ![c] = S]
    /\ UNCHANGED unread

takeEvents(c, S) ==
    /\ held' = [held EXCEPT ![c] = S]
    /\ unread' = unread \ S

(* Reads S, all there is unless the deadline of the sample cuts it short;   *)
(* a failed log collection delivers nothing and has consumed nothing.       *)
logFn(c, S) ==
    /\ mayRun(c, "log")
    /\ endFn(c, "log", "ok")
    /\ takeEvents(c, S)
    /\ UNCHANGED <<healthVars, stage, happened, delivered, shown>>

logFnFails(c) ==
    /\ mayRun(c, "log")
    /\ endFn(c, "log", "failed")
    /\ UNCHANGED <<healthVars, stage, happened, unread, held, delivered, shown>>

collected(c) ==
    /\ stage[c] = "collect"
    /\ \A fn \in {"host", "gpu", "log"} : outcome[c][fn] # "pending"

leave(c) ==
    /\ stage' = [stage EXCEPT ![c] = "idle"]
    /\ outcome' = [outcome EXCEPT ![c] = NoOutcome]
    /\ held' = [held EXCEPT ![c] = {}]

(* faulty: the refresh error is fetched before the fatal errors are checked *)
noHealth_TakesError(c) ==
    /\ Health!TakeError
    /\ UNCHANGED <<started, inFlight, healthCache, healthRunning, age,
                   phase, local, sample>>

noHealth(c) == UNCHANGED healthVars

(* The sample fails: an error, an empty snapshot, and whatever the log      *)
(* collector had read is dropped with it.                                   *)
Fail(c) ==
    /\ fatal(c)
    /\ IF parallel THEN collected(c) ELSE stage[c] = "collect"
    /\ leave(c)
    /\ noHealth(c)
    /\ UNCHANGED <<happened, unread, delivered, shown>>

(* cachedHealth, its two critical sections. *)
ReadHealth(c) ==
    /\ collected(c) /\ ~fatal(c)
    /\ Health!ReadCache(c)
    /\ stage' = [stage EXCEPT ![c] = "health"]
    /\ UNCHANGED <<outcome, happened, unread, held, delivered, shown>>

SurfaceHealth(c) ==
    /\ stage[c] = "health"
    /\ Health!SurfaceError(c)
    /\ stage' = [stage EXCEPT ![c] = "evaluate"]
    /\ UNCHANGED <<outcome, happened, unread, held, delivered, shown>>

(* The hints are evaluated and the snapshot is returned with its markers.   *)
Return(c) ==
    /\ stage[c] = "evaluate"
    /\ delivered' = delivered \union held[c]
    /\ shown' = shown \union ({sample[c].err} \ {Health!None})
    /\ leave(c)
    /\ UNCHANGED <<healthVars, happened, unread>>

RefreshHealth ==
    /\ \/ \E r \in inFlight : Health!PublishSignals(r) \/ Health!PublishError(r)
       \/ Health!Tick
    /\ UNCHANGED <<stage, outcome, happened, unread, held, delivered, shown>>

Next ==
    /\ UNCHANGED parallel
    /\ \/ \E e \in Events : Kernel(e)
       \/ RefreshHealth
       \/ \E c \in Callers :
         \/ Begin(c)
         \/ \E how \in {"ok", "failed"} : hostFn(c, how)
         \/ \E how \in {"ok", "noProcs", "notImplemented", "failed"} : gpuFn(c, how)
         \/ \E S \in SUBSET unread : logFn(c, S)
         \/ logFnFails(c)
         \/ Fail(c)
         \/ ReadHealth(c)
         \/ SurfaceHealth(c)
         \/ Return(c)

Spec == Init /\ [][Next]_vars

keeping(A) == A /\ UNCHANGED parallel

(* Sampling goes on, every collector call ends, and none fails for ever:    *)
(* the host, the GPU and the whole log are read now and then.               *)
FairSpec ==
    /\ Spec
    /\ \A c \in Callers :
         /\ WF_vars(keeping(Begin(c))) /\ WF_vars(keeping(Fail(c))) /\ WF_vars(keeping(ReadHealth(c)))
         /\ WF_vars(keeping(SurfaceHealth(c))) /\ WF_vars(keeping(Return(c)))
         /\ WF_vars(keeping(\E how \in {"ok", "failed"} : hostFn(c, how)))
         /\ WF_vars(keeping(\E how \in {"ok", "noProcs", "notImplemented", "failed"} : gpuFn(c, how)))
         /\ SF_vars(keeping(hostFn(c, "ok")))
         /\ SF_vars(keeping(gpuFn(c, "ok")))
         /\ SF_vars(keeping(logFn(c, unread)))

-----------------------------------------------------------------------------
lost == happened \ (unread \union delivered \union UNION {held[c] : c \in Callers})

TypeOK ==
    /\ stage \in [Callers -> {"idle", "collect", "health", "evaluate"}]
    /\ outcome \in [Callers -> Outcomes]
    /\ happened \subseteq Events
    /\ unread \subseteq happened
    /\ held \in [Callers -> SUBSET happened]
    /\ delivered \subseteq happened
    /\ shown \subseteq reported

(* No event is in two snapshots, and none that was shown or is being shown  *)
(* can be read again, however many samples overlap (logFn, and the cursor   *)
(* the log collector keeps).                                                *)
EventsInOnePlace ==
    /\ \A c, d \in Callers : c # d => held[c] \cap held[d] = {}
    /\ \A c \in Callers : held[c] \cap (unread \union delivered) = {}
    /\ unread \cap delivered = {}

(* A refresh error that was taken from the cache is shown or about to be:   *)
(* nothing after cachedHealth can fail the sample that took it.             *)
HealthErrorsAreShown ==
    \A r \in reported :
        r \in shown \/ \E c \in Callers : stage[c] = "evaluate" /\ sample[c].err = r

(* "Only host/GPU fatal errors propagate" (pipeline.go:227): an event is    *)
(* lost only in the step in which its sample fails for one of these two.    *)
LostOnlyByFatalErrors ==
    [][\A c \in Callers :
         held[c] \cap lost' # {} => hostFailed(c) \/ gpuFailed(c)]_vars

(* Collect uses the health cache the way HealthCache specifies, so what     *)
(* holds and is proved of HealthCache holds of the pipeline.                *)
HealthSpec == Health!Spec

fate == [e \in Events |->
            CASE e \notin happened -> "future"
              [] e \in delivered -> "delivered"
              [] e \in lost -> "lost"
              [] OTHER -> "pending"]

Stream == INSTANCE LogStream WITH lossy <- parallel

(* Collect implements the log stream: every event ends up in a snapshot,    *)
(* or, when the collectors run in parallel, is lost with a failed sample.   *)
LogStreamSpec == Stream!Spec
=============================================================================
