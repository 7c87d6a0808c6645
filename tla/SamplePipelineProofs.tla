------------------------- MODULE SamplePipelineProofs -------------------------
(***************************************************************************)
(* Proofs about Collect for any number of overlapping samples, any events  *)
(* and both modes: that it uses the health cache as HealthCache specifies, *)
(* that no event is in two places and no refresh error is dropped, and     *)
(* that it implements the safety part of LogStream.  The invariant says    *)
(* how far a sample has come from what it holds.                           *)
(***************************************************************************)
EXTENDS SamplePipeline, TLAPS

(* The steps of one sample. *)
SampleNext(c) ==
    \/ Begin(c)
    \/ \E how \in {"ok", "failed"} : hostFn(c, how)
    \/ \E how \in {"ok", "noProcs", "notImplemented", "failed"} : gpuFn(c, how)
    \/ \E S \in SUBSET unread : logFn(c, S)
    \/ logFnFails(c)
    \/ Fail(c)
    \/ ReadHealth(c)
    \/ SurfaceHealth(c)
    \/ Return(c)

(* Of the steps of one sample, only the two sections of cachedHealth touch  *)
(* the health cache (realSnapshot).                                         *)
LEMMA SampleStep ==
    ASSUME NEW c \in Callers, SampleNext(c)
    PROVE  [Health!Next]_Health!vars
<1>1. CASE ReadHealth(c)
    BY <1>1 DEF ReadHealth, Health!Next
<1>2. CASE SurfaceHealth(c)
    BY <1>2 DEF SurfaceHealth, Health!Next
<1>3. CASE Begin(c) \/ Fail(c) \/ Return(c)
    BY <1>3 DEF Begin, Fail, Return, noHealth, healthVars, Health!vars
<1>4. CASE \/ \E how \in {"ok", "failed"} : hostFn(c, how)
           \/ \E how \in {"ok", "noProcs", "notImplemented", "failed"} : gpuFn(c, how)
    BY <1>4 DEF hostFn, gpuFn, healthVars, Health!vars
<1>5. CASE (\E S \in SUBSET unread : logFn(c, S)) \/ logFnFails(c)
    BY <1>5 DEF logFn, logFnFails, healthVars, Health!vars
<1> QED
    BY <1>1, <1>2, <1>3, <1>4, <1>5 DEF SampleNext

LEMMA PipelineStep ==
    ASSUME [Next]_vars
    PROVE  [Health!Next]_Health!vars
<1>1. CASE \E e \in Events : Kernel(e)
    BY <1>1 DEF Kernel, healthVars, Health!vars
<1>2. CASE RefreshHealth
    BY <1>2 DEF RefreshHealth, Health!Next
<1>3. ASSUME NEW c \in Callers, SampleNext(c)
      PROVE  [Health!Next]_Health!vars
    BY <1>3, SampleStep
<1>4. CASE UNCHANGED vars
    BY <1>4 DEF vars, healthVars, Health!vars
<1> QED
    BY <1>1, <1>2, <1>3, <1>4 DEF Next, SampleNext

(* The pipeline, parallel or sequential and with any number of overlapping  *)
(* samples, implements the health cache (pipeline.go, Collect calls         *)
(* cachedHealth and nothing else touches its fields).                       *)
THEOREM ImplementsHealthCache == Spec => HealthSpec
<1>1. Init => Health!Init
    BY DEF Init
<1>2. [Next]_vars => [Health!Next]_Health!vars
    BY PipelineStep
<1> QED
    BY <1>1, <1>2, PTL DEF Spec, HealthSpec, Health!Spec

-----------------------------------------------------------------------------
(* The types the proofs need, without those of the health cache.            *)
Types ==
    /\ parallel \in BOOLEAN
    /\ stage \in [Callers -> {"idle", "collect", "health", "evaluate"}]
    /\ outcome \in [Callers -> Outcomes]
    /\ happened \subseteq Events
    /\ unread \subseteq happened
    /\ held \in [Callers -> SUBSET happened]
    /\ delivered \subseteq happened

(* What has been read is held by nobody else and not yet delivered; a       *)
(* sample holds nothing before its log function has ended, and that comes   *)
(* last in a sequential sample.                                             *)
HeldIsRead ==
    \A c \in Callers :
        /\ outcome[c].log = "pending" => held[c] = {}
        /\ ~parallel /\ outcome[c].log # "pending" =>
             outcome[c].host = "ok" /\ outcome[c].gpu # "pending" /\ ~gpuFailed(c)

Inv == Types /\ EventsInOnePlace /\ HeldIsRead

(* What a step of one sample does to what it holds.                         *)
LEMMA HostOrGpuInv ==
    ASSUME Inv, UNCHANGED parallel, NEW c \in Callers, NEW how,
           \/ how \in {"ok", "failed"} /\ hostFn(c, how)
           \/ how \in {"ok", "noProcs", "notImplemented", "failed"} /\ gpuFn(c, how)
    PROVE  Inv'
<1> USE DEF Inv, Types
<1>1. /\ UNCHANGED <<parallel, stage, happened, unread, held, delivered>>
      /\ mayRun(c, "host") \/ mayRun(c, "gpu")
  BY DEF hostFn, gpuFn
<1>2. outcome' \in [Callers -> Outcomes]
  BY DEF hostFn, gpuFn, endFn, Outcomes
<1>3. EventsInOnePlace'
  BY <1>1 DEF EventsInOnePlace
<1>4. /\ \A d \in Callers : outcome'[d].log = outcome[d].log
      /\ \A d \in Callers \ {c} : outcome'[d] = outcome[d]
  BY DEF hostFn, gpuFn, endFn, Outcomes
<1>5. ~parallel => outcome[c].log = "pending"
  BY <1>1 DEF HeldIsRead, mayRun
<1>6. HeldIsRead'
  BY <1>1, <1>4, <1>5 DEF HeldIsRead, gpuFailed
<1> QED
  BY <1>1, <1>2, <1>3, <1>6

LEMMA LogInv ==
    ASSUME Inv, UNCHANGED parallel, NEW c \in Callers, NEW S \in SUBSET unread,
           logFn(c, S) \/ logFnFails(c)
    PROVE  Inv'
<1> USE DEF Inv, Types
<1>1. /\ UNCHANGED <<parallel, stage, happened, delivered>>
      /\ mayRun(c, "log")
  BY DEF logFn, logFnFails
<1>2. /\ outcome' \in [Callers -> Outcomes]
      /\ \A d \in Callers \ {c} : outcome'[d] = outcome[d]
      /\ outcome'[c].log # "pending"
      /\ outcome'[c].host = outcome[c].host /\ outcome'[c].gpu = outcome[c].gpu
  BY DEF logFn, logFnFails, endFn, Outcomes
<1>3. PICK T \in SUBSET unread :
        held' = [held EXCEPT ![c] = T] /\ unread' = unread \ T
  <2>1. CASE logFn(c, S)
    BY <2>1 DEF logFn, takeEvents
  <2>2. CASE logFnFails(c)
    <3>1. held[c] = {}
      BY <1>1 DEF HeldIsRead, mayRun
    <3>2. held' = [held EXCEPT ![c] = {}] /\ unread' = unread \ {}
      BY <2>2, <3>1 DEF logFnFails
    <3> QED
      BY <3>2
  <2> QED
    BY <2>1, <2>2
<1>4. Types'
  BY <1>1, <1>2, <1>3
<1>5. EventsInOnePlace'
  BY <1>1, <1>3 DEF EventsInOnePlace
<1>6. HeldIsRead'
  BY <1>1, <1>2, <1>3 DEF HeldIsRead, mayRun, gpuFailed
<1> QED
  BY <1>4, <1>5, <1>6

(* A sample that leaves Collect leaves nothing behind, and its events go to *)
(* the snapshot or to nobody.                                               *)
LEMMA LeaveInv ==
    ASSUME Inv, UNCHANGED parallel, NEW c \in Callers, Fail(c) \/ Return(c)
    PROVE  Inv'
<1> USE DEF Inv, Types
<1>1. /\ UNCHANGED <<parallel, happened, unread>>
      /\ leave(c)
      /\ delivered' = delivered \/ delivered' = delivered \union held[c]
  BY DEF Fail, Return
<1>2. Types'
  BY <1>1 DEF leave, Outcomes, NoOutcome
<1>3. EventsInOnePlace'
  BY <1>1 DEF leave, EventsInOnePlace
<1>4. HeldIsRead'
  BY <1>1 DEF leave, HeldIsRead, NoOutcome, gpuFailed
<1> QED
  BY <1>2, <1>3, <1>4

LEMMA StageInv ==
    ASSUME Inv, UNCHANGED parallel, NEW c \in Callers,
           Begin(c) \/ ReadHealth(c) \/ SurfaceHealth(c)
    PROVE  Inv'
<1>1. /\ UNCHANGED <<parallel, outcome, happened, unread, held, delivered>>
      /\ stage' \in [Callers -> {"idle", "collect", "health", "evaluate"}]
  BY DEF Begin, ReadHealth, SurfaceHealth, Inv, Types
<1> QED
  BY <1>1 DEF Inv, Types, EventsInOnePlace, HeldIsRead, gpuFailed

LEMMA KernelInv ==
    ASSUME Inv, UNCHANGED parallel, NEW e \in Events, Kernel(e)
    PROVE  Inv'
<1> USE DEF Inv, Types, Kernel
<1>1. Types'
  OBVIOUS
<1>2. EventsInOnePlace'
  BY DEF EventsInOnePlace
<1>3. HeldIsRead'
  BY DEF HeldIsRead, gpuFailed
<1> QED
  BY <1>1, <1>2, <1>3

LEMMA NextInv == Inv /\ [Next]_vars => Inv'
<1> SUFFICES ASSUME Inv, [Next]_vars PROVE Inv'
  OBVIOUS
<1>1. ASSUME UNCHANGED parallel, NEW e \in Events, Kernel(e) PROVE Inv'
  BY <1>1, KernelInv
<1>2. ASSUME UNCHANGED parallel, NEW c \in Callers, SampleNext(c) PROVE Inv'
  <2>1. ASSUME NEW how, how \in {"ok", "failed"}, hostFn(c, how) PROVE Inv'
    BY <1>2, <2>1, HostOrGpuInv
  <2>2. ASSUME NEW how, how \in {"ok", "noProcs", "notImplemented", "failed"}, gpuFn(c, how)
        PROVE  Inv'
    BY <1>2, <2>2, HostOrGpuInv
  <2>3. ASSUME NEW S \in SUBSET unread, logFn(c, S) PROVE Inv'
    BY <1>2, <2>3, LogInv
  <2>4. CASE logFnFails(c)
    BY <1>2, <2>4, LogInv, {} \in SUBSET unread
  <2>5. CASE Fail(c) \/ Return(c)
    BY <1>2, <2>5, LeaveInv
  <2>6. CASE Begin(c) \/ ReadHealth(c) \/ SurfaceHealth(c)
    BY <1>2, <2>6, StageInv
  <2> QED
    BY <1>2, <2>1, <2>2, <2>3, <2>4, <2>5, <2>6 DEF SampleNext
<1>3. CASE UNCHANGED parallel /\ RefreshHealth
  BY <1>3 DEF RefreshHealth, Inv, Types, EventsInOnePlace, HeldIsRead, gpuFailed
<1>4. CASE UNCHANGED vars
  BY <1>4 DEF vars, Inv, Types, EventsInOnePlace, HeldIsRead, gpuFailed
<1> QED
  BY <1>1, <1>2, <1>3, <1>4 DEF Next, SampleNext

LEMMA InitInv == Init => Inv
BY DEF Init, Inv, Types, EventsInOnePlace, HeldIsRead, NoOutcome, Outcomes, gpuFailed

LEMMA Invariance == Spec => []Inv
BY InitInv, NextInv, PTL DEF Spec

(* A step of one sample leaves alone what the others hold.                  *)
LEMMA HeldBy ==
    ASSUME Types, NEW d \in Callers, SampleNext(d), NEW c \in Callers \ {d}
    PROVE  held'[c] = held[c] /\ stage'[c] = stage[c]
BY DEF Types, SampleNext, Begin, hostFn, gpuFn, logFn, takeEvents, logFnFails, Fail, Return,
       leave, ReadHealth, SurfaceHealth

(* No kernel event is in two snapshots, whatever samples overlap (logFn).   *)
THEOREM EventsStayInOnePlace == Spec => []EventsInOnePlace
<1>1. Inv => EventsInOnePlace
  BY DEF Inv
<1> QED
  BY <1>1, Invariance, PTL

(* An event that was held is lost in no step but that of a sample with a    *)
(* fatal error: what other samples do leaves it where it is.                *)
THEOREM OnlyFatalErrorsLose == Spec => LostOnlyByFatalErrors
<1> DEFINE Fatal == \A c \in Callers : held[c] \cap lost' # {} => hostFailed(c) \/ gpuFailed(c)
<1>1. Inv /\ [Next]_vars => [Fatal]_vars
  <2> SUFFICES ASSUME Inv, Next, NEW c \in Callers, NEW e \in held[c], e \in lost'
               PROVE  fatal(c)
    BY DEF fatal
  <2> USE DEF lost
  <2>1. ASSUME NEW f \in Events, Kernel(f) PROVE FALSE
    BY <2>1 DEF Kernel
  <2>2. ASSUME RefreshHealth PROVE FALSE
    BY <2>2 DEF RefreshHealth
  <2>3. ASSUME NEW d \in Callers, SampleNext(d) PROVE fatal(c)
    <3>1. CASE d # c /\ d \in Callers
      <4>1. held'[c] = held[c]
        BY <2>3, <3>1, HeldBy DEF Inv, Types
      <4> QED
        BY <4>1
    <3>2. CASE d = c
      <4>1. outcome[c].log # "pending"
        BY DEF Inv, HeldIsRead
      <4>2. CASE Fail(c)
        BY <4>2 DEF Fail
      <4>3. CASE Return(c)
        BY <4>3 DEF Return
      <4>4. CASE (\E S \in SUBSET unread : logFn(c, S)) \/ logFnFails(c)
        BY <4>1, <4>4 DEF logFn, logFnFails, mayRun
      <4> QED
        BY <2>3, <3>2, <4>2, <4>3, <4>4
           DEF SampleNext, Begin, hostFn, gpuFn, ReadHealth, SurfaceHealth
    <3> QED
      BY <3>1, <3>2
  <2> QED
    BY <2>1, <2>2, <2>3 DEF Next, SampleNext
<1> QED
  BY <1>1, Invariance, PTL DEF Spec, LostOnlyByFatalErrors

-----------------------------------------------------------------------------
(* What the cache hands out: errors are numbered from 1.                    *)
ErrorsAreTaken ==
    /\ Inv
    /\ Health!None \notin reported
    /\ sample = [c \in Callers |-> sample[c]]
    /\ HealthErrorsAreShown

LEMMA ErrorsNext ==
    ASSUME ErrorsAreTaken, [Next]_vars
    PROVE  ErrorsAreTaken'
<1> USE DEF ErrorsAreTaken, HealthErrorsAreShown
<1>1. Inv'
  BY NextInv
<1>2. ASSUME NEW c \in Callers, SurfaceHealth(c) PROVE ErrorsAreTaken'
  <2>1. /\ reported' = reported \union ({healthLastErr} \ {Health!None})
        /\ sample' = [sample EXCEPT ![c] = [cache |-> local[c], err |-> healthLastErr]]
        /\ stage[c] = "health" /\ stage' = [stage EXCEPT ![c] = "evaluate"]
        /\ UNCHANGED shown
    BY <1>2 DEF SurfaceHealth, Health!SurfaceError, Health!TakeError, Health!carried
  <2>2. sample'[c].err = healthLastErr /\ stage'[c] = "evaluate"
    BY <2>1 DEF Inv, Types
  <2>3. \A d \in Callers : stage[d] = "evaluate" => stage'[d] = "evaluate" /\ sample'[d] = sample[d]
    BY <2>1 DEF Inv, Types
  <2> QED
    BY <1>1, <2>1, <2>2, <2>3
<1>3. ASSUME NEW c \in Callers, Return(c) PROVE ErrorsAreTaken'
  <2>1. /\ UNCHANGED <<reported, sample>>
        /\ shown' = shown \union ({sample[c].err} \ {Health!None})
        /\ \A d \in Callers \ {c} : stage'[d] = stage[d]
    BY <1>3 DEF Return, leave, healthVars, Inv, Types
  <2> QED
    BY <1>1, <2>1
<1>4. ASSUME NEW c \in Callers, SampleNext(c), ~SurfaceHealth(c), ~Return(c) PROVE ErrorsAreTaken'
  <2>1. /\ UNCHANGED <<reported, sample, shown>>
        /\ stage[c] # "evaluate"
    BY <1>4 DEF SampleNext, Begin, hostFn, gpuFn, logFn, logFnFails, Fail, noHealth, mayRun, collected,
                ReadHealth, Health!ReadCache, healthVars
  <2>2. \A d \in Callers \ {c} : stage'[d] = stage[d]
    BY <1>4, HeldBy DEF Inv
  <2> QED
    BY <1>1, <2>1, <2>2
<1>5. CASE RefreshHealth \/ (\E e \in Events : Kernel(e)) \/ UNCHANGED vars
  <2>1. UNCHANGED <<reported, sample, shown, stage>>
    BY <1>5 DEF RefreshHealth, Health!PublishSignals, Health!PublishError, Health!FinishRefresh,
                Health!Tick, Kernel, vars, healthVars
  <2> QED
    BY <1>1, <2>1
<1> QED
  BY <1>2, <1>3, <1>4, <1>5 DEF Next, SampleNext

(* A refresh error taken from the cache is in a snapshot or about to be:    *)
(* nothing after cachedHealth can fail a sample (realSnapshot).             *)
THEOREM HealthErrorsReachSnapshots == Spec => []HealthErrorsAreShown
<1>1. Init => ErrorsAreTaken
  BY InitInv DEF Init, Health!Init, ErrorsAreTaken, HealthErrorsAreShown
<1>2. ErrorsAreTaken => HealthErrorsAreShown
  BY DEF ErrorsAreTaken
<1> QED
  BY <1>1, <1>2, ErrorsNext, PTL DEF Spec

-----------------------------------------------------------------------------
(* The refinement of LogStream, without its liveness.                       *)
LogStreamSafety == Stream!Init /\ [][Stream!Next]_(Stream!vars)

inHand == unread \union UNION {held[c] : c \in Callers}

(* The four fates exclude each other. *)
FatesAre ==
    /\ fate = [e \in Events |-> fate[e]]
    /\ \A e \in Events :
         /\ e \notin happened => fate[e] = "future"
         /\ e \in delivered => fate[e] = "delivered"
         /\ e \in inHand => fate[e] = "pending"
         /\ e \in happened /\ e \notin delivered /\ e \notin inHand => fate[e] = "lost"

LEMMA Fates == Inv => FatesAre
<1> SUFFICES ASSUME Inv PROVE FatesAre
  OBVIOUS
<1>1. fate = [e \in Events |-> fate[e]]
  BY DEF fate
<1>2. ASSUME NEW e \in Events
      PROVE  /\ e \notin happened => fate[e] = "future"
             /\ e \in delivered => fate[e] = "delivered"
             /\ e \in inHand => fate[e] = "pending"
             /\ e \in happened /\ e \notin delivered /\ e \notin inHand => fate[e] = "lost"
  <2>1. fate[e] = CASE e \notin happened -> "future"
                    [] e \in delivered -> "delivered"
                    [] e \in lost -> "lost"
                    [] OTHER -> "pending"
    BY DEF fate
  <2> QED
    BY <2>1 DEF Inv, Types, EventsInOnePlace, inHand, lost
<1> QED
  BY <1>1, <1>2 DEF FatesAre

(* Where no event moves between the places a fate tells apart, none changes *)
(* its fate.                                                                *)
LEMMA SameFates ==
    ASSUME FatesAre, FatesAre', UNCHANGED <<happened, delivered>>, inHand' = inHand
    PROVE  fate' = fate
<1>1. \A e \in Events : fate'[e] = fate[e]
  BY DEF FatesAre
<1> QED
  BY <1>1 DEF FatesAre

LEMMA StreamStep ==
    ASSUME Inv, Inv', FatesAre, FatesAre', [Next]_vars
    PROVE  [Stream!Next]_(Stream!vars)
<1> USE DEF Stream!vars, Stream!Next
<1>1. ASSUME NEW e \in Events, Kernel(e), UNCHANGED parallel PROVE Stream!Next
  <2>1. \A f \in Events : fate'[f] = IF f = e THEN "pending" ELSE fate[f]
    BY <1>1 DEF Kernel, FatesAre, inHand, Inv, Types
  <2>2. Stream!Happen(e)
    BY <1>1, <2>1 DEF Stream!Happen, FatesAre, Kernel
  <2> QED
    BY <1>1, <2>2
<1>2. ASSUME NEW c \in Callers, Return(c), UNCHANGED parallel PROVE Stream!Next
  <2>1. /\ delivered' = delivered \union held[c]
        /\ inHand' = inHand \ held[c]
        /\ UNCHANGED happened
    BY <1>2 DEF Return, leave, inHand, Inv, Types, EventsInOnePlace
  <2>2. \A f \in Events : fate'[f] = IF f \in held[c] THEN "delivered" ELSE fate[f]
    BY <2>1 DEF FatesAre, inHand
  <2>3. Stream!Deliver(held[c])
    BY <2>2 DEF Stream!Deliver, Stream!Settle, FatesAre, inHand, Inv, Types
  <2> QED
    BY <1>2, <2>3 DEF Inv, Types
<1>3. ASSUME NEW c \in Callers, Fail(c), UNCHANGED parallel PROVE [Stream!Next]_(Stream!vars)
  <2>1. /\ UNCHANGED <<happened, delivered>>
        /\ inHand' = inHand \ held[c]
    BY <1>3 DEF Fail, leave, inHand, Inv, Types, EventsInOnePlace
  <2>2. CASE parallel
    <3>1. \A f \in Events : fate'[f] = IF f \in held[c] THEN "lost" ELSE fate[f]
      BY <2>1 DEF FatesAre, inHand, Inv, Types, EventsInOnePlace
    <3>2. Stream!Drop(held[c])
      BY <2>2, <3>1 DEF Stream!Drop, Stream!Settle, FatesAre, inHand, Inv, Types
    <3> QED
      BY <1>3, <3>2 DEF Inv, Types
  <2>3. CASE ~parallel
    <3>1. held[c] = {}
      BY <1>3, <2>3 DEF Fail, fatal, hostFailed, Inv, HeldIsRead
    <3> QED
      BY <1>3, <2>1, <3>1, SameFates
  <2> QED
    BY <2>2, <2>3
<1>4. ASSUME NEW c \in Callers, UNCHANGED parallel,
             \/ Begin(c)
             \/ \E how \in {"ok", "failed"} : hostFn(c, how)
             \/ \E how \in {"ok", "noProcs", "notImplemented", "failed"} : gpuFn(c, how)
             \/ logFnFails(c) \/ ReadHealth(c) \/ SurfaceHealth(c)
      PROVE  UNCHANGED Stream!vars
  <2>1. UNCHANGED <<happened, unread, held, delivered>>
    BY <1>4 DEF Begin, hostFn, gpuFn, logFnFails, ReadHealth, SurfaceHealth
  <2> QED
    BY <1>4, <2>1, SameFates DEF inHand
<1>5. ASSUME NEW c \in Callers, UNCHANGED parallel, NEW S \in SUBSET unread, logFn(c, S)
      PROVE  UNCHANGED Stream!vars
  <2>1. /\ UNCHANGED <<happened, delivered>>
        /\ held[c] = {}
        /\ held' = [held EXCEPT ![c] = S] /\ unread' = unread \ S
    BY <1>5 DEF logFn, takeEvents, mayRun, Inv, HeldIsRead
  <2>2. inHand' = inHand
    BY <2>1 DEF inHand, Inv, Types
  <2> QED
    BY <1>5, <2>1, <2>2, SameFates
<1>6. CASE UNCHANGED parallel /\ RefreshHealth
  BY <1>6, SameFates DEF RefreshHealth, inHand
<1>7. CASE UNCHANGED vars
  BY <1>7, SameFates DEF vars, inHand
<1> QED
  BY <1>1, <1>2, <1>3, <1>4, <1>5, <1>6, <1>7 DEF Next

(* Sampling implements the stream of kernel events: each is delivered at    *)
(* most once and never forgotten, or, only if samples are parallel, dropped *)
(* (realSnapshot).  That each is settled some time is checked by TLC.       *)
THEOREM ImplementsLogStream == Spec => LogStreamSafety
<1>1. Init => Stream!Init
  <2> SUFFICES ASSUME Init PROVE Stream!Init
    OBVIOUS
  <2>1. FatesAre
    BY InitInv, Fates
  <2> QED
    BY <2>1 DEF Init, Stream!Init, FatesAre
<1>2. FatesAre' \/ ~Inv'
  BY Fates, PTL
<1>3. Inv /\ [Next]_vars => [Stream!Next]_(Stream!vars)
  BY <1>2, Fates, NextInv, StreamStep
<1> QED
  BY <1>1, <1>3, Invariance, PTL DEF Spec, LogStreamSafety
=============================================================================
