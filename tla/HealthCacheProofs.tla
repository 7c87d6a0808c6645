-------------------------- MODULE HealthCacheProofs --------------------------
(***************************************************************************)
(* Proofs about HealthCache for every set of callers and every bound.      *)
(* The invariant behind all of them is that a refresh in flight is newer   *)
(* than everything already published: it makes "publish" a step forward    *)
(* and its error one nobody has reported.                                  *)
(***************************************************************************)
EXTENDS MC_HealthCache, TLAPS

(* A refresh still in flight is newer than any result already out.         *)
FlightIsNewest ==
    \A r \in inFlight :
        /\ r > healthCache
        /\ r > healthLastErr
        /\ \A e \in reported : r > e

Inv ==
    /\ TypeOK
    /\ AtMostOneRefresh
    /\ FlightIsNewest
    /\ healthLastErr \notin reported

LEMMA InitInv == Init => Inv
<1> SUFFICES ASSUME Init PROVE Inv
  OBVIOUS
<1> USE DEF Init, None
<1>1. /\ local \in [Callers -> 0 .. started]
      /\ phase \in [Callers -> {"idle", "surface"}]
      /\ sample \in [Callers -> [cache : 0 .. started, err : 0 .. started]]
  OBVIOUS
<1>2. age \in 0 .. Period
  BY PeriodAssumption
<1>3. TypeOK
  <2>1. started \in Nat /\ healthCache \in 0 .. started /\ healthLastErr \in 0 .. started
    OBVIOUS
  <2>2. healthRunning \in BOOLEAN
    OBVIOUS
  <2>3. inFlight \subseteq 1 .. started /\ reported \subseteq 1 .. started
    OBVIOUS
  <2> QED BY <1>1, <1>2, <2>1, <2>2, <2>3 DEF TypeOK
<1>4. AtMostOneRefresh /\ FlightIsNewest
  BY DEF AtMostOneRefresh, FlightIsNewest
<1> QED BY <1>3, <1>4 DEF Inv

LEMMA ReadCacheInv ==
  ASSUME Inv, NEW c \in Callers, ReadCache(c)
  PROVE  Inv'
<1> USE DEF Inv
<1>1. CASE shouldStart
  <2>1. /\ started \in Nat
        /\ started' = started + 1
        /\ inFlight = {}
        /\ inFlight' = {started + 1}
        /\ healthRunning' = TRUE
        /\ UNCHANGED <<healthCache, healthLastErr, age, sample, reported>>
    BY <1>1 DEF ReadCache, StartRefresh, AtMostOneRefresh, shouldStart, TypeOK
  <2>2. TypeOK'
    <3>1. local' \in [Callers -> 0 .. started + 1]
      BY <2>1 DEF ReadCache, TypeOK
    <3>2. phase' \in [Callers -> {"idle", "surface"}]
      BY DEF ReadCache, TypeOK
    <3>3. sample \in [Callers -> [cache : 0 .. started + 1, err : 0 .. started + 1]]
      <4>1. 0 .. started \subseteq 0 .. started + 1
        BY <2>1
      <4>2. [cache : 0 .. started, err : 0 .. started]
              \subseteq [cache : 0 .. started + 1, err : 0 .. started + 1]
        BY <4>1
      <4> QED BY <4>2 DEF TypeOK
    <3> QED BY <2>1, <3>1, <3>2, <3>3 DEF TypeOK
  <2>3. AtMostOneRefresh'
    BY <2>1 DEF AtMostOneRefresh
  <2>4. FlightIsNewest'
    BY <2>1 DEF FlightIsNewest, TypeOK
  <2> QED BY <2>1, <2>2, <2>3, <2>4
<1>2. CASE ~shouldStart
  <2>1. UNCHANGED <<started, inFlight, healthCache, healthRunning,
                    healthLastErr, age, sample, reported>>
    BY <1>2 DEF ReadCache
  <2>2. TypeOK'
    BY <2>1 DEF ReadCache, TypeOK
  <2> QED BY <2>1, <2>2 DEF AtMostOneRefresh, FlightIsNewest
<1> QED BY <1>1, <1>2

LEMMA SurfaceErrorInv ==
  ASSUME Inv, NEW c \in Callers, SurfaceError(c)
  PROVE  Inv'
<1> USE DEF Inv
<1>1. /\ reported' = reported \union ({healthLastErr} \ {None})
      /\ healthLastErr' = None
      /\ UNCHANGED <<started, inFlight, healthCache, healthRunning, age, local>>
  BY DEF SurfaceError, TakeError
<1>2. TypeOK'
  BY <1>1 DEF SurfaceError, carried, TypeOK, None
<1>3. AtMostOneRefresh'
  BY <1>1 DEF AtMostOneRefresh
<1>4. FlightIsNewest'
  BY <1>1 DEF FlightIsNewest, TypeOK, None
<1>5. healthLastErr' \notin reported'
  BY <1>1 DEF TypeOK, None
<1> QED BY <1>2, <1>3, <1>4, <1>5

LEMMA FinishInv ==
  ASSUME Inv, NEW r \in inFlight, PublishSignals(r) \/ PublishError(r)
  PROVE  Inv'
<1> USE DEF Inv, FinishRefresh, StampAndRelease, PublishSignals, PublishError
<1>1. /\ inFlight = {r}
      /\ inFlight' = {}
      /\ r \in 1 .. started
  BY DEF AtMostOneRefresh, TypeOK
<1>2. TypeOK'
  <2>1. healthCache' \in 0 .. started /\ healthLastErr' \in 0 .. started
    BY <1>1 DEF TypeOK
  <2>2. age' \in 0 .. Period
    BY PeriodAssumption
  <2>3. healthRunning' \in BOOLEAN
    OBVIOUS
  <2> QED BY <1>1, <2>1, <2>2, <2>3 DEF TypeOK
<1>3. AtMostOneRefresh' /\ FlightIsNewest'
  BY <1>1 DEF AtMostOneRefresh, FlightIsNewest
<1>4. healthLastErr' \notin reported'
  BY DEF FlightIsNewest, TypeOK
<1> QED BY <1>2, <1>3, <1>4

LEMMA TickInv ==
  ASSUME Inv, Tick
  PROVE  Inv'
BY PeriodAssumption DEF Inv, Tick, TypeOK, AtMostOneRefresh, FlightIsNewest

LEMMA NextInv == Inv /\ [Next]_vars => Inv'
<1> SUFFICES ASSUME Inv, [Next]_vars PROVE Inv'
  OBVIOUS
<1>1. ASSUME NEW c \in Callers, ReadCache(c) PROVE Inv'
  BY <1>1, ReadCacheInv
<1>2. ASSUME NEW c \in Callers, SurfaceError(c) PROVE Inv'
  BY <1>2, SurfaceErrorInv
<1>3. ASSUME NEW r \in inFlight, PublishSignals(r) \/ PublishError(r) PROVE Inv'
  BY <1>3, FinishInv
<1>4. CASE Tick
  BY <1>4, TickInv
<1>5. CASE UNCHANGED vars
  BY <1>5 DEF vars, Inv, TypeOK, AtMostOneRefresh, FlightIsNewest
<1> QED BY <1>1, <1>2, <1>3, <1>4, <1>5 DEF Next

LEMMA Invariance == Spec => []Inv
BY InitInv, NextInv, PTL DEF Spec

-----------------------------------------------------------------------------
(* The state of the health cache keeps its types, for any number of        *)
(* overlapping samples (cachedHealth and refreshHealth).                   *)
THEOREM TypeCorrect == Spec => []TypeOK
<1>1. Inv => TypeOK
  BY DEF Inv
<1> QED BY <1>1, Invariance, PTL

(* "cachedHealth guarantees at most one refresh is in flight"              *)
(* (pipeline.go:332), and healthRunning says exactly whether one is.       *)
THEOREM OneRefreshAtATime == Spec => []AtMostOneRefresh
<1>1. Inv => AtMostOneRefresh
  BY DEF Inv
<1> QED BY <1>1, Invariance, PTL

(* No sample carries an error that another sample has carried already: the *)
(* error is taken and cleared under one lock, and a refresh in flight is   *)
(* newer than every error reported.                                        *)
THEOREM ErrorsReportedOnce == Spec => []ErrorReportedOnce
<1>1. Inv => ErrorReportedOnce
  <2> SUFFICES ASSUME Inv PROVE ErrorReportedOnce
    OBVIOUS
  <2>1. \A r \in inFlight : r \notin reported /\ r # healthLastErr
    BY DEF Inv, FlightIsNewest, TypeOK
  <2> QED BY <2>1 DEF Inv, ErrorReportedOnce
<1> QED BY <1>1, Invariance, PTL

(* The published signals and the waiting error only move forward: no       *)
(* refresh overwrites the result of a later one.                           *)
THEOREM PublishingMovesForward == Spec => ResultsMoveForward
<1> DEFINE Forward == /\ healthCache' >= healthCache
                      /\ healthLastErr' # None => healthLastErr' >= healthLastErr
<1>1. Inv /\ [Next]_vars => [Forward]_vars
  <2> SUFFICES ASSUME Inv, Next PROVE Forward
    OBVIOUS
  <2>0. healthCache \in Nat /\ healthLastErr \in Nat
    BY DEF Inv, TypeOK
  <2>1. ASSUME NEW c \in Callers, ReadCache(c) \/ SurfaceError(c) PROVE Forward
    BY <2>0, <2>1 DEF ReadCache, SurfaceError, TakeError, None
  <2>2. ASSUME NEW r \in inFlight, PublishSignals(r) \/ PublishError(r) PROVE Forward
    BY <2>0, <2>2 DEF PublishSignals, PublishError, Inv, FlightIsNewest, TypeOK
  <2>3. CASE Tick
    BY <2>0, <2>3 DEF Tick
  <2> QED BY <2>1, <2>2, <2>3 DEF Next
<1> QED BY <1>1, Invariance, PTL DEF Spec, ResultsMoveForward

-----------------------------------------------------------------------------
(* As long as samples do not overlap: between samples a refresh in flight   *)
(* excludes a waiting error, because the sample that started it took it.    *)
Alone == \A c, d \in Callers : phase[c] = "surface" /\ phase[d] = "surface" => c = d

WaitingErrorIsNewer ==
    /\ (\A c \in Callers : phase[c] = "idle") =>
         /\ inFlight # {} => healthLastErr = None
         /\ healthLastErr # None => healthLastErr > healthCache
    /\ \A c \in Callers : phase[c] = "surface" /\ healthLastErr # None => healthLastErr > local[c]

LocalIsOld == \A c \in Callers : local[c] <= healthCache

Apart == ~overlapped => Alone /\ WaitingErrorIsNewer /\ ErrorNewerThanSignals

ApartInv == Inv /\ LocalIsOld /\ Apart

LEMMA ApartInit == MCInit => ApartInv
<1> SUFFICES ASSUME MCInit PROVE ApartInv
  OBVIOUS
<1>1. Apart /\ LocalIsOld
  BY DEF MCInit, Init, None, Apart, Alone, WaitingErrorIsNewer, LocalIsOld, ErrorNewerThanSignals
<1> QED BY <1>1, InitInv DEF MCInit, ApartInv

LEMMA ApartNext ==
  ASSUME ApartInv, [MCNext]_mcVars
  PROVE  ApartInv'
<1> DEFINE P == Alone /\ WaitingErrorIsNewer /\ ErrorNewerThanSignals
<1>0. Inv /\ Inv' /\ LocalIsOld /\ Apart
  BY NextInv DEF ApartInv, MCNext, mcVars, vars
<1>t. /\ healthCache \in Nat /\ healthLastErr \in Nat /\ healthCache' \in Nat
      /\ \A c \in Callers : local[c] \in Nat
      /\ \A c \in Callers : phase[c] \in {"idle", "surface"}
      /\ \A c \in Callers : phase'[c] \in {"idle", "surface"}
  BY <1>0 DEF Inv, TypeOK
<1>l. LocalIsOld'
  <2>1. ASSUME NEW c \in Callers, ReadCache(c) PROVE LocalIsOld'
    BY <1>0, <1>t, <2>1 DEF ReadCache, Inv, TypeOK, LocalIsOld
  <2>2. ASSUME UNCHANGED local, UNCHANGED healthCache PROVE LocalIsOld'
    BY <1>0, <2>2 DEF LocalIsOld
  <2>3. ASSUME NEW r \in inFlight, PublishSignals(r) \/ PublishError(r) PROVE LocalIsOld'
    BY <1>0, <1>t, <2>3 DEF PublishSignals, PublishError, FinishRefresh, Inv, FlightIsNewest, LocalIsOld, TypeOK
  <2> QED
    BY <2>1, <2>2, <2>3 DEF ApartInv, MCNext, mcVars, vars, Next, SurfaceError, Tick
<1> SUFFICES ASSUME ~overlapped' PROVE P'
  BY <1>0, <1>l DEF ApartInv, Apart
<1>1. ~overlapped /\ P /\ Alone'
  <2>1. CASE MCNext
    BY <1>0, <2>1 DEF MCNext, Apart, Alone
  <2>2. CASE UNCHANGED mcVars
    BY <1>0, <2>2 DEF mcVars, vars, Apart, Alone
  <2> QED
    BY <2>1, <2>2
<1> USE DEF WaitingErrorIsNewer, ErrorNewerThanSignals, None
<1>2. ASSUME NEW c \in Callers, ReadCache(c) PROVE P'
  <2>1. /\ local' = [local EXCEPT ![c] = healthCache] /\ local'[c] = healthCache
        /\ phase'[c] = "surface" /\ phase[c] = "idle"
        /\ \A d \in Callers \ {c} : phase'[d] = phase[d]
        /\ UNCHANGED <<healthCache, healthLastErr, sample>>
    BY <1>0, <1>2 DEF ReadCache, Inv, TypeOK
  <2>2. \A d \in Callers \ {c} : phase[d] = "idle"
    BY <1>1, <1>t, <2>1 DEF Alone
  <2> QED BY <1>1, <1>t, <2>1, <2>2 DEF Alone
<1>3. ASSUME NEW c \in Callers, SurfaceError(c) PROVE P'
  <2>1. /\ sample'[c] = [cache |-> local[c], err |-> healthLastErr]
        /\ \A d \in Callers \ {c} : sample'[d] = sample[d]
        /\ phase[c] = "surface" /\ healthLastErr' = 0
    BY <1>0, <1>3 DEF SurfaceError, TakeError, carried, Inv, TypeOK
  <2> QED BY <1>1, <1>t, <2>1
<1>4. ASSUME NEW r \in inFlight, PublishSignals(r) \/ PublishError(r) PROVE P'
  <2>1. /\ UNCHANGED <<local, phase, sample>>
        /\ r \in Nat /\ r > healthCache
        /\ inFlight' = {}
    BY <1>0, <1>4 DEF PublishSignals, PublishError, FinishRefresh, Inv, FlightIsNewest,
                      AtMostOneRefresh, TypeOK
  <2>2. \A c \in Callers : r > local[c]
    BY <1>0, <1>t, <2>1 DEF LocalIsOld
  <2>3. CASE PublishSignals(r)
    BY <1>1, <1>t, <2>1, <2>2, <2>3 DEF PublishSignals
  <2>4. CASE PublishError(r)
    BY <1>1, <1>t, <2>1, <2>2, <2>4 DEF PublishError
  <2> QED BY <1>4, <2>3, <2>4
<1>5. ASSUME Tick \/ UNCHANGED vars PROVE P'
  <2>1. UNCHANGED <<healthCache, healthLastErr, inFlight, phase, local, sample>>
    BY <1>5 DEF Tick, vars
  <2> QED BY <1>1, <2>1
<1> QED
  BY <1>2, <1>3, <1>4, <1>5 DEF MCNext, mcVars, Next

(* Whatever the number of callers: until two samples have been in           *)
(* cachedHealth at once, as in the agent for ever, no snapshot pairs health *)
(* signals with the error of a refresh older than they are.                 *)
THEOREM ErrorsAreNewerUnlessOverlapped == MCSpec => []ErrorNewerUnlessOverlapped
<1>1. ApartInv => ErrorNewerUnlessOverlapped
  BY DEF ApartInv, Apart, ErrorNewerUnlessOverlapped
<1> QED BY <1>1, ApartInit, ApartNext, PTL DEF MCSpec
=============================================================================
