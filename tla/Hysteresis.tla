------------------------------ MODULE Hysteresis ------------------------------
(***************************************************************************)
(* HysteresisEvaluator.Evaluate (internal/hints/hysteresis.go): a hint is  *)
(* shown when its score, which decays with every sample and grows with     *)
(* every sample the hint fires in, has reached a threshold; the            *)
(* hardware-health hints are always shown.                                 *)
(*                                                                         *)
(* A score is a natural number of 1/One; Decay is one multiplication by    *)
(* 0.5^(1/HalfLifeSamples), rounded down, below DeleteBelow the entry of   *)
(* the map is deleted and counts as 0.  Only which hints fire matters of   *)
(* the wrapped evaluator.                                                  *)
(***************************************************************************)
EXTENDS Integers, Sequences, FiniteSets

CONSTANTS
    Names,         \* hint names
    Bypass,        \* those of category "hardware_health"
    One,           \* what firing adds to a score: 1.0
    Threshold,     \* EmitThreshold
    MaxScore,      \* no score exceeds it (a geometric series)
    Decay,         \* one sample's decay of a score
    DeleteBelow    \* 0.001

ASSUME NamesAssumption == Bypass \subseteq Names
ASSUME ScoreAssumption ==
    /\ One \in Nat \ {0} /\ Threshold \in Nat /\ MaxScore \in Nat
    /\ DeleteBelow \in Nat
    /\ DOMAIN Decay = 0 .. MaxScore
    /\ \A s \in 0 .. MaxScore :
         /\ Decay[s] \in 0 .. s
         /\ Decay[s] + One <= MaxScore
         /\ \A t \in s .. MaxScore : Decay[s] <= Decay[t]

(* The default configuration: one firing is remembered for a sample, two in *)
(* a row stay below the threshold and three in a row reach it.              *)
ASSUME ThresholdAssumption ==
    /\ DeleteBelow <= Decay[One]
    /\ Decay[One] + One < Threshold
    /\ Threshold <= Decay[Decay[One] + One] + One

VARIABLES
    scores,    \* HysteresisEvaluator.scores, 0 where there is no entry
    fired,     \* the hints the wrapped evaluator returned for this sample
    emitted,   \* the hints returned for this sample
    firings,   \* history: firings since the entry was made, counted up to 3
    streak     \* history: samples in a row it has fired in, counted up to 3

vars == <<scores, fired, emitted, firings, streak>>

Init ==
    /\ scores = [n \in Names |-> 0]
    /\ fired = {}
    /\ emitted = {}
    /\ firings = [n \in Names |-> 0]
    /\ streak = [n \in Names |-> 0]

-----------------------------------------------------------------------------
decayed(n, raw) == IF Decay[scores[n]] < DeleteBelow THEN 0 ELSE Decay[scores[n]]

(* faulty: the score is credited before it decays *)
credited_DecayLast(n, raw) ==
    LET s == scores[n] + (IF n \in raw THEN One ELSE 0) IN
    IF s \in DOMAIN Decay THEN Decay[s] ELSE MaxScore

credited(n, raw) == decayed(n, raw) + (IF n \in raw THEN One ELSE 0)

(* faulty: a hint counts against the threshold from its second firing on *)
selected_Sooner(raw) ==
    {n \in raw : n \in Bypass \/ credited(n, raw) > One}

selected(raw) ==
    {n \in raw : n \in Bypass \/ credited(n, raw) >= Threshold}

countFirings(raw) ==
    /\ firings' = [n \in Names |->
                     LET before == IF decayed(n, raw) = 0 THEN 0 ELSE firings[n]
                     IN  IF n \in raw /\ before < 3 THEN before + 1 ELSE before]
    /\ streak' = [n \in Names |->
                    IF n \notin raw THEN 0 ELSE IF streak[n] < 3 THEN streak[n] + 1 ELSE 3]

(* The decay of all entries and the credit of those that fired, in one call. *)
Evaluate(raw) ==
    /\ scores' = [n \in Names |-> credited(n, raw)]
    /\ fired' = raw
    /\ emitted' = selected(raw)
    /\ countFirings(raw)

Next == \E raw \in SUBSET Names : Evaluate(raw)

Spec == Init /\ [][Next]_vars

-----------------------------------------------------------------------------
TypeOK ==
    /\ scores \in [Names -> 0 .. MaxScore]
    /\ fired \in SUBSET Names
    /\ emitted \in SUBSET Names
    /\ firings \in [Names -> 0 .. 3]
    /\ streak \in [Names -> 0 .. 3]

(* What is shown is true of this sample, and hardware health is never held  *)
(* back: the filter only ever removes other hints.                          *)
FilterOnlySuppresses ==
    /\ emitted \subseteq fired
    /\ fired \cap Bypass \subseteq emitted

(* A transient condition is not shown: a hint that is shown has fired three *)
(* times since the filter last knew nothing of it.                          *)
TransientIsHeldBack ==
    \A n \in Names \ Bypass : n \in emitted => firings[n] = 3

(* A sustained condition is shown no later than with its third sample.      *)
SustainedIsShown ==
    \A n \in Names : streak[n] = 3 => n \in emitted

(* "gpu-xid-error: Surfaces the Xid event verbatim" (README.md:55): the     *)
(* kernel logs an event once, so the one sample that carries it shows it.   *)
XidIsSurfaced == "gpu-xid-error" \in fired => "gpu-xid-error" \in emitted
=============================================================================
