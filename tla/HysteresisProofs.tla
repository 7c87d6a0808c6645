-------------------------- MODULE HysteresisProofs --------------------------
(***************************************************************************)
(* When the hysteresis filter shows a hint, proved for any hints and any   *)
(* decay that ScoreAssumption and ThresholdAssumption allow.  A score is   *)
(* bounded from above by how often the hint has fired since it was last    *)
(* forgotten, and from below by how often it has fired in a row; the       *)
(* threshold lies between the bounds for two and for three.                *)
(***************************************************************************)
EXTENDS Hysteresis, TLAPS

Once == One
Twice == Decay[One] + One
Thrice == Decay[Twice] + One

FewFirings ==
    \A n \in Names :
        /\ firings[n] = 0 => scores[n] = 0
        /\ firings[n] = 1 => scores[n] <= Once
        /\ firings[n] = 2 => scores[n] <= Twice

LongStreaks ==
    \A n \in Names :
        /\ streak[n] = 1 => scores[n] >= Once
        /\ streak[n] = 2 => scores[n] >= Twice
        /\ streak[n] = 3 => scores[n] >= Thrice
        /\ streak[n] > 0 => n \in fired

ShownByScore == emitted = {n \in fired : n \in Bypass \/ scores[n] >= Threshold}

Inv == TypeOK /\ FewFirings /\ LongStreaks /\ ShownByScore

-----------------------------------------------------------------------------
LEMMA Bounds ==
    /\ Once \in 1 .. MaxScore /\ Twice \in 1 .. MaxScore /\ Thrice \in 1 .. MaxScore
    /\ Once <= Twice /\ Twice <= Thrice
    /\ Twice < Threshold /\ Threshold <= Thrice /\ Threshold \in Nat
    /\ DeleteBelow <= Decay[Once] /\ DeleteBelow \in Nat
  <1>1. One \in Nat \ {0} /\ MaxScore \in Nat /\ Threshold \in Nat /\ DeleteBelow \in Nat
    BY ScoreAssumption
  <1>2. \A s \in 0 .. MaxScore : Decay[s] \in 0 .. s /\ Decay[s] + One <= MaxScore
    BY ScoreAssumption
  <1>3. Once \in 1 .. MaxScore
    BY <1>1, <1>2 DEF Once
  <1>4. Decay[One] \in 0 .. One /\ Twice \in 1 .. MaxScore /\ Once <= Twice
    BY <1>1, <1>2, <1>3 DEF Once, Twice
  <1>5. Decay[Twice] \in 0 .. Twice /\ Thrice \in 1 .. MaxScore
    BY <1>1, <1>2, <1>4 DEF Thrice
  <1>6. Decay[One] <= Decay[Twice]
    BY <1>1, <1>3, <1>4, ScoreAssumption DEF Once
  <1>7. Twice <= Thrice
    BY <1>1, <1>4, <1>5, <1>6 DEF Twice, Thrice
  <1> QED
    BY <1>1, <1>3, <1>4, <1>5, <1>7, ThresholdAssumption DEF Once, Twice, Thrice

LEMMA Decays ==
    ASSUME NEW s \in 0 .. MaxScore
    PROVE  /\ Decay[s] \in 0 .. s /\ Decay[s] + One \in 0 .. MaxScore
           /\ s <= Once => Decay[s] <= Decay[Once]
           /\ s >= Once => Decay[s] >= Decay[Once]
           /\ s >= Twice => Decay[s] >= Decay[Twice]
  <1>1. One \in Nat /\ MaxScore \in Nat
    BY ScoreAssumption
  <1>2. \A u \in 0 .. MaxScore : /\ Decay[u] \in 0 .. u
                                 /\ Decay[u] + One <= MaxScore
                                 /\ \A t \in u .. MaxScore : Decay[u] <= Decay[t]
    BY ScoreAssumption
  <1>3. Decay[s] \in 0 .. s /\ Decay[s] + One \in 0 .. MaxScore
    BY <1>1, <1>2
  <1>4. s <= Once => Decay[s] <= Decay[Once]
    BY <1>2, Bounds
  <1>5. s >= Once => Decay[s] >= Decay[Once]
    BY <1>2, Bounds
  <1>6. s >= Twice => Decay[s] >= Decay[Twice]
    BY <1>2, Bounds
  <1> QED
    BY <1>3, <1>4, <1>5, <1>6

LEMMA InitInv == Init => Inv
  <1> SUFFICES ASSUME Init PROVE Inv
    OBVIOUS
  <1> USE DEF Init
  <1>1. TypeOK
    BY ScoreAssumption DEF TypeOK
  <1> QED
    BY <1>1 DEF Inv, FewFirings, LongStreaks, ShownByScore

(* The bounds follow the score of one hint through one sample. *)
LEMMA ScoreStep ==
    ASSUME Inv, NEW raw \in SUBSET Names, Evaluate(raw), NEW n \in Names
    PROVE  /\ scores'[n] \in 0 .. MaxScore
           /\ firings'[n] \in 0 .. 3 /\ streak'[n] \in 0 .. 3
           /\ firings'[n] = 0 => scores'[n] = 0
           /\ firings'[n] = 1 => scores'[n] <= Once
           /\ firings'[n] = 2 => scores'[n] <= Twice
           /\ streak'[n] = 1 => scores'[n] >= Once
           /\ streak'[n] = 2 => scores'[n] >= Twice
           /\ streak'[n] = 3 => scores'[n] >= Thrice
           /\ streak'[n] > 0 => n \in raw
  <1> DEFINE d == decayed(n, raw)
  <1>1. /\ scores[n] \in 0 .. MaxScore /\ firings[n] \in 0 .. 3 /\ streak[n] \in 0 .. 3
        /\ One \in Nat \ {0} /\ MaxScore \in Nat
    BY ScoreAssumption DEF Inv, TypeOK
  <1>2. /\ scores'[n] = d + (IF n \in raw THEN One ELSE 0)
        /\ firings'[n] = LET before == IF d = 0 THEN 0 ELSE firings[n]
                         IN  IF n \in raw /\ before < 3 THEN before + 1 ELSE before
        /\ streak'[n] = IF n \notin raw THEN 0 ELSE IF streak[n] < 3 THEN streak[n] + 1 ELSE 3
    BY DEF Evaluate, countFirings, credited
  <1>3. d \in 0 .. scores[n] /\ d <= Decay[scores[n]]
    BY <1>1, Decays DEF decayed
  <1>4. d + One \in 0 .. MaxScore
    BY <1>1, <1>3, Decays
  <1>5. scores'[n] \in 0 .. MaxScore /\ firings'[n] \in 0 .. 3 /\ streak'[n] \in 0 .. 3
    BY <1>1, <1>2, <1>3, <1>4
  <1>6. /\ firings'[n] = 0 => scores'[n] = 0
        /\ firings'[n] = 1 => scores'[n] <= Once
        /\ firings'[n] = 2 => scores'[n] <= Twice
    <2>1. CASE d = 0
      BY <2>1, <1>1, <1>2 DEF Once
    <2>2. CASE d # 0
      <3>1. /\ firings[n] = 1 => d <= Once /\ d <= Decay[Once]
            /\ firings[n] = 2 => d <= Twice
            /\ firings[n] # 0
        BY <2>2, <1>1, <1>3, Decays, Bounds DEF Inv, FewFirings
      <3>2. firings'[n] = IF n \in raw /\ firings[n] < 3 THEN firings[n] + 1 ELSE firings[n]
        BY <2>2, <1>2
      <3>3. firings'[n] # 0
        BY <3>1, <3>2, <1>1
      <3>4. CASE firings'[n] = 1
        <4>1. firings[n] = 1 /\ n \notin raw
          BY <3>1, <3>2, <3>4, <1>1
        <4> QED
          BY <4>1, <3>1, <3>4, <1>2, <1>3, <1>1
      <3>5. CASE firings'[n] = 2
        <4>1. \/ firings[n] = 1 /\ n \in raw
              \/ firings[n] = 2 /\ n \notin raw
          BY <3>1, <3>2, <3>5, <1>1
        <4>2. Decay[Once] \in Nat
          BY Decays, Bounds
        <4> QED
          BY <4>1, <4>2, <3>1, <3>5, <1>2, <1>3, <1>1 DEF Once, Twice
      <3> QED
        BY <3>3, <3>4, <3>5
    <2> QED
      BY <2>1, <2>2
  <1>7. /\ streak'[n] = 1 => scores'[n] >= Once
        /\ streak'[n] = 2 => scores'[n] >= Twice
        /\ streak'[n] = 3 => scores'[n] >= Thrice
    <2>1. ASSUME streak[n] > 0
          PROVE  /\ d = Decay[scores[n]] /\ d >= Decay[Once]
                 /\ streak[n] > 1 => d >= Decay[Twice]
      <3>1. scores[n] >= Once /\ (streak[n] > 1 => scores[n] >= Twice)
        BY <2>1, <1>1, Bounds DEF Inv, LongStreaks
      <3>2. Decay[scores[n]] >= Decay[Once] /\ Decay[scores[n]] \in Nat /\ Decay[Once] \in Nat
        BY <3>1, <1>1, Decays, Bounds
      <3>3. d = Decay[scores[n]]
        BY <3>2, Bounds DEF decayed
      <3> QED
        BY <3>1, <3>2, <3>3, <1>1, Decays
    <2>2. CASE streak'[n] = 1
      BY <2>2, <1>1, <1>2, <1>3 DEF Once
    <2>3. CASE streak'[n] = 2
      <3>1. streak[n] = 1 /\ n \in raw
        BY <2>3, <1>1, <1>2
      <3>2. Decay[Once] \in Nat
        BY Decays, Bounds
      <3> QED
        BY <3>1, <3>2, <2>1, <2>3, <1>1, <1>2, <1>3 DEF Once, Twice
    <2>4. CASE streak'[n] = 3
      <3>1. streak[n] > 1 /\ n \in raw
        BY <2>4, <1>1, <1>2
      <3>2. Decay[Twice] \in Nat
        BY Decays, Bounds
      <3> QED
        BY <3>1, <3>2, <2>1, <2>4, <1>1, <1>2, <1>3 DEF Thrice
    <2> QED
      BY <2>2, <2>3, <2>4
  <1>8. streak'[n] > 0 => n \in raw
    BY <1>2
  <1> QED
    BY <1>5, <1>6, <1>7, <1>8

LEMMA NextInv == Inv /\ [Next]_vars => Inv'
  <1> SUFFICES ASSUME Inv, [Next]_vars PROVE Inv'
    OBVIOUS
  <1>1. CASE UNCHANGED vars
    BY <1>1 DEF vars, Inv, TypeOK, FewFirings, LongStreaks, ShownByScore
  <1>2. ASSUME NEW raw \in SUBSET Names, Evaluate(raw)
        PROVE  Inv'
    <2>1. /\ scores' = [n \in Names |-> scores'[n]]
          /\ firings' = [n \in Names |-> firings'[n]]
          /\ streak' = [n \in Names |-> streak'[n]]
      BY <1>2 DEF Evaluate, countFirings
    <2>2. fired' = raw /\ emitted' = {n \in raw : n \in Bypass \/ scores'[n] >= Threshold}
      BY <1>2 DEF Evaluate, selected
    <2>3. TypeOK'
      BY <1>2, <2>1, <2>2, ScoreStep DEF TypeOK
    <2>4. FewFirings'
      BY <1>2, ScoreStep DEF FewFirings
    <2>5. LongStreaks'
      BY <1>2, <2>2, ScoreStep DEF LongStreaks
    <2>6. ShownByScore'
      BY <2>2 DEF ShownByScore
    <2> QED
      BY <2>3, <2>4, <2>5, <2>6 DEF Inv
  <1> QED
    BY <1>1, <1>2 DEF Next

THEOREM Invariance == Spec => []Inv
  <1> QED
    BY InitInv, NextInv, PTL DEF Spec

(* Type correctness: in particular no score exceeds MaxScore. *)
THEOREM TypeCorrect == Spec => []TypeOK
  <1>1. Inv => TypeOK
    BY DEF Inv
  <1> QED
    BY Invariance, <1>1, PTL

(* The filter only removes hints, and none of hardware health               *)
(* (hysteresis.go:73-82).                                                   *)
THEOREM OnlySuppresses == Spec => []FilterOnlySuppresses
  <1>1. Inv => FilterOnlySuppresses
    BY DEF Inv, ShownByScore, FilterOnlySuppresses
  <1> QED
    BY Invariance, <1>1, PTL

(* A hint that is shown has fired three times since it was last forgotten.  *)
THEOREM TransientsAreHeldBack == Spec => []TransientIsHeldBack
  <1>1. ASSUME Inv, NEW n \in Names \ Bypass, n \in emitted
        PROVE  firings[n] = 3
    <2>1. scores[n] >= Threshold /\ scores[n] \in Nat /\ firings[n] \in 0 .. 3
      BY <1>1, ScoreAssumption DEF Inv, TypeOK, ShownByScore
    <2> QED
      BY <2>1, <1>1, Bounds DEF Inv, FewFirings
  <1>2. Inv => TransientIsHeldBack
    BY <1>1 DEF TransientIsHeldBack
  <1> QED
    BY Invariance, <1>2, PTL

(* A hint that has fired in three samples in a row is shown in the third.   *)
THEOREM SustainedAreShown == Spec => []SustainedIsShown
  <1>1. ASSUME Inv, NEW n \in Names, streak[n] = 3
        PROVE  n \in emitted
    <2>1. n \in fired /\ scores[n] >= Thrice /\ scores[n] \in Nat
      BY <1>1, ScoreAssumption DEF Inv, LongStreaks, TypeOK
    <2> QED
      BY <2>1, <1>1, Bounds DEF Inv, ShownByScore
  <1>2. Inv => SustainedIsShown
    BY <1>1 DEF SustainedIsShown
  <1> QED
    BY Invariance, <1>2, PTL
=============================================================================
