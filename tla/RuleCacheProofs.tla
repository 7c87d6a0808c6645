--------------------------- MODULE RuleCacheProofs ---------------------------
(***************************************************************************)
(* What replaying cached hints may and may not change, proved for every    *)
(* set of signals a snapshot may carry.  The argument: a replay needs a    *)
(* hash equal to that of the snapshot before, equal hashes mean equal      *)
(* fields, and the cached hints are what the rules give for those fields.  *)
(***************************************************************************)
EXTENDS RuleCache, FiniteSetTheorems, TLAPS

linkOutliers(sigs) == {g \in Gpus(sigs) : isLinkOutlier(sigs, g)}

(* Link hints that name the outliers of sigs, whatever CRC growth they add. *)
LinkHintsFor(hints, sigs) ==
    /\ \A h \in hints : h.rule = "nvlink"
    /\ {h.gpu : h \in {k \in hints : k.outlier}} = linkOutliers(sigs)

(* What is in the cache belongs to the signals of the last snapshot.        *)
CacheIsCurrent ==
    /\ \A r \in HealthOnly : healthCached[r].found => healthHash = hashHealthSignals(signals)
    /\ healthCached["ecc"].found => healthCached["ecc"].hints = EccHints(signals)
    /\ healthCached["thermal"].found => healthCached["thermal"].hints = ThermalHints(signals)
    /\ healthCached["nvlink"].found => LinkHintsFor(healthCached["nvlink"].hints, signals)

Inv ==
    /\ CacheIsCurrent
    /\ prevCRC = [g \in AllGpus |-> prevCRC[g]]
    /\ PureRulesFresh
    /\ LinkOutliersFresh
    /\ BaselineIsCurrent

-----------------------------------------------------------------------------
(* The hash covers every field the three rules read (evaluator.go:117-138). *)
LEMMA HashCovers ==
    ASSUME NEW s, NEW t, hashHealthSignals(s) = hashHealthSignals(t)
    PROVE  /\ Gpus(s) = Gpus(t)
           /\ \A g \in Gpus(s) :
                /\ s[g].correctable = t[g].correctable
                /\ s[g].uncorrectable = t[g].uncorrectable
                /\ s[g].total = t[g].total
                /\ s[g].active = t[g].active
                /\ s[g].crc = t[g].crc
                /\ s[g].thermal = t[g].thermal
  <1> DEFINE H(u) == [g \in Gpus(u) |-> <<u[g].correctable, u[g].uncorrectable,
                                           u[g].total, u[g].active, u[g].crc,
                                           u[g].thermal, u[g].power>>]
  <1>1. H(s) = H(t)
    BY DEF hashHealthSignals
  <1>2. Gpus(s) = DOMAIN H(s) /\ Gpus(t) = DOMAIN H(t)
    OBVIOUS
  <1>3. Gpus(s) = Gpus(t)
    BY <1>1, <1>2
  <1>4. ASSUME NEW g \in Gpus(s)
        PROVE  <<s[g].correctable, s[g].uncorrectable, s[g].total, s[g].active,
                 s[g].crc, s[g].thermal, s[g].power>>
             = <<t[g].correctable, t[g].uncorrectable, t[g].total, t[g].active,
                 t[g].crc, t[g].thermal, t[g].power>>
    <2>1. H(s)[g] = H(t)[g]
      BY <1>1
    <2> QED
      BY <2>1, <1>3
  <1> QED
    BY <1>3, <1>4

(* Hence the rules that are functions of the signals cannot tell them apart, *)
LEMMA SameHints ==
    ASSUME NEW s, NEW t, hashHealthSignals(s) = hashHealthSignals(t)
    PROVE  EccHints(s) = EccHints(t) /\ ThermalHints(s) = ThermalHints(t)
  <1>1. Gpus(s) = Gpus(t) /\ \A g \in Gpus(s) : /\ s[g].correctable = t[g].correctable
                                               /\ s[g].uncorrectable = t[g].uncorrectable
                                               /\ s[g].thermal = t[g].thermal
    BY HashCovers
  <1>2. EccHints(s) = EccHints(t)
    BY <1>1 DEF EccHints
  <1>3. [g \in Gpus(s) |-> s[g].thermal] = [g \in Gpus(t) |-> t[g].thermal]
    BY <1>1
  <1>4. ThermalHints(s) = ThermalHints(t)
    <2>1. \A g \in Gpus(s) : isThermalOutlier(s, g) <=> isThermalOutlier(t, g)
      BY <1>1, <1>3 DEF isThermalOutlier
    <2> QED
      BY <2>1, <1>1 DEF ThermalHints
  <1> QED
    BY <1>2, <1>4

(* nor can the test for link outliers, and the counters are the same.       *)
LEMMA SameLinks ==
    ASSUME NEW s, NEW t, hashHealthSignals(s) = hashHealthSignals(t)
    PROVE  /\ Linked(s) = Linked(t)
           /\ \A g \in Linked(s) : s[g].crc = t[g].crc
           /\ linkOutliers(s) = linkOutliers(t)
  <1>1. Gpus(s) = Gpus(t) /\ \A g \in Gpus(s) : /\ s[g].total = t[g].total
                                               /\ s[g].active = t[g].active
                                               /\ s[g].crc = t[g].crc
    BY HashCovers
  <1>2. Linked(s) = Linked(t) /\ Linked(s) \subseteq Gpus(s)
    BY <1>1 DEF Linked
  <1>3. \A g \in Linked(s) : ActiveShare(s[g]) = ActiveShare(t[g])
    BY <1>1, <1>2 DEF ActiveShare
  <1>4. [g \in Linked(s) |-> ActiveShare(s[g])] = [g \in Linked(t) |-> ActiveShare(t[g])]
    BY <1>2, <1>3
  <1>5. TwiceFleetMedian(s) = TwiceFleetMedian(t)
    BY <1>4 DEF TwiceFleetMedian
  <1>6. \A g \in Gpus(s) : isLinkOutlier(s, g) <=> isLinkOutlier(t, g)
    BY <1>1, <1>2, <1>3, <1>5 DEF isLinkOutlier
  <1> QED
    BY <1>1, <1>2, <1>6 DEF linkOutliers

(* A run of the link rule names exactly the outliers.                       *)
LEMMA LinkRuleNamesOutliers ==
    ASSUME NEW sigs, NEW crcs PROVE LinkHintsFor(NVLinkHints(sigs, crcs), sigs)
  <1>1. \A h \in NVLinkHints(sigs, crcs) : h.rule = "nvlink"
    BY DEF NVLinkHints
  <1>2. \A g \in linkOutliers(sigs) : g \in Linked(sigs)
    BY DEF linkOutliers, isLinkOutlier
  <1>3. ASSUME NEW g \in linkOutliers(sigs)
        PROVE  \E h \in NVLinkHints(sigs, crcs) : h.outlier /\ h.gpu = g
    <2> DEFINE h == [rule |-> "nvlink", gpu |-> g, outlier |-> isLinkOutlier(sigs, g),
                     crcDelta |-> crcDelta(sigs, crcs, g)]
    <2>1. h \in NVLinkHints(sigs, crcs)
      BY <1>2 DEF NVLinkHints, linkOutliers
    <2>2. h.outlier /\ h.gpu = g
      BY DEF linkOutliers
    <2> QED
      BY <2>1, <2>2
  <1>4. \A h \in NVLinkHints(sigs, crcs) : h.outlier => h.gpu \in linkOutliers(sigs)
    BY DEF NVLinkHints, linkOutliers, Linked
  <1> QED
    BY <1>1, <1>3, <1>4 DEF LinkHintsFor

-----------------------------------------------------------------------------
(* Replayed or produced, the hints of a rule fit the signals at hand.       *)
LEMMA OutputFresh ==
    ASSUME CacheIsCurrent, NEW sigs
    PROVE  /\ output("ecc", sigs) = EccHints(sigs)
           /\ output("thermal", sigs) = ThermalHints(sigs)
           /\ LinkHintsFor(output("nvlink", sigs), sigs)
  <1>1. ASSUME NEW r \in HealthOnly, replays(r, sigs)
        PROVE  healthCached[r].found /\ hashHealthSignals(sigs) = hashHealthSignals(signals)
    BY <1>1 DEF replays, healthChanged, CacheIsCurrent
  <1>2. output("ecc", sigs) = EccHints(sigs)
    <2>1. CASE replays("ecc", sigs)
      BY <2>1, <1>1, SameHints DEF CacheIsCurrent, output, HealthOnly
    <2>2. CASE ~replays("ecc", sigs)
      BY <2>2 DEF output, produced
    <2> QED
      BY <2>1, <2>2
  <1>3. output("thermal", sigs) = ThermalHints(sigs)
    <2>1. CASE replays("thermal", sigs)
      BY <2>1, <1>1, SameHints DEF CacheIsCurrent, output, HealthOnly
    <2>2. CASE ~replays("thermal", sigs)
      BY <2>2 DEF output, produced
    <2> QED
      BY <2>1, <2>2
  <1>4. LinkHintsFor(output("nvlink", sigs), sigs)
    <2>1. CASE replays("nvlink", sigs)
      <3>1. /\ LinkHintsFor(healthCached["nvlink"].hints, signals)
            /\ linkOutliers(sigs) = linkOutliers(signals)
        BY <2>1, <1>1, SameLinks DEF CacheIsCurrent, HealthOnly
      <3> QED
        BY <3>1, <2>1 DEF LinkHintsFor, output
    <2>2. CASE ~replays("nvlink", sigs)
      BY <2>2, LinkRuleNamesOutliers DEF output, produced
    <2> QED
      BY <2>1, <2>2
  <1> QED
    BY <1>2, <1>3, <1>4

LEMMA InitInv == Init => Inv
  <1> SUFFICES ASSUME Init PROVE Inv
    OBVIOUS
  <1>1. CacheIsCurrent
    BY DEF Init, CacheIsCurrent, HealthOnly, Missing
  <1>2. Gpus(signals) = {}
    BY DEF Init, NoSignals, Gpus
  <1>3. EccHints(signals) = {} /\ linkOutliers(signals) = {} /\ Linked(signals) = {}
    BY <1>2 DEF EccHints, linkOutliers, Linked
  <1>4. ThermalHints(signals) = {}
    BY <1>2 DEF ThermalHints
  <1>5. raw = {} /\ prevCRC = [g \in AllGpus |-> prevCRC[g]]
    BY DEF Init
  <1> QED
    BY <1>1, <1>3, <1>4, <1>5
    DEF Inv, PureRulesFresh, LinkOutliersFresh, BaselineIsCurrent, Of, linkOutliers

LEMMA NextInv == Inv /\ [Next]_vars => Inv'
  <1> SUFFICES ASSUME Inv, [Next]_vars PROVE Inv'
    OBVIOUS
  <1>1. CASE UNCHANGED vars
    <2>1. CacheIsCurrent'
      BY <1>1 DEF vars, Inv, CacheIsCurrent, HealthOnly
    <2> QED
      BY <1>1, <2>1
      DEF vars, Inv, PureRulesFresh, LinkOutliersFresh, BaselineIsCurrent, Of
  <1>2. ASSUME NEW sigs \in SignalSets, NEW others \in SUBSET OtherHints,
               Evaluate(sigs, others)
        PROVE  Inv'
    <2> DEFINE ecc == output("ecc", sigs)
               thermal == output("thermal", sigs)
               nvlink == output("nvlink", sigs)
    <2>1. ecc = EccHints(sigs) /\ thermal = ThermalHints(sigs) /\ LinkHintsFor(nvlink, sigs)
      BY OutputFresh DEF Inv
    <2>2. signals' = sigs /\ healthHash' = hashHealthSignals(sigs)
      BY <1>2 DEF Evaluate
    <2>3. /\ healthCached'["ecc"] = [found |-> TRUE, hints |-> ecc]
          /\ healthCached'["thermal"] = [found |-> TRUE, hints |-> thermal]
          /\ healthCached'["nvlink"] = [found |-> TRUE, hints |-> nvlink]
      BY <1>2 DEF Evaluate, cacheOutputs, HealthOnly
    <2>4. CacheIsCurrent'
      BY <2>1, <2>2, <2>3 DEF CacheIsCurrent, HealthOnly
    <2>5. raw' = (ecc \union thermal \union nvlink)
                   \union {[rule |-> "other", name |-> n] : n \in others}
      BY <1>2 DEF Evaluate, HealthOnly
    <2>6. /\ \A h \in ecc : h.rule = "ecc"
          /\ \A h \in thermal : h.rule = "thermal"
          /\ \A h \in nvlink : h.rule = "nvlink"
      <3>1. \A h \in ecc : h.rule = "ecc"
        BY <2>1 DEF EccHints
      <3>2. \A h \in thermal : h.rule = "thermal"
        BY <2>1 DEF ThermalHints
      <3> QED
        BY <2>1, <3>1, <3>2 DEF LinkHintsFor
    <2>7. Of("ecc")' = ecc /\ Of("thermal")' = thermal /\ Of("nvlink")' = nvlink
      BY <2>5, <2>6 DEF Of
    <2>8. PureRulesFresh'
      BY <2>1, <2>2, <2>7 DEF PureRulesFresh
    <2>9. LinkOutliersFresh'
      BY <2>1, <2>2, <2>7 DEF LinkOutliersFresh, LinkHintsFor, linkOutliers
    <2>10. prevCRC' = [g \in AllGpus |-> prevCRC'[g]] /\ BaselineIsCurrent'
      <3>1. CASE replays("nvlink", sigs)
        <4>1. Linked(sigs) = Linked(signals) /\ \A g \in Linked(sigs) : sigs[g].crc = signals[g].crc
          BY <3>1, SameLinks DEF replays, healthChanged, Inv, CacheIsCurrent, HealthOnly
        <4>2. prevCRC' = prevCRC
          BY <3>1, <1>2 DEF Evaluate, rememberCRC
        <4> QED
          BY <4>1, <4>2, <2>2 DEF Inv, BaselineIsCurrent
      <3>2. CASE ~replays("nvlink", sigs)
        <4>1. prevCRC' = NextCRC(sigs, prevCRC)
          BY <3>2, <1>2 DEF Evaluate, rememberCRC
        <4>2. Linked(sigs) \subseteq AllGpus
          BY DEF Linked, AllGpus
        <4>3. DOMAIN prevCRC = AllGpus
          BY DEF Inv
        <4> QED
          BY <4>1, <4>2, <4>3, <2>2 DEF NextCRC, BaselineIsCurrent
      <3> QED
        BY <3>1, <3>2
    <2> QED
      BY <2>4, <2>8, <2>9, <2>10 DEF Inv
  <1> QED
    BY <1>1, <1>2 DEF Next

THEOREM Invariance == Spec => []Inv
  <1> QED
    BY InitInv, NextInv, PTL DEF Spec

(* The ECC and thermal hints of a snapshot, replayed or not, are those the  *)
(* rules give for its own signals (evaluator.go:69-73).                     *)
THEOREM PureRulesAreFresh == Spec => []PureRulesFresh
  <1>1. Inv => PureRulesFresh
    BY DEF Inv
  <1> QED
    BY Invariance, <1>1, PTL

(* Exactly the GPUs that are link outliers now are reported as such.        *)
THEOREM LinkOutliersAreFresh == Spec => []LinkOutliersFresh
  <1>1. Inv => LinkOutliersFresh
    BY DEF Inv
  <1> QED
    BY Invariance, <1>1, PTL

(* A replay of the link rule, which does not look at the counters, leaves   *)
(* the remembered ones up to date (nvlink.go:51-52).                        *)
THEOREM BaselineStaysCurrent == Spec => []BaselineIsCurrent
  <1>1. Inv => BaselineIsCurrent
    BY DEF Inv
  <1> QED
    BY Invariance, <1>1, PTL
=============================================================================
