------------------------------ MODULE RuleCache ------------------------------
(***************************************************************************)
(* Evaluator.Evaluate (internal/hints/evaluator.go): the rules that depend *)
(* on the health signals only are not run again while the signals stay the *)
(* same; their last hints are replayed.  Two of the three are functions of *)
(* the signals.  The third, NVLinkHealth, also remembers the CRC counters  *)
(* of the last time it ran.                                                *)
(*                                                                         *)
(* The 64-bit hash of the signals stands for the fields it covers: no      *)
(* collision is modelled.  Of the fields it covers that no rule reads, the *)
(* power violation counter is kept: a change of it runs the rules again.   *)
(***************************************************************************)
EXTENDS HealthRules

CONSTANTS
    SignalSets,   \* the health signals a snapshot may carry, NoSignals among them
    OtherHints    \* hints of the rules that are run on every snapshot

VARIABLES
    healthHash,     \* Evaluator.healthHash: the signals last seen, or NoHash
    healthCached,   \* Evaluator.healthCached: an entry for a rule, or Missing
    prevCRC,        \* NVLinkHealth.prevCRC, NoCRC where there is no entry
    signals,        \* the health signals of the snapshot evaluated last
    before,         \* those of the snapshot evaluated before it
    raw             \* the hints returned for the last snapshot

vars == <<healthHash, healthCached, prevCRC, signals, before, raw>>

AllGpus == UNION {Gpus(s) : s \in SignalSets}
HealthOnly == {"thermal", "nvlink", "ecc"}
NoSignals == <<>>
NoHash == [seen |-> FALSE, of |-> NoSignals]
Missing == [found |-> FALSE, hints |-> {}]

Init ==
    /\ healthHash = NoHash
    /\ healthCached = [r \in HealthOnly |-> Missing]
    /\ prevCRC = [g \in AllGpus |-> NoCRC]
    /\ signals = NoSignals
    /\ before = NoSignals
    /\ raw = {}

-----------------------------------------------------------------------------
(* faulty: the ECC counters are not part of the hash *)
hashHealthSignals_NoECC(sigs) ==
    [seen |-> TRUE,
     of |-> [g \in Gpus(sigs) |-> <<sigs[g].total, sigs[g].active, sigs[g].crc,
                                    sigs[g].thermal, sigs[g].power>>]]

(* faulty: the number of active links is not part of the hash *)
hashHealthSignals_NoLinks(sigs) ==
    [seen |-> TRUE,
     of |-> [g \in Gpus(sigs) |-> <<sigs[g].correctable, sigs[g].uncorrectable,
                                    sigs[g].crc, sigs[g].thermal, sigs[g].power>>]]

hashHealthSignals(sigs) ==
    [seen |-> TRUE,
     of |-> [g \in Gpus(sigs) |-> <<sigs[g].correctable, sigs[g].uncorrectable,
                                    sigs[g].total, sigs[g].active, sigs[g].crc,
                                    sigs[g].thermal, sigs[g].power>>]]

healthChanged(sigs) == hashHealthSignals(sigs) # healthHash

produced(r, sigs) ==
    [thermal |-> ThermalHints(sigs),
     nvlink |-> NVLinkHints(sigs, prevCRC),
     ecc |-> EccHints(sigs)][r]

replays(r, sigs) == ~healthChanged(sigs) /\ healthCached[r].found

output(r, sigs) == IF replays(r, sigs) THEN healthCached[r].hints ELSE produced(r, sigs)

(* faulty: the counters are stored for the GPUs that get a hint *)
rememberCRC_OnHint(sigs) ==
    prevCRC' = [g \in AllGpus |->
                  IF prevCRC[g] = NoCRC \/ \E h \in NVLinkHints(sigs, prevCRC) : h.gpu = g
                  THEN NextCRC(sigs, prevCRC)[g] ELSE prevCRC[g]]

(* Only a run of the rule, not a replay, looks at the counters.             *)
rememberCRC(sigs) ==
    prevCRC' = IF replays("nvlink", sigs) THEN prevCRC ELSE NextCRC(sigs, prevCRC)

cacheOutputs(sigs) ==
    healthCached' = [r \in HealthOnly |-> [found |-> TRUE, hints |-> output(r, sigs)]]

(* One snapshot: its signals, and the hints of the rules run every time.    *)
Evaluate(sigs, others) ==
    /\ healthHash' = hashHealthSignals(sigs)
    /\ raw' = (UNION {output(r, sigs) : r \in HealthOnly})
                \union {[rule |-> "other", name |-> n] : n \in others}
    /\ cacheOutputs(sigs)
    /\ rememberCRC(sigs)
    /\ signals' = sigs
    /\ before' = signals

Next == \E sigs \in SignalSets, others \in SUBSET OtherHints : Evaluate(sigs, others)

Spec == Init /\ [][Next]_vars

-----------------------------------------------------------------------------
Of(rule) == {h \in raw : h.rule = rule}

TypeOK ==
    /\ signals \in SignalSets \union {NoSignals}
    /\ before \in SignalSets \union {NoSignals}
    /\ healthHash \in {hashHealthSignals(s) : s \in SignalSets} \union {NoHash}
    /\ DOMAIN healthCached = HealthOnly
    /\ DOMAIN prevCRC = AllGpus
    /\ \A g \in AllGpus : prevCRC[g] >= NoCRC

(* Skipping the rules that are functions of the signals is invisible: their *)
(* hints are those the rules give for the signals of this very snapshot     *)
(* (HealthSensitive, evaluator.go:24-29; ecc.go, temp_outlier.go).          *)
PureRulesFresh ==
    /\ Of("ecc") = EccHints(signals)
    /\ Of("thermal") = ThermalHints(signals)

(* Nor can a link hint go stale: exactly the GPUs that are outliers now are *)
(* reported as outliers.                                                    *)
LinkOutliersFresh ==
    {h.gpu : h \in {k \in Of("nvlink") : k.outlier}}
        = {g \in Gpus(signals) : isLinkOutlier(signals, g)}

(* The remembered counters are those of the last snapshot, replayed or not: *)
(* skipping the rule loses no baseline.                                     *)
BaselineIsCurrent ==
    \A g \in Linked(signals) : prevCRC[g] = signals[g].crc

(* "when the signals match the previous tick, the CRC delta is zero and no  *)
(* new hints are produced" (nvlink.go:27), "a stale non-zero value is not   *)
(* treated as an active problem" (nvlink.go:14): a CRC hint means the       *)
(* counter grew since the previous snapshot.                                *)
CRCHintMeansGrowth ==
    \A h \in Of("nvlink") : h.gpu \in Linked(before) /\ h.crcDelta > 0 =>
        signals[h.gpu].crc > before[h.gpu].crc
=============================================================================
