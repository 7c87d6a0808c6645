----------------------------- MODULE HealthRules -----------------------------
(***************************************************************************)
(* The three hint rules that read only the health signals                  *)
(* (internal/hints/rules: ecc.go, temp_outlier.go, nvlink.go), as          *)
(* functions of the signals.  The signals of a snapshot are a function     *)
(* from GPU index to a record; wording, severity and confidence follow     *)
(* from what a hint says and are left out.  Counters are plain naturals:   *)
(* the code only compares and subtracts them where the result cannot wrap. *)
(***************************************************************************)
EXTENDS Integers, FiniteSets

CONSTANTS
    ShareUnits,     \* a common multiple of the link counts: ratios as integers
    ThermalFloor    \* thermalViolationOutlierFloorNs, in the signals' unit

ThermalMultiplier == 4
NoCRC == -1

Gpus(sigs) == DOMAIN sigs

(* The k-th smallest of the values of f. *)
OrderStatistic(f, k) ==
    CHOOSE v \in {f[i] : i \in DOMAIN f} :
        /\ Cardinality({i \in DOMAIN f : f[i] < v}) < k
        /\ Cardinality({i \in DOMAIN f : f[i] <= v}) >= k

(* Twice the median: the mean of the middle two when their number is even.  *)
TwiceMedian(f) ==
    LET n == Cardinality(DOMAIN f) IN
    IF n % 2 = 0
    THEN OrderStatistic(f, n \div 2) + OrderStatistic(f, n \div 2 + 1)
    ELSE 2 * OrderStatistic(f, (n + 1) \div 2)

-----------------------------------------------------------------------------
(* ECCError: any volatile error, critical when uncorrectable. *)
EccHints(sigs) ==
    {[rule |-> "ecc", gpu |-> g, critical |-> sigs[g].uncorrectable > 0] :
        g \in {i \in Gpus(sigs) : sigs[i].uncorrectable + sigs[i].correctable > 0}}

(* ThermalViolationOutlier: over the floor and four times the fleet median. *)
isThermalOutlier(sigs, g) ==
    /\ sigs[g].thermal >= ThermalFloor
    /\ 2 * sigs[g].thermal >=
         ThermalMultiplier * TwiceMedian([i \in Gpus(sigs) |-> sigs[i].thermal])

ThermalHints(sigs) ==
    {[rule |-> "thermal", gpu |-> g] :
        g \in {i \in Gpus(sigs) : Cardinality(Gpus(sigs)) >= 2 /\ isThermalOutlier(sigs, i)}}

-----------------------------------------------------------------------------
Linked(sigs) == {g \in Gpus(sigs) : sigs[g].total > 0}

ActiveShare(sig) == sig.active * (ShareUnits \div sig.total)

(* nvlinkFleetMedianRatio, doubled. *)
TwiceFleetMedian(sigs) == TwiceMedian([g \in Linked(sigs) |-> ActiveShare(sigs[g])])

(* Fewer active links than the fleet median, or any inactive link when      *)
(* there is no fleet to compare with.                                       *)
isLinkOutlier(sigs, g) ==
    /\ g \in Linked(sigs)
    /\ sigs[g].active < sigs[g].total
    /\ \/ Cardinality(Gpus(sigs)) < 2
       \/ 2 * ActiveShare(sigs[g]) < TwiceFleetMedian(sigs)

crcDelta(sigs, prevCRC, g) ==
    IF prevCRC[g] # NoCRC /\ sigs[g].crc > prevCRC[g] THEN sigs[g].crc - prevCRC[g] ELSE 0

NVLinkHints(sigs, prevCRC) ==
    {[rule |-> "nvlink", gpu |-> g, outlier |-> isLinkOutlier(sigs, g),
      crcDelta |-> crcDelta(sigs, prevCRC, g)] :
        g \in {i \in Linked(sigs) :
                 isLinkOutlier(sigs, i) \/ crcDelta(sigs, prevCRC, i) > 0}}

(* The counters the rule remembers: those of the GPUs that have links.      *)
NextCRC(sigs, prevCRC) ==
    [g \in DOMAIN prevCRC |-> IF g \in Linked(sigs) THEN sigs[g].crc ELSE prevCRC[g]]
=============================================================================
