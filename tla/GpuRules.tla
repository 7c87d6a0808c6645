------------------------------- MODULE GpuRules -------------------------------
(***************************************************************************)
(* From the driver's answers for one GPU to hints and badges:              *)
(* collectDeviceStat (internal/collect/gpu/nvml_linux.go), the rules that  *)
(* look at the present sample only (internal/hints/rules) and the state    *)
(* labels of the two displays (cmd/gputui), which decode the driver's      *)
(* bitmap a second and a third time.  A query that fails leaves 0, also    *)
(* where 0 means something; the unknown performance state is 32.           *)
(* Throttle reasons are sets of bits; the mean over the GPUs is the GPU's. *)
(***************************************************************************)
EXTENDS Naturals, FiniteSets, Sequences, SequencesExt

CONSTANTS
    Devices,        \* what the driver may have to say of a GPU
    Nodes,          \* what the host collector may say: cpuUser, iowait
    MaxFailed       \* bound: queries that fail in one sample

Queries == {"util", "memory", "reasons", "pstate", "gen", "genMax", "width", "widthMax"}

VARIABLES device, failed, node,    \* the inputs
          stat, hints, badge,      \* the GPUStat, the hints and the label made of it
          at

vars == <<device, failed, node, stat, hints, badge, at>>

noStat == [util |-> 0, memUtil |-> 0, vram |-> 0, reasons |-> {}, pstate |-> 32,
           gen |-> 0, genMax |-> 0, width |-> 0, widthMax |-> 0]

noBadge == [throttle |-> <<>>, parked |-> FALSE]

Init ==
    /\ device \in Devices /\ node \in Nodes
    /\ failed \in {f \in SUBSET Queries : Cardinality(f) <= MaxFailed}
    /\ stat = noStat /\ hints = {} /\ badge = noBadge /\ at = "collect"

-----------------------------------------------------------------------------
(* One query answers for both utilisations. *)
queryOf == [util |-> "util", memUtil |-> "util", vram |-> "memory", reasons |-> "reasons",
            pstate |-> "pstate", gen |-> "gen", genMax |-> "genMax",
            width |-> "width", widthMax |-> "widthMax"]

collectDeviceStat(d, f) ==
    [field \in DOMAIN noStat |-> IF queryOf[field] \in f THEN noStat[field] ELSE d[field]]

throttleIgnore == {"GPU_IDLE", "APPLICATIONS_CLOCKS", "DISPLAY_CLOCK"}
throttleHwCritical == {"HW_SLOWDOWN", "HW_THERMAL", "HW_POWER_BRAKE"}

(* decodeThrottleReasons: the bits that have a name, the worst first.       *)
reasonNames == <<"HW_THERMAL", "HW_POWER_BRAKE", "HW_SLOWDOWN", "SW_THERMAL", "SW_POWER_CAP", "SYNC_BOOST">>

decodeThrottleReasons(bits) ==
    LET named[i \in 0 .. Len(reasonNames)] ==
            IF i = 0 THEN <<>>
            ELSE IF reasonNames[i] \in bits THEN Append(named[i - 1], reasonNames[i]) ELSE named[i - 1]
        all == named[Len(reasonNames)]
    IN  IF all = <<>> THEN <<"HEX">> ELSE all

ConfirmedThrottle(g) ==
    {[name |-> "confirmed-throttle", severity |-> severity,
      reasons |-> decodeThrottleReasons(g.reasons \ throttleIgnore)] :
        severity \in {s \in {"warning", "critical"} :
            /\ g.reasons \ throttleIgnore # {}
            /\ (s = "critical") = (g.reasons \intersect throttleHwCritical # {})}}

warning(name, fires) == {[name |-> n, severity |-> "warning", reasons |-> <<>>] : n \in {m \in {name} : fires}}

(* faulty: any state from P8 up, also the one that is not known *)
GPUParked_Unknown(g) == warning("gpu-parked", g.pstate >= 8 /\ g.vram >= 1024)

GPUParked(g) == warning("gpu-parked", g.pstate >= 8 /\ g.pstate < 32 /\ g.vram >= 1024)

MemoryBandwidthBound(g) == warning("memory-bandwidth-bound", g.util < 50 /\ g.memUtil >= 80)

(* faulty: 0, of a query that failed, is less than any maximum *)
degraded_Zero(current, max) == current < max

degraded(current, max) == current > 0 /\ current < max

PCIeLinkDegraded(g) ==
    warning("pcie-link-degraded",
            /\ g.genMax # 0 /\ g.widthMax # 0
            /\ degraded(g.gen, g.genMax) \/ degraded(g.width, g.widthMax))

gpuHints(g) ==
    ConfirmedThrottle(g) \union GPUParked(g) \union MemoryBandwidthBound(g) \union PCIeLinkDegraded(g)

CPUBound(g, n) == warning("potential-cpu-bound-preprocessing", g.util < 60 /\ n.cpuUser > 50)
IOBound(g, n) == warning("potential-io-bound-pipeline", g.util < 60 /\ n.iowait > 15)

(* faulty: the display clock is not masked *)
decodeTUIThrottle_Unmasked(bits) ==
    LET masked == bits \ {"GPU_IDLE", "APPLICATIONS_CLOCKS"}
    IN  IF masked = {} THEN <<>> ELSE SubSeq(decodeThrottleReasons(masked), 1, 1)

(* One reason at most, in the same order. *)
decodeTUIThrottle(bits) ==
    LET masked == bits \ {"GPU_IDLE", "APPLICATIONS_CLOCKS", "DISPLAY_CLOCK"}
        first == SelectInSeq(reasonNames, LAMBDA r : r \in masked)
    IN  IF masked = {} THEN <<>> ELSE IF first = 0 THEN <<"HEX">> ELSE <<reasonNames[first]>>

gpuStateBadges(g) ==
    [throttle |-> decodeTUIThrottle(g.reasons), parked |-> g.pstate >= 8 /\ g.pstate < 32]

Collect ==
    /\ at = "collect" /\ at' = "evaluate"
    /\ stat' = collectDeviceStat(device, failed)
    /\ UNCHANGED <<device, failed, node, hints, badge>>

Evaluate ==
    /\ at = "evaluate" /\ at' = "show"
    /\ hints' = gpuHints(stat) \union CPUBound(stat, node) \union IOBound(stat, node)
    /\ UNCHANGED <<device, failed, node, stat, badge>>

Show ==
    /\ at = "show" /\ at' = "shown"
    /\ badge' = gpuStateBadges(stat)
    /\ UNCHANGED <<device, failed, node, stat, hints>>

Next == Collect \/ Evaluate \/ Show

Spec == Init /\ [][Next]_vars

-----------------------------------------------------------------------------
(* A query that fails accuses no GPU: it can only hide what the driver's    *)
(* answers would have shown.  (Not so the two rules about the host: a       *)
(* failed utilisation query reads as an idle GPU.)                          *)
FailuresAccuseNoGPU ==
    at = "show" => {h \in hints : h.name \notin {"potential-cpu-bound-preprocessing",
                                                 "potential-io-bound-pipeline"}}
                   \subseteq gpuHints(collectDeviceStat(device, {}))

(* The label beside a GPU and the hint about it agree: throttling is shown  *)
(* in one exactly if it is in the other, with the first of its reasons, and *)
(* a GPU that is called parked has its state shown ("Mirrors                *)
(* rules.decodeThrottleReasons", tui.go:1378).                              *)
BadgesMirrorHints ==
    at = "shown" =>
        /\ {SubSeq(h.reasons, 1, 1) : h \in {k \in hints : k.name = "confirmed-throttle"}}
             = {b \in {badge.throttle} : b # <<>>}
        /\ (\E h \in hints : h.name = "gpu-parked") => badge.parked
=============================================================================
