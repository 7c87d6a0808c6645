------------------------------ MODULE Collectors ------------------------------
(***************************************************************************)
(* The parts of a sample that share no state - the kernel log, NVML's      *)
(* handles and process lists, the process enricher, the host's CPU shares, *)
(* the rules on one GPU - and the local API, each explored by itself:      *)
(* focus says which, and the variables of the others stay 0.               *)
(***************************************************************************)
EXTENDS Naturals, Sequences

CONSTANTS
    RingSize, MaxRecords, MaxClock, Users, MaxChanges, NDevices, Pids,
    MaxMoves, EvictFactor, CpuCap, Width, MaxStarts, MaxCpu, Callers,
    MaxTicks, MaxCalls, Clients, MaxLives, MaxSnapshots, MaxFailed,
    DeviceLists, \* the lists of devices the driver may have
    Devices,     \* what it may have to say of one GPU
    Nodes        \* what the host collector may say

(* A counter of 2^64 ticks does not run through all its values between two  *)
(* calls, nor in the life of a process.                                     *)
ASSUME CollectorsAssumption ==
    /\ RingSize \in Nat /\ MaxRecords \in Nat /\ NDevices \in Nat
    /\ MaxLives \in Nat /\ MaxSnapshots \in Nat
    /\ CpuCap \in Nat /\ MaxCpu \in Nat /\ MaxTicks \in Nat /\ Width \in Nat
    /\ MaxCpu + CpuCap < Width /\ MaxTicks < Width
    /\ DeviceLists \subseteq Seq(UNION {{d[i] : i \in DOMAIN d} : d \in DeviceLists})

VARIABLES
    focus,
    clock, ring, mode, next, lastSeen, collecting, markers, reported,
    fellBack, untimed,
    devices, known, changes, initialized, handles, handlesAt, count, got,
    steady,
    running, moves, visit, procs, stayed, answered,
    life, starts, enricherPrev, curr, identity, todo, enricherAt, pid,
    sampled, cmd, shown, lastShown, torn,
    ran, ticks, calls, hostPrev, havePrev, hostAt, sample, base, solo, clean,
    prevRan,
    born, state, path, published, conn, request, since, answer, overlapped,
    device, failed, node, stat, hints, badge, gpuAt

kmsgVars == <<clock, ring, mode, next, lastSeen, collecting, markers,
               reported, fellBack, untimed>>
handlesVars == <<devices, known, changes, initialized, handles, handlesAt,
               count, got, steady>>
processesVars == <<running, moves, visit, procs, stayed, answered>>
enricherVars == <<life, starts, enricherPrev, curr, identity, todo, enricherAt,
               pid, sampled, cmd, shown, lastShown, torn>>
hostVars == <<ran, ticks, calls, hostPrev, havePrev, hostAt, sample, base,
               solo, clean, prevRan>>
apiVars == <<born, state, path, published, conn, request, since, answer,
               overlapped>>
gpuVars == <<device, failed, node, stat, hints, badge, gpuAt>>

Kmsg == INSTANCE KmsgCollector
Handles == INSTANCE NvmlHandles WITH at <- handlesAt
Processes == INSTANCE NvmlProcesses
Enricher == INSTANCE Enricher WITH prev <- enricherPrev, at <- enricherAt
Host == INSTANCE HostCpu WITH prev <- hostPrev, at <- hostAt
Api == INSTANCE UnixSocketApi
Gpu == INSTANCE GpuRules WITH at <- gpuAt

kmsgRests ==
    /\ clock = 0 /\ ring = 0 /\ untimed = 0 /\ mode = 0 /\ next = 0 /\ lastSeen = 0
    /\ collecting = 0 /\ markers = 0 /\ reported = 0 /\ fellBack = 0
handlesRests ==
    /\ devices = 0 /\ known = 0 /\ changes = 0 /\ initialized = 0 /\ handles = 0
    /\ handlesAt = 0 /\ count = 0 /\ got = 0 /\ steady = 0
processesRests ==
    /\ running = 0 /\ moves = 0 /\ visit = 0 /\ procs = 0 /\ stayed = 0
    /\ answered = 0
enricherRests ==
    /\ life = 0 /\ starts = 0 /\ enricherPrev = 0 /\ curr = 0 /\ identity = 0
    /\ todo = 0 /\ enricherAt = 0 /\ pid = 0 /\ sampled = 0 /\ cmd = 0
    /\ shown = 0 /\ lastShown = 0 /\ torn = 0
hostRests ==
    /\ ran = 0 /\ ticks = 0 /\ calls = 0 /\ hostPrev = 0 /\ havePrev = 0
    /\ hostAt = 0 /\ sample = 0 /\ base = 0 /\ solo = 0 /\ clean = 0
    /\ prevRan = 0
apiRests ==
    /\ born = 0 /\ state = 0 /\ path = 0 /\ published = 0 /\ conn = 0
    /\ request = 0 /\ since = 0 /\ answer = 0 /\ overlapped = 0
gpuRests ==
    /\ device = 0 /\ failed = 0 /\ node = 0 /\ stat = 0 /\ hints = 0
    /\ badge = 0 /\ gpuAt = 0

Init ==
    \/ focus = "kmsg" /\ Kmsg!Init
       /\ handlesRests /\ processesRests /\ enricherRests /\ hostRests /\ apiRests /\ gpuRests
    \/ focus = "handles" /\ Handles!Init
       /\ kmsgRests /\ processesRests /\ enricherRests /\ hostRests /\ apiRests /\ gpuRests
    \/ focus = "processes" /\ Processes!Init
       /\ kmsgRests /\ handlesRests /\ enricherRests /\ hostRests /\ apiRests /\ gpuRests
    \/ focus = "enricher" /\ Enricher!Init
       /\ kmsgRests /\ handlesRests /\ processesRests /\ hostRests /\ apiRests /\ gpuRests
    \/ focus = "host" /\ Host!Init
       /\ kmsgRests /\ handlesRests /\ processesRests /\ enricherRests /\ apiRests /\ gpuRests
    \/ focus = "api" /\ Api!Init
       /\ kmsgRests /\ handlesRests /\ processesRests /\ enricherRests /\ hostRests /\ gpuRests
    \/ focus = "gpu" /\ Gpu!Init
       /\ kmsgRests /\ handlesRests /\ processesRests /\ enricherRests /\ hostRests /\ apiRests

Next ==
    /\ UNCHANGED focus
    /\ \/ focus = "kmsg" /\ Kmsg!Next
          /\ UNCHANGED <<handlesVars, processesVars, enricherVars, hostVars, apiVars, gpuVars>>
       \/ focus = "handles" /\ Handles!Next
          /\ UNCHANGED <<kmsgVars, processesVars, enricherVars, hostVars, apiVars, gpuVars>>
       \/ focus = "processes" /\ Processes!Next
          /\ UNCHANGED <<kmsgVars, handlesVars, enricherVars, hostVars, apiVars, gpuVars>>
       \/ focus = "enricher" /\ Enricher!Next
          /\ UNCHANGED <<kmsgVars, handlesVars, processesVars, hostVars, apiVars, gpuVars>>
       \/ focus = "host" /\ Host!Next
          /\ UNCHANGED <<kmsgVars, handlesVars, processesVars, enricherVars, apiVars, gpuVars>>
       \/ focus = "api" /\ Api!Next
          /\ UNCHANGED <<kmsgVars, handlesVars, processesVars, enricherVars, hostVars, gpuVars>>
       \/ focus = "gpu" /\ Gpu!Next
          /\ UNCHANGED <<kmsgVars, handlesVars, processesVars, enricherVars, hostVars, apiVars>>

vars ==
    <<focus, kmsgVars, handlesVars, processesVars, enricherVars, hostVars, apiVars, gpuVars>>

Spec == Init /\ [][Next]_vars

-----------------------------------------------------------------------------
(* KmsgCollector: an event is reported once, unless it was there when dmesg *)
(* printed no times.                                                        *)
TimedEventsOnce == focus = "kmsg" => Kmsg!TimedEventsOnce

(* KmsgCollector: no event is missed without one of the accepted reasons.   *)
MissedForAReason == focus = "kmsg" => Kmsg!MissedForAReason

(* NvmlHandles: a call without a device change has the present handles.     *)
HandlesAreCurrent == focus = "handles" => Handles!HandlesAreCurrent

(* NvmlProcesses: each process is listed once, and those that stay are.     *)
ProcessesListedOnce == focus = "processes" => Processes!ProcessesListedOnce

(* Enricher: no process is shown under the name of another.                 *)
NamesAreOwn == focus = "enricher" => Enricher!NamesAreOwn

(* Enricher: no CPU use is computed from another process's counter.         *)
CpuUseIsOwn == focus = "enricher" => Enricher!CpuUseIsOwn

(* HostCpu: shares are of the time since the previous call.                 *)
SharesAreGrowth == focus = "host" => Host!SharesAreGrowth

(* UnixSocketApi: agents one after the other are always reachable.          *)
AgentIsReachable == focus = "api" => Api!AgentIsReachable

(* UnixSocketApi: clients get published snapshots, not older than asked.    *)
AnswersAreCurrent == focus = "api" => Api!AnswersAreCurrent

(* GpuRules: a failed query adds no hint about a GPU.                       *)
FailuresAccuseNoGPU == focus = "gpu" => Gpu!FailuresAccuseNoGPU

(* GpuRules: hints and labels agree.                                        *)
BadgesMirrorHints == focus = "gpu" => Gpu!BadgesMirrorHints
=============================================================================
