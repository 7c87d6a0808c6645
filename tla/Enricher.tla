------------------------------- MODULE Enricher -------------------------------
(***************************************************************************)
(* The process enricher (internal/collect/proc): the command and the CPU   *)
(* use of every GPU process, read from /proc while processes exit and      *)
(* their pids are used again.  The command is cached for as long as the    *)
(* process's start time stays the same; CPU use is the growth since the    *)
(* previous call.  Enrich holds the mutex.                                 *)
(*                                                                         *)
(* A process is known by its start time, never 0; its command is taken to  *)
(* be that number and its CPU time to be one counter of Width values.  All *)
(* reads of a pid that is gone return 0.                                   *)
(***************************************************************************)
EXTENDS Naturals, FiniteSets, Functions

CONSTANTS
    Pids,
    EvictFactor,       \* identities kept per process present: 4 in the code
    CpuCap,            \* cpuCapPct, in ticks
    Width,             \* values of a counter: 2^64
    MaxStarts, MaxCpu  \* bounds: processes started, ticks used by each

VARIABLES
    life,              \* what /proc shows of each pid
    starts,            \* processes started so far
    prev, curr, identity,      \* the fields of Enricher
    todo,              \* the pids Enrich has not reached
    at,                \* where it stands
    pid, sampled, cmd, \* its locals: LookupCPU found the process; the command read
    shown,             \* what it has put in the ProcStats
    lastShown,         \* history: what the previous call did
    torn               \* history: processes that came while their pid was looked up

vars == <<life, starts, prev, curr, identity, todo, at, pid, sampled, cmd, shown, lastShown, torn>>
procVars == <<life, starts>>
locals == <<pid, sampled, cmd>>

gone == [start |-> 0, cpu |-> 0]
nothing == <<>>
with(f, p, value) == [q \in DOMAIN f \union {p} |-> IF q = p THEN value ELSE f[q]]

Init ==
    /\ life = [p \in Pids |-> gone] /\ starts = 0
    /\ prev = nothing /\ curr = nothing /\ identity = nothing
    /\ todo = {} /\ at = "idle" /\ pid \in Pids /\ sampled = FALSE /\ cmd = 0
    /\ shown = nothing /\ lastShown = nothing /\ torn = {}

Spawn(p) ==
    /\ life[p] = gone /\ starts < MaxStarts
    /\ starts' = starts + 1
    /\ life' = [life EXCEPT ![p] = [start |-> starts', cpu |-> 0]]
    /\ torn' = torn \union {s \in {starts'} : at = "times" /\ pid = p}
    /\ UNCHANGED <<prev, curr, identity, todo, at, locals, shown, lastShown>>

Live(p) ==
    /\ life[p] # gone
    /\ \/ life' = [life EXCEPT ![p] = gone]
       \/ life[p].cpu < MaxCpu /\ life' = [life EXCEPT ![p].cpu = @ + 1]
    /\ UNCHANGED <<starts, prev, curr, identity, todo, at, locals, shown, lastShown, torn>>

-----------------------------------------------------------------------------
(* faulty: the buffer handed over by the swap is not emptied *)
cleared_Not == curr

cleared == nothing

BeginEnrich(procs) ==
    /\ at = "idle" /\ at' = "next"
    /\ todo' = procs
    /\ curr' = cleared
    /\ shown' = nothing /\ lastShown' = shown
    /\ UNCHANGED <<procVars, prev, identity, locals, torn>>

(* Unsigned arithmetic: a counter of another process that is smaller, or of *)
(* a process that is gone, gives a huge difference, and that counts as 0.   *)
pct(p, now) ==
    IF p \notin DOMAIN prev \/ (prev[p].start # now.start /\ now.start # 0) THEN 0
    ELSE LET delta == (now.cpu + Width - prev[p].cpu) % Width
         IN  IF delta > CpuCap THEN 0 ELSE delta

enriched(p, now, name) ==
    /\ shown' = with(shown, p, [cmd |-> name, start |-> now.start, pct |-> pct(p, now)])
    /\ curr' = with(curr, p, now)
    /\ todo' = todo \ {p} /\ at' = "next"
    /\ cmd' = 0 /\ sampled' = FALSE

(* faulty: the pid is enough *)
cached_ByPid(p) == p \in DOMAIN identity

cached(p) ==
    p \in DOMAIN identity /\ identity[p].start = life[p].start /\ life[p].start # 0

LookupCPU(p) ==
    /\ at = "next" /\ p \in todo
    /\ IF cached(p)
       THEN enriched(p, life[p], identity[p].cmd) /\ UNCHANGED pid
       ELSE /\ pid' = p /\ sampled' = (life[p].start # 0) /\ at' = "cmdline"
            /\ UNCHANGED <<cmd, shown, curr, todo>>
    /\ UNCHANGED <<procVars, prev, identity, lastShown, torn>>

(* Lookup reads the command first ... *)
ReadCmdline ==
    /\ at = "cmdline" /\ at' = "times"
    /\ cmd' = life[pid].start
    /\ UNCHANGED <<procVars, prev, curr, identity, todo, pid, sampled, shown, lastShown, torn>>

(* ... and the times last: what it returns may be of two processes.         *)
ReadCPUTimes ==
    /\ at = "times"
    /\ identity' = IF sampled
                   THEN with(identity, pid, [cmd |-> cmd, start |-> life[pid].start])
                   ELSE identity
    /\ enriched(pid, life[pid], cmd)
    /\ UNCHANGED <<procVars, prev, pid, lastShown, torn>>

evicted ==
    IF Cardinality(DOMAIN identity) > EvictFactor * Cardinality(DOMAIN curr)
    THEN Restrict(identity, DOMAIN identity \intersect DOMAIN curr) ELSE identity

EndEnrich ==
    /\ at = "next" /\ todo = {} /\ at' = "idle"
    /\ identity' = evicted
    /\ prev' = curr /\ curr' = prev
    /\ UNCHANGED <<procVars, todo, locals, shown, lastShown, torn>>

Next ==
    \/ \E p \in Pids : Spawn(p) \/ Live(p) \/ LookupCPU(p)
    \/ \E procs \in SUBSET Pids : BeginEnrich(procs)
    \/ ReadCmdline \/ ReadCPUTimes \/ EndEnrich

Spec == Init /\ [][Next]_vars

-----------------------------------------------------------------------------
(* However pids are reused, the command shown is the process's own, unless  *)
(* the process came between the two reads of its lookup (then the wrong     *)
(* name stays for its life).                                                *)
NamesAreOwn ==
    \A p \in DOMAIN shown :
        shown[p].start # 0 /\ shown[p].start \notin torn => shown[p].cmd = shown[p].start

(* CPU use is never computed from another process's counter, or from an     *)
(* older call's than the last, although the two buffers are swapped.        *)
CpuUseIsOwn ==
    \A p \in DOMAIN shown : shown[p].pct # 0 =>
        p \in DOMAIN lastShown /\ lastShown[p].start = shown[p].start
=============================================================================
