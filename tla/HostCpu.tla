-------------------------------- MODULE HostCpu --------------------------------
(***************************************************************************)
(* The CPU shares of the host collector (internal/collect/host): how much  *)
(* the counters of /proc/stat have grown since the previous call.  The     *)
(* previous counters are a struct without a lock, and fetches of the       *)
(* standalone UI may overlap: the struct is copied and written back word   *)
(* by word, here the total before the rest, so that a race can tear it.    *)
(* nice counts as user, irq and softirq as system.                         *)
(***************************************************************************)
EXTENDS Integers

CONSTANTS
    Callers,
    Width,           \* values of a counter: 2^64
    MaxTicks,        \* bound: how often a counter changes
    MaxCalls         \* bound: samples taken

Counters == {"user", "sys", "idle", "iowait"}

VARIABLES
    ran,             \* the time spent in each mode; /proc/stat shows it modulo Width
    ticks, calls,    \* bounds: changes and calls so far
    prev, havePrev,  \* the collector's fields
    at,              \* where each caller stands
    sample,          \* what it has read, of ran
    base,            \* its copy of prev
    solo,            \* history: no other call has been under way meanwhile
    clean,           \* history: prev was written by such a call
    prevRan          \* history: the sample it was written from

vars == <<ran, ticks, calls, prev, havePrev, at, sample, base, solo, clean, prevRan>>
kernelVars == <<ran, ticks>>
prevVars == <<prev, havePrev, clean, prevRan>>

minus(a, b) == (a - b) % Width

(* ParseCPUStatLine *)
parsed(r) ==
    [user |-> r.user % Width, sys |-> r.sys % Width, iowait |-> r.iowait % Width,
     total |-> (r.user + r.sys + r.idle + r.iowait) % Width]

zero == [c \in Counters |-> 0]

Init ==
    /\ ran \in {zero, [zero EXCEPT !["user"] = Width - 1, !["iowait"] = Width]}
    /\ ticks = 0 /\ calls = 0
    /\ prev = parsed(zero) /\ havePrev = FALSE /\ clean = TRUE /\ prevRan = zero
    /\ at = [c \in Callers |-> "idle"]
    /\ sample = [c \in Callers |-> zero]
    /\ base = [c \in Callers |-> parsed(zero)]
    /\ solo = [c \in Callers |-> TRUE]

(* Time passes.  The kernel also takes back iowait (proc(5)). *)
Kernel ==
    /\ ticks < MaxTicks /\ ticks' = ticks + 1
    /\ \/ \E c \in Counters : ran' = [ran EXCEPT ![c] = @ + 1]
       \/ ran["iowait"] > 0 /\ ran' = [ran EXCEPT !["iowait"] = @ - 1]
    /\ UNCHANGED <<calls, prevVars, at, sample, base, solo>>

(* A file that cannot be read changes nothing: the next call's growth is    *)
(* that of both.                                                            *)
ReadStat(c) ==
    /\ at[c] = "idle" /\ calls < MaxCalls /\ calls' = calls + 1
    /\ at' = [at EXCEPT ![c] = IF havePrev THEN "copy" ELSE "store"]
    /\ sample' = [sample EXCEPT ![c] = ran]
    /\ LET others == {d \in Callers \ {c} : at[d] # "idle"}
       IN  solo' = [d \in Callers |-> IF d = c THEN others = {} ELSE solo[d] /\ d \notin others]
    /\ UNCHANGED <<kernelVars, prevVars, base>>

CopyTotal(c) ==
    /\ at[c] = "copy" /\ at' = [at EXCEPT ![c] = "compute"]
    /\ base' = [base EXCEPT ![c].total = prev.total]
    /\ UNCHANGED <<kernelVars, calls, prevVars, sample, solo>>

CopyRest(c) ==
    /\ at[c] = "compute" /\ at' = [at EXCEPT ![c] = "store"]
    /\ base' = [base EXCEPT ![c] = [prev EXCEPT !.total = base[c].total]]
    /\ UNCHANGED <<kernelVars, calls, prevVars, sample, solo>>

(* faulty: the sample replaces the previous one only while there is none *)
stored_Once(c) == IF havePrev THEN prev ELSE parsed(sample[c])

stored(c) == parsed(sample[c])

StoreTotal(c) ==
    /\ at[c] = "store" /\ at' = [at EXCEPT ![c] = "storing"]
    /\ prev' = [prev EXCEPT !.total = stored(c).total]
    /\ UNCHANGED <<kernelVars, calls, havePrev, clean, prevRan, sample, base, solo>>

StoreRest(c) ==
    /\ at[c] = "storing" /\ at' = [at EXCEPT ![c] = "idle"]
    /\ prev' = [stored(c) EXCEPT !.total = prev.total]
    /\ havePrev' = TRUE
    /\ clean' = solo[c] /\ prevRan' = sample[c]
    /\ base' = [base EXCEPT ![c] = parsed(zero)]
    /\ sample' = [sample EXCEPT ![c] = zero]
    /\ UNCHANGED <<kernelVars, calls, solo>>

(* ComputeCPUDelta: the growth of user, system and iowait, and what they    *)
(* are divided by; nothing if that is 0.                                    *)
CPUDelta(p, cur) ==
    IF cur.total = p.total THEN parsed(zero)
    ELSE [f \in DOMAIN cur |-> minus(cur[f], p[f])]

Next ==
    \/ Kernel
    \/ \E c \in Callers : \/ ReadStat(c) \/ CopyTotal(c) \/ CopyRest(c)
                          \/ StoreTotal(c) \/ StoreRest(c)

Spec == Init /\ [][Next]_vars

-----------------------------------------------------------------------------
(* Also over a wrap of a counter: a call that had the collector for itself, *)
(* after another such call, reports the time spent since then, and shares   *)
(* of user, system and iowait time that add up to at most the whole, unless *)
(* the kernel has taken back iowait.                                        *)
SharesAreGrowth ==
    \A c \in Callers : (at[c] = "store" /\ havePrev /\ solo[c] /\ clean) =>
        LET d == CPUDelta(base[c], parsed(sample[c]))
            grown(f) == sample[c][f] - prevRan[f]
        IN  grown("iowait") >= 0 =>
              /\ d.user = grown("user") /\ d.sys = grown("sys") /\ d.iowait = grown("iowait")
              /\ d.user + d.sys + d.iowait <= d.total
=============================================================================
