----------------------------- MODULE NvmlHandles -----------------------------
(***************************************************************************)
(* The NVML collector's cache of device handles                            *)
(* (internal/collect/gpu/nvml_linux.go): samples, process lists and health *)
(* refreshes share it.  A call asks the driver for the number of devices   *)
(* and takes the cached handles if there are as many; otherwise it asks    *)
(* for one handle after the other and replaces the cache.  The mutex is    *)
(* held for the comparison and for the replacement, not in between.        *)
(***************************************************************************)
EXTENDS Naturals, Sequences, SequencesExt

CONSTANTS
    Users,         \* goroutines that need handles
    DeviceLists,   \* the lists of devices the driver may have
    MaxChanges     \* bound: how often the list changes

VARIABLES
    devices,       \* the driver's list; index i is its i-th element
    known,         \* history: all lists there have been
    changes,       \* bound: changes so far
    initialized, handles,    \* the collector's fields
    at,            \* where each user stands
    count,         \* what DeviceGetCount told it
    got,           \* the handles it has, or returned
    steady         \* history: the list has not changed since it asked

vars == <<devices, known, changes, initialized, handles, at, count, got, steady>>
cacheVars == <<devices, known, changes, initialized, handles>>

Init ==
    /\ devices \in DeviceLists /\ known = {devices} /\ changes = 0
    /\ initialized = FALSE /\ handles = <<>>
    /\ at = [u \in Users |-> "idle"]
    /\ count = [u \in Users |-> 0]
    /\ got = [u \in Users |-> <<>>]
    /\ steady = [u \in Users |-> FALSE]

(* A GPU falls off the bus, or comes back after a reset. *)
Driver ==
    /\ changes < MaxChanges /\ changes' = changes + 1
    /\ devices' \in DeviceLists \ {devices}
    /\ known' = known \union {devices'}
    /\ steady' = [u \in Users |-> FALSE]
    /\ UNCHANGED <<initialized, handles, at, count, got>>

(* gonvml.Init; it may fail, and the next call tries again.                 *)
ensureInit(u) ==
    /\ at[u] = "idle"
    /\ \/ initialized' = TRUE /\ at' = [at EXCEPT ![u] = "count"]
       \/ ~initialized /\ UNCHANGED <<initialized, at>>
    /\ UNCHANGED <<devices, known, changes, handles, count, got, steady>>

fails(u) ==
    /\ at' = [at EXCEPT ![u] = "idle"]
    /\ UNCHANGED <<cacheVars, count, got, steady>>

DeviceGetCount(u) ==
    /\ at[u] = "count"
    /\ \/ fails(u)
       \/ /\ count' = [count EXCEPT ![u] = Len(devices)]
          /\ steady' = [steady EXCEPT ![u] = TRUE]
          /\ at' = [at EXCEPT ![u] = "compare"]
          /\ UNCHANGED <<cacheVars, got>>

(* faulty: any cached handles will do *)
cacheHit_Any(u) == handles # <<>>

cacheHit(u) == Len(handles) = count[u]

(* The first critical section. *)
Compare(u) ==
    /\ at[u] = "compare"
    /\ got' = [got EXCEPT ![u] = IF cacheHit(u) THEN handles ELSE <<>>]
    /\ at' = [at EXCEPT ![u] = IF cacheHit(u) THEN "query" ELSE "enumerate"]
    /\ UNCHANGED <<cacheVars, count, steady>>

DeviceGetHandleByIndex(u) ==
    /\ at[u] = "enumerate" /\ Len(got[u]) < count[u]
    /\ \/ fails(u)
       \/ /\ Len(got[u]) < Len(devices)
          /\ got' = [got EXCEPT ![u] = Append(@, devices[Len(@) + 1])]
          /\ UNCHANGED <<cacheVars, at, count, steady>>

(* The second. *)
Replace(u) ==
    /\ at[u] = "enumerate" /\ Len(got[u]) = count[u]
    /\ handles' = got[u]
    /\ at' = [at EXCEPT ![u] = "query"]
    /\ UNCHANGED <<devices, known, changes, initialized, count, got, steady>>

(* The queries with the handles, Collect, CollectProcesses or CollectHealth. *)
Query(u) == at[u] = "query" /\ fails(u)

Next ==
    \/ Driver
    \/ \E u \in Users : \/ ensureInit(u) \/ DeviceGetCount(u) \/ Compare(u)
                        \/ DeviceGetHandleByIndex(u) \/ Replace(u) \/ Query(u)

Spec == Init /\ [][Next]_vars

-----------------------------------------------------------------------------
(* Devices have only come and gone at the end of the driver's list.         *)
onlyLast == \A a, b \in known : IsPrefix(a, b) \/ IsPrefix(b, a)

(* However the calls overlap, and whatever slower enumeration has replaced  *)
(* the cache meanwhile: a call in which no device came or went returns the  *)
(* driver's present devices, at their indices.  onlyLast is needed: a list  *)
(* with as many other devices, even one put together from two lists, counts *)
(* as current ("refreshing the cache if the device count changed").         *)
HandlesAreCurrent ==
    \A u \in Users : (at[u] = "query" /\ steady[u] /\ onlyLast) => got[u] = devices
=============================================================================
