---------------------------- MODULE KmsgCollector ----------------------------
(***************************************************************************)
(* The kernel log collector (internal/collect/log): a reader of /dev/kmsg  *)
(* that takes one record at a time until none is left, and after an error, *)
(* for good, the markers in the output of dmesg that are newer than the    *)
(* last one reported.  Collect holds the mutex, so calls do not overlap.   *)
(*                                                                         *)
(* The kernel numbers its records and keeps the last RingSize of them.     *)
(* ring[i] is record i: when it was logged, and whether it is an Xid or an *)
(* OOM kill.  Each call of dmesg prints the records with a time the parser *)
(* understands (iso) or, where the command with that option fails, without *)
(* one; it runs within an instant.                                         *)
(***************************************************************************)
EXTENDS Naturals, Sequences, FiniteSetsExt

CONSTANTS
    RingSize,      \* records the kernel keeps
    MaxRecords,    \* bound: records logged
    MaxClock       \* bound: the last instant

VARIABLES
    clock,
    ring,          \* the records logged so far
    mode,          \* "kmsg" while the device is open, else "dmesg"
    next,          \* the record the next read of the device returns
    lastSeen,      \* dmesgFallback.lastSeen
    collecting,    \* Collect is running
    markers,       \* the records it has found to be markers, told in their order
    reported,      \* history: how often each record was returned as a marker, up to 2
    fellBack,      \* history: when the fallback began
    untimed        \* history: when it found markers in lines without a time

vars == <<clock, ring, mode, next, lastSeen, collecting, markers, reported, fellBack, untimed>>
kernelVars == <<clock, ring>>

(* newCollector: the device is opened and wound to its end, or is not there. *)
Init ==
    /\ clock = 1 /\ ring = <<>>
    /\ mode \in {"kmsg", "dmesg"}
    /\ next = 1 /\ lastSeen = clock /\ fellBack = clock /\ untimed = {}
    /\ collecting = FALSE /\ markers = {}
    /\ reported = [i \in 1 .. MaxRecords |-> 0]

oldestKept == IF Len(ring) <= RingSize THEN 1 ELSE Len(ring) - RingSize + 1

Kernel ==
    /\ \/ /\ Len(ring) < MaxRecords /\ UNCHANGED clock
          /\ \E marker \in BOOLEAN : ring' = Append(ring, [ts |-> clock, marker |-> marker])
       \/ clock < MaxClock /\ clock' = clock + 1 /\ UNCHANGED ring
    /\ UNCHANGED <<mode, next, lastSeen, collecting, markers, reported, fellBack, untimed>>

Collect ==
    /\ ~collecting
    /\ collecting' = TRUE /\ markers' = {}
    /\ UNCHANGED <<kernelVars, mode, next, lastSeen, reported, fellBack, untimed>>

return(all) ==
    /\ collecting' = FALSE /\ markers' = {}
    /\ reported' = [i \in DOMAIN reported |->
                      IF i \in all /\ reported[i] < 2 THEN reported[i] + 1 ELSE reported[i]]

-----------------------------------------------------------------------------
matched(known, i) == known \union {k \in {i} : ring[k].marker}

ReadRecord ==
    /\ collecting /\ mode = "kmsg"
    /\ next \in oldestKept .. Len(ring)
    /\ markers' = matched(markers, next)
    /\ next' = next + 1
    /\ UNCHANGED <<kernelVars, mode, lastSeen, collecting, reported, fellBack, untimed>>

(* faulty: a sample whose time is up returns nothing *)
found_Dropped == {}

found == markers

(* EAGAIN at the end of the log, or the deadline of the sample before it.   *)
StopReading ==
    /\ collecting /\ mode = "kmsg"
    /\ return(found)
    /\ UNCHANGED <<kernelVars, mode, next, lastSeen, fellBack, untimed>>

(* faulty: the fallback begins with all that dmesg shows *)
fallbackFrom_Start == 0

fallbackFrom == clock

(* Any other error: EPIPE when the ring has overrun the reader, or a device *)
(* that fails.  What was read is returned, what was not is left behind.     *)
ReadFails ==
    /\ collecting /\ mode = "kmsg"
    /\ mode' = "dmesg"
    /\ lastSeen' = fallbackFrom /\ fellBack' = clock
    /\ return(found)
    /\ UNCHANGED <<kernelVars, next, untimed>>

-----------------------------------------------------------------------------
(* Whether ParseDmesgOutput keeps the line: one without a time always.      *)
isNew(i, iso) == ~iso \/ ring[i].ts > lastSeen

newMarkers(iso) == {i \in oldestKept .. Len(ring) : ring[i].marker /\ isNew(i, iso)}

(* A line without a time counts as of now. *)
seenUpTo(new, iso) ==
    IF new = {} THEN lastSeen ELSE IF iso THEN ring[Max(new)].ts ELSE clock

(* runDmesg asks for ISO times every time, and falls back for that call.    *)
ReadDmesg(iso) ==
    /\ collecting /\ mode = "dmesg"
    /\ lastSeen' = seenUpTo(newMarkers(iso), iso)
    /\ untimed' = untimed \union {t \in {clock} : ~iso /\ newMarkers(iso) # {}}
    /\ return(newMarkers(iso))
    /\ UNCHANGED <<kernelVars, mode, next, fellBack>>

(* dmesg cannot be run: no markers and no error. *)
DmesgFails ==
    /\ collecting /\ mode = "dmesg"
    /\ return({})
    /\ UNCHANGED <<kernelVars, mode, next, lastSeen, fellBack, untimed>>

Next ==
    \/ Kernel \/ Collect \/ ReadRecord \/ StopReading \/ ReadFails
    \/ (\E iso \in BOOLEAN : ReadDmesg(iso)) \/ DmesgFails

Spec == Init /\ [][Next]_vars

-----------------------------------------------------------------------------
(* "each Collect only reads kernel messages emitted since the previous      *)
(* call" (dmesg_linux.go:22): an event is reported once, also across the    *)
(* change from the device to dmesg, unless it was logged before a dmesg     *)
(* that printed no times.                                                   *)
TimedEventsOnce ==
    \A i \in DOMAIN ring : reported[i] <= 1 \/ \E t \in untimed : ring[i].ts <= t

(* As above for every dmesg: "returning only lines newer than after"        *)
(* (parse.go:16).                                                           *)
EventsOnce == \A i \in DOMAIN reported : reported[i] <= 1

(* An event is missed only for a reason the design accepts: the kernel has  *)
(* forgotten it, it was logged before the fallback began, or in the same    *)
(* instant as one already reported or as a dmesg without times.  A reader   *)
(* that keeps its device, or is cut short by deadlines, misses none.        *)
MissedForAReason ==
    \A i \in DOMAIN ring : (ring[i].marker /\ reported[i] = 0) =>
        IF mode = "kmsg"
        THEN i >= next \/ (collecting /\ i \in markers)
        ELSE \/ i < oldestKept \/ ring[i].ts > lastSeen \/ ring[i].ts <= fellBack
             \/ ring[i].ts \in untimed
             \/ \E j \in DOMAIN ring : ring[j].ts = ring[i].ts /\ reported[j] > 0
=============================================================================
