----------------------------- MODULE RingBuffer -----------------------------
(***************************************************************************)
(* The fixed-size ring behind the charts (cmd/gputui/sparkline.go): an     *)
(* array, the slot of the next write and how many slots are filled.  A     *)
(* ring is a value here; TuiModel keeps one per GPU.                       *)
(***************************************************************************)
EXTENDS Integers, Sequences

CONSTANTS
    Cap,       \* the capacity (300 in newGPUHistory)
    Samples    \* the values pushed; 0 is among them

Slots == 0 .. Cap - 1

Rings == [data : [Slots -> Samples], head : Slots, size : 0 .. Cap]

newRingBuffer == [data |-> [i \in Slots |-> 0], head |-> 0, size |-> 0]

(* faulty: the head does not wrap *)
Push_NoWrap(r, v) ==
    [data |-> [r.data EXCEPT ![r.head] = v], head |-> r.head + 1,
     size |-> IF r.size < Cap THEN r.size + 1 ELSE r.size]

Push(r, v) ==
    [data |-> [r.data EXCEPT ![r.head] = v],
     head |-> (r.head + 1) % Cap,
     size |-> IF r.size < Cap THEN r.size + 1 ELSE r.size]

(* faulty: the walk starts at the head, as if the window were the ring *)
LastNInto_FromHead(r, n) ==
    LET count == IF r.size > n THEN n ELSE r.size
    IN  [i \in 1 .. count |-> r.data[(r.head + i - 1) % Cap]]

(* The most recent n samples, oldest first; LastN returns the same.         *)
LastNInto(r, n) ==
    LET count == IF r.size > n THEN n ELSE r.size
        start == (r.head - count + Cap) % Cap
    IN  [i \in 1 .. count |-> r.data[(start + i - 1) % Cap]]

Values(r) == LastNInto(r, r.size)

Last(r) == IF r.size = 0 THEN 0 ELSE r.data[(r.head - 1 + Cap) % Cap]
=============================================================================
