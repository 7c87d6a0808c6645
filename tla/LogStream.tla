------------------------------ MODULE LogStream ------------------------------
(***************************************************************************)
(* What sampling promises about kernel log events (GPU Xid errors and OOM  *)
(* kills): an event that happened is put into a snapshot, once, or - only  *)
(* if lossy - is dropped.  Nothing is said of how samples are collected.   *)
(***************************************************************************)
EXTENDS Naturals

CONSTANT Events   \* the kernel log events

VARIABLES
    lossy,    \* whether sampling may drop an event it has read
    fate

vars == <<lossy, fate>>

Fates == {"future", "pending", "delivered", "lost"}

Init == lossy \in BOOLEAN /\ fate = [e \in Events |-> "future"]

Happen(e) ==
    /\ fate[e] = "future"
    /\ fate' = [fate EXCEPT ![e] = "pending"]

Settle(S, as) ==
    /\ \A e \in S : fate[e] = "pending"
    /\ fate' = [e \in Events |-> IF e \in S THEN as ELSE fate[e]]

Deliver(S) == Settle(S, "delivered")

Drop(S) == lossy /\ Settle(S, "lost")

Next ==
    /\ UNCHANGED lossy
    /\ \/ \E e \in Events : Happen(e)
       \/ \E S \in SUBSET Events : Deliver(S) \/ Drop(S)

Spec ==
    /\ Init
    /\ [][Next]_vars
    /\ \A e \in Events :
         WF_vars(UNCHANGED lossy /\ \E S \in SUBSET Events : e \in S /\ (Deliver(S) \/ Drop(S)))
=============================================================================
