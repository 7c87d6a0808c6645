---------------------------- MODULE MC_RuleCache ----------------------------
(* TLC's instance of RuleCache: no GPU, one or three, with the few values   *)
(* of each signal that the rules tell apart.                                *)
EXTENDS RuleCache

Sig(u, c, t, a, k, th, p) == [uncorrectable |-> u, correctable |-> c, total |-> t,
                           active |-> a, crc |-> k, thermal |-> th, power |-> p]

NoLinks == Sig(1, 0, 0, 0, 0, 0, 0)
Linking == {Sig(u, 0, 2, a, k, 0, p) : u, p \in 0..1, a \in 1..2, k \in 0..2}
Idle == Sig(0, 1, 2, 2, 0, 1, 0)
Hot == {Sig(0, 0, 2, a, 0, th, 0) : a \in 1..2, th \in {0, 5}}

Fleet == {NoSignals}
           \union {<<s>> : s \in Linking \union {NoLinks}}
           \union {<<s, Idle, h>> : s \in {Sig(0, 0, 2, 1, k, 1, 0) : k \in 0..1}, h \in Hot}
=============================================================================
