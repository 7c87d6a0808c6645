------------------------------- MODULE MC_Tui -------------------------------
(* TLC's instance of TuiModel.  Each kind of session varies one aspect of    *)
(* the snapshots, over all orders in which the answers can arrive, or the    *)
(* user's inputs over a few snapshots.                                       *)
EXTENDS TuiModel, TLC

gpu(u, t, c) == [util |-> u, temp |-> t, clock |-> c]
link(total, active, crc) ==
    [total |-> total, active |-> active, crc |-> crc, eccU |-> 0, eccC |-> 0, remap |-> FALSE]
warnings(names) == {[name |-> n, sev |-> "warning"] : n \in names}
snap(ts, gpus, nProcs, hints, signals, swap) ==
    [ts |-> ts, gpus |-> gpus, procs |-> 1 .. nProcs, hints |-> hints, signals |-> signals, swap |-> swap]
gpus(n) == [g \in 1 .. n |-> gpu(1, g, g)]

(* Severities that rise and fall, and more hints than the history holds. *)
HintSets == {warnings({"a"}) \union {[name |-> "a", sev |-> "critical"]}, warnings({"a", "b"}),
             {[name |-> "c", sev |-> "critical"]}, warnings({"a", "b", "c"})}
HintSessions == [kind : {"hints"}, of : [1 .. 4 -> HintSets]]
HintScript(s) == [i \in 1 .. 4 |-> snap(i, <<>>, 0, s.of[i], <<>>, 0)]

(* GPU 0: a counter that grows, or falls once, and whose links cannot always *)
(* be read (9).  GPU 1: links that work, one of them down, or none.          *)
Counters == {c \in [1 .. 4 -> {0, 1, 3, 9}] :
                \A i, j \in 1 .. 4 : i < j /\ c[j] # 9 => c[i] \in {9} \union 0 .. c[j]}
              \union {<<1, 3, 0, 1>>}
LinkSessions == [kind : {"links"}, crc : Counters, other : {0, 2}]
LinkScript(s) == [i \in 1 .. 4 |-> snap(i, <<>>, 0, {},
    <<IF s.crc[i] = 9 THEN link(0, 0, 0) ELSE link(2, 2, s.crc[i]), link(s.other, 1, 0)>>, 0)]

(* Rings of two samples; the second GPU comes and goes. *)
TrendSessions == [kind : {"trends"}, two : [1 .. 4 -> BOOLEAN]]
TrendScript(s) == [i \in 1 .. 4 |-> snap(i,
    <<gpu(i % 3, i % 3, 4 - i)>> \o (IF s.two[i] THEN <<gpu(1, 2, 2)>> ELSE <<>>), 0, {}, <<>>, 0)]

(* All keys over lists that shrink; scrolling in a long list. *)
KeySessions == [kind : {"keys"}]
KeyScript == <<snap(1, gpus(2), 3, warnings({"a", "b", "c"}), <<>>, 0), snap(2, gpus(1), 1, warnings({"d"}), <<>>, 0)>>
ScrollSessions == [kind : {"scroll"}]
ScrollScript == <<snap(1, gpus(10), 0, {}, <<>>, 0), snap(2, gpus(9), 0, {}, <<>>, 0)>>

(* What the layout depends on. *)
LayoutSessions == [kind : {"layout"}, gpus : {1, 7, 8, 9}, procs : {0, 2, 10},
                   hints : {{}, {"a"}, {"a", "b", "c", "d"}}, swap : 0 .. 1]
LayoutScript(s) == <<snap(1, gpus(s.gpus), s.procs, warnings(s.hints), <<link(2, 2, 0)>>, s.swap)>>

AllSessions == HintSessions \union LinkSessions \union TrendSessions \union KeySessions
                 \union ScrollSessions \union LayoutSessions

SessionScript(s) ==
    CASE s.kind = "hints" -> HintScript(s) [] s.kind = "links" -> LinkScript(s)
      [] s.kind = "trends" -> TrendScript(s) [] s.kind = "keys" -> KeyScript
      [] s.kind = "scroll" -> ScrollScript [] s.kind = "layout" -> LayoutScript(s)
SessionKeys(s) ==
    IF s.kind = "keys" THEN AllKeys ELSE IF s.kind = "scroll" THEN MoveKeys ELSE {}
SessionSizes(s) ==
    IF s.kind = "keys" THEN {<<120, 30>>}
    ELSE IF s.kind = "layout" THEN {80, 120} \X {20, 36, 39, 40, 42, 43, 44, 47, 48, 52, 59, 60, 100}
    ELSE {}
SessionInputs(s) ==
    IF s.kind = "keys" THEN 4 ELSE IF s.kind = "scroll" THEN 10 ELSE IF s.kind = "layout" THEN 1 ELSE 0
=============================================================================
