----------------------------- MODULE HintHistory -----------------------------
(***************************************************************************)
(* The TUI's list of every hint seen in a session (cmd/gputui/tui.go,      *)
(* mergeHintHistory and capHintHistory): one entry per name, kept in order *)
(* of arrival, at most MaxHintHistory of them.                             *)
(***************************************************************************)
EXTENDS Integers, Sequences, SequencesExt

CONSTANT MaxHintHistory

VARIABLE hintHistory

severityRank(sev) == CASE sev = "critical" -> 0 [] sev = "warning" -> 1 [] OTHER -> 2

(* The most severe hint of each name, by rank. *)
best(hints) ==
    [n \in {h.name : h \in hints} |->
        Min({severityRank(h.sev) : h \in {x \in hints : x.name = n}})]

(* faulty: a hint seen again takes the severity it has now *)
seenAgain_Latest(e, rank, ts) ==
    [e EXCEPT !.last = ts, !.count = @ + 1, !.active = TRUE, !.rank = rank]

seenAgain(e, rank, ts) ==
    [e EXCEPT !.last = ts, !.count = @ + 1, !.active = TRUE, !.rank = Min({@, rank})]

newEntry(n, rank, ts) ==
    [name |-> n, rank |-> rank, first |-> ts, last |-> ts, count |-> 1, active |-> TRUE]

(* The first of the entries S seen longest ago. *)
oldest(h, S) ==
    CHOOSE i \in S : \A j \in S : \/ h[i].last < h[j].last
                                  \/ h[i].last = h[j].last /\ i <= j

(* faulty: the oldest entry goes, active or not *)
victim_AnyOldest(h) == oldest(h, DOMAIN h)

victim(h) ==
    LET inactive == {i \in DOMAIN h : ~h[i].active}
    IN  oldest(h, IF inactive # {} THEN inactive ELSE DOMAIN h)

(* One entry after the other is dropped until the list fits. *)
capHintHistory(h) ==
    LET dropped[n \in 0 .. Len(h)] ==
            IF n = 0 THEN h ELSE RemoveAt(dropped[n - 1], victim(dropped[n - 1]))
    IN  dropped[Max({0, Len(h) - MaxHintHistory})]

Init == hintHistory = <<>>

(* Hints new to the list are appended in Go's map order, which is any.      *)
mergeHintHistory(ts, hints) ==
    LET b == best(hints)
        known == {hintHistory[i].name : i \in DOMAIN hintHistory}
        marked == [i \in DOMAIN hintHistory |->
                      LET e == hintHistory[i]
                      IN  IF e.name \in DOMAIN b THEN seenAgain(e, b[e.name], ts)
                                                 ELSE [e EXCEPT !.active = FALSE]]
    IN  \E new \in SetToSeqs(DOMAIN b \ known) :
            hintHistory' = capHintHistory(marked \o [k \in DOMAIN new |-> newEntry(new[k], b[new[k]], ts)])
=============================================================================
