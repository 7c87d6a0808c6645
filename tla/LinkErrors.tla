----------------------------- MODULE LinkErrors -----------------------------
(***************************************************************************)
(* The TUI's NVLink table and its session error totals (cmd/gputui/tui.go, *)
(* updateNVLink and buildErrorsSeen).  sigs maps the index of each GPU     *)
(* that has health signals to [total, active, crc, eccU, eccC, remap].     *)
(***************************************************************************)
EXTENDS Integers, FiniteSets

VARIABLES
    prevCRC,       \* the CRC counter last seen, per GPU
    nvlinkCache,   \* the table: links, active links and status, per GPU
    errorStats     \* per GPU: CRC growth, current ECC counts, remap seen

linkVars == <<prevCRC, nvlinkCache, errorStats>>

NoEntries == <<>>

Init == prevCRC = NoEntries /\ nvlinkCache = NoEntries /\ errorStats = NoEntries

linked(sigs) == {g \in DOMAIN sigs : sigs[g].total > 0}

(* faulty: a counter seen for the first time counts from zero *)
growth_FromZero(sigs, g) ==
    LET prev == IF g \in DOMAIN prevCRC THEN prevCRC[g] ELSE 0
    IN  IF sigs[g].crc > prev THEN sigs[g].crc - prev ELSE 0

growth(sigs, g) ==
    IF g \in DOMAIN prevCRC /\ sigs[g].crc > prevCRC[g] THEN sigs[g].crc - prevCRC[g] ELSE 0

status(sigs, g) ==
    IF sigs[g].total > sigs[g].active THEN "down"
    ELSE IF growth(sigs, g) > 0 THEN "crc" ELSE "ok"

noErrors == [crc |-> 0, eccU |-> 0, eccC |-> 0, remap |-> FALSE]

errorsOf(g) == IF g \in DOMAIN errorStats THEN errorStats[g] ELSE noErrors

(* faulty: the total is replaced by the last growth *)
accumulated_Replaced(sigs, g) ==
    [crc |-> growth(sigs, g), eccU |-> sigs[g].eccU, eccC |-> sigs[g].eccC,
     remap |-> errorsOf(g).remap \/ sigs[g].remap]

accumulated(sigs, g) ==
    [crc |-> errorsOf(g).crc + growth(sigs, g), eccU |-> sigs[g].eccU, eccC |-> sigs[g].eccC,
     remap |-> errorsOf(g).remap \/ sigs[g].remap]

(* The map m with the entries of new in it. *)
updated(m, new) ==
    [g \in DOMAIN m \union DOMAIN new |-> IF g \in DOMAIN new THEN new[g] ELSE m[g]]

(* A snapshot without signals, or in which no GPU has a link, changes       *)
(* nothing; otherwise the counters of all GPUs are remembered, those read   *)
(* without links included.                                                  *)
updateNVLink(sigs) ==
    \/ linked(sigs) = {} /\ UNCHANGED linkVars
    \/ /\ linked(sigs) # {}
       /\ nvlinkCache' = [g \in linked(sigs) |->
              [total |-> sigs[g].total, active |-> sigs[g].active, status |-> status(sigs, g)]]
       /\ errorStats' = updated(errorStats, [g \in linked(sigs) |-> accumulated(sigs, g)])
       /\ prevCRC' = updated(prevCRC, [g \in DOMAIN sigs |-> sigs[g].crc])

(* The lines of the "Errors Seen" column: a kind of error and a GPU.        *)
lineShows(kind, e) ==
    \/ kind = "ecc uncorrectable" /\ e.eccU > 0
    \/ kind = "remap pending" /\ e.remap
    \/ kind = "crc" /\ e.crc > 0
    \/ kind = "ecc correctable" /\ e.eccC > 0

errorsSeen ==
    {x \in {"ecc uncorrectable", "remap pending", "crc", "ecc correctable"} \X DOMAIN errorStats :
        lineShows(x[1], errorStats[x[2]])}
=============================================================================
