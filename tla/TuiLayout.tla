------------------------------ MODULE TuiLayout ------------------------------
(***************************************************************************)
(* How many rows the TUI draws (cmd/gputui/tui.go): the panels' caps, the  *)
(* part of a list that is visible, and the decision to draw the charts.    *)
(* v counts what a view shows: gpus, procs, hints (unique names), past     *)
(* (hint history), links and errors (the NVLink column), swap (0 or 1),    *)
(* and the terminal's width and height.                                    *)
(***************************************************************************)
EXTENDS Integers, FiniteSetsExt

least(a, b) == Min({a, b})
most(a, b) == Max({a, b})

gpuPanelCap == 8

(* What the four height classes give; 0 is "not known yet".                 *)
byHeight(h, low, mid, high, full) ==
    IF h <= 0 \/ h >= 60 THEN full ELSE IF h < 40 THEN low ELSE IF h < 48 THEN mid ELSE high

procPanelCap(h) == byHeight(h, 2, 4, 6, 8)
activeCap(h) == byHeight(h, 2, 3, 4, 5)
historyCap(h) == byHeight(h, 2, 3, 5, 8)

(* The first visible row of a list with the cursor on row cursor.           *)
offset(cursor, rows, cap) ==
    LET visible == least(rows, cap) IN IF cursor >= visible THEN cursor - visible + 1 ELSE 0

lastVisible(cursor, rows, cap) ==
    least(offset(cursor, rows, cap) + least(rows, cap), rows) - 1

more(rows, cap) == IF rows > cap THEN 1 ELSE 0

sideBySide(v) == v.width >= 100

headerRows == 1
footerRows == 2

(* Separator, title, column header, GPUs and the scroll line, or the six    *)
(* lines of the session statistics beside them.                             *)
gpuRows(v) ==
    LET left == 2 + least(v.gpus, 8) + more(v.gpus, 8)
    IN  1 + IF sideBySide(v) THEN most(left, 6) ELSE left

nvlinkRows(v) ==
    IF v.links = 0 THEN 0
    ELSE most(1 + (v.links + 1) \div 2, IF v.errors = 0 THEN 0 ELSE 1 + v.errors)

hostRows(v) ==
    LET left == 4 + v.swap
    IN  1 + IF sideBySide(v) THEN most(left, nvlinkRows(v)) ELSE left

procRows(v) ==
    IF v.procs = 0 THEN 0
    ELSE 3 + least(v.procs, procPanelCap(v.height)) + more(v.procs, procPanelCap(v.height))

listRows(rows, cap) == 1 + least(rows, cap) + more(rows, cap)

hintRows(v) ==
    LET left == listRows(v.hints, activeCap(v.height))
        right == listRows(v.past, historyCap(v.height))
    IN  1 + IF sideBySide(v) THEN most(left, right) ELSE left + right

(* faulty: the process table's header is forgotten *)
overhead_NoProcHeader(v) ==
    headerRows + (3 + gpuPanelCap) + 5 + footerRows
      + (IF v.procs > 0 THEN least(v.procs, procPanelCap(v.height)) + 1 ELSE 0)
      + most(1 + (IF v.hints > 0 THEN least(v.hints, activeCap(v.height)) + 1 ELSE 0),
             1 + (IF v.past > 0 THEN least(v.past, historyCap(v.height)) + 1 ELSE 0)) + 1
      + 3

(* viewCharts' own estimate of the rows above and below the charts.         *)
overhead(v) ==
    headerRows + (3 + gpuPanelCap) + 5 + footerRows
      + (IF v.procs > 0 THEN 3 + least(v.procs, procPanelCap(v.height)) + 1 ELSE 0)
      + most(1 + (IF v.hints > 0 THEN least(v.hints, activeCap(v.height)) + 1 ELSE 0),
             1 + (IF v.past > 0 THEN least(v.past, historyCap(v.height)) + 1 ELSE 0)) + 1
      + 3

termH(v) == IF v.height <= 0 THEN 40 ELSE v.height

chartContentRows(v) == termH(v) - overhead(v)

chartsDrawn(v) == v.gpus > 0 /\ chartContentRows(v) >= v.gpus

chartRows(v) ==
    IF chartsDrawn(v) THEN 3 + v.gpus * least(4, chartContentRows(v) \div v.gpus) ELSE 0

(* View ends with a newline and syncEnd, which is a line for the renderer.   *)
endRows == 1

rowsOf(v) ==
    headerRows + gpuRows(v) + hostRows(v) + procRows(v) + hintRows(v) + chartRows(v)
      + footerRows + endRows

(* Of a view that is too tall the renderer leaves out the lines at the top.  *)
cutRows(v) == most(0, rowsOf(v) - termH(v))
=============================================================================
