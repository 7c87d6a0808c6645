------------------------------- MODULE TuiModel -------------------------------
(***************************************************************************)
(* The terminal UI's Bubble Tea model (cmd/gputui/tui.go): Update, its     *)
(* three messages and the key bindings, and what View shows of the result. *)
(* A tick starts a fetch in a goroutine of its own and arms the next tick; *)
(* answers arrive in any order.  The composition of HintHistory,           *)
(* LinkErrors, RingBuffer and TuiLayout.                                   *)
(*                                                                         *)
(* A session fixes what the node measures, as the sequence of snapshots    *)
(* its fetches return, and which inputs the user may give.  A snapshot is  *)
(* a record of ts, gpus (a sequence of util, temp, clock), procs (a set),  *)
(* hints (a set of [name, sev]), signals (see LinkErrors) and swap.        *)
(***************************************************************************)
EXTENDS Integers, Sequences, FiniteSets, SequencesExt

CONSTANTS
    Sessions,         \* the sessions to explore
    Script(_),        \* the snapshots the node has for the fetches of a session
    Keys(_), Sizes(_), Inputs(_),   \* the keys and sizes used in it, and how often
    MaxHintHistory,   \* maxHintHistory
    Cap,              \* capacity of the chart rings
    Samples           \* utilisation values

MoveKeys == {"down", "up"}
PanelKeys == [g |-> "gpu", p |-> "proc", h |-> "hints", H |-> "history", c |-> "charts"]
AllKeys == {"quit", "help", "enter", "space", "tab", "sort", "zoom"} \union MoveKeys \union DOMAIN PanelKeys

(* What a session's snapshots are: times, counters and measurements are     *)
(* numbers, lists are finite, a GPU's samples are among Samples, and a GPU  *)
(* without links has no link errors (collectNVLinkHealth).                  *)
IsSnapshot(s) ==
    /\ s.ts \in Nat /\ s.swap \in 0 .. 1
    /\ s.gpus \in Seq([util : Samples, temp : Int, clock : Int])
    /\ IsFiniteSet(s.procs) /\ IsFiniteSet(s.hints)
    /\ IsFiniteSet(DOMAIN s.signals)
    /\ \A g \in DOMAIN s.signals :
         /\ s.signals[g].total \in Nat /\ s.signals[g].crc \in Nat
         /\ s.signals[g].total = 0 => s.signals[g].crc = 0

ASSUME TuiAssumption ==
    /\ MaxHintHistory \in Nat \ {0} /\ Cap \in Nat \ {0} /\ 0 \in Samples
    /\ \A s \in Sessions :
         /\ Script(s) \in Seq(Range(Script(s))) /\ Script(s) # <<>>
         /\ \A i \in DOMAIN Script(s) : IsSnapshot(Script(s)[i])
         /\ Keys(s) \subseteq AllKeys /\ Sizes(s) \subseteq Int \X Int /\ Inputs(s) \in Nat

VARIABLES
    session,       \* the session, fixed
    inputs,        \* bound: keys and resizes left
    fetched,       \* fetches started
    inFlight,      \* fetches not answered yet
    armed,         \* a tick is scheduled
    ui,            \* the fields keys change
    snapshot,      \* the fetch whose snapshot is shown, 0 for none
    err, ready,
    hintHistory, prevCRC, nvlinkCache, errorStats,  \* see the instances below
    history,       \* utilisation ring per GPU, as the four others
    sessionStats,
    memo,          \* the memoised sorted lists and their versions
    applied        \* history: the answers applied, in order

Hist == INSTANCE HintHistory
Links == INSTANCE LinkErrors
Ring == INSTANCE RingBuffer
Layout == INSTANCE TuiLayout

linkVars == <<prevCRC, nvlinkCache, errorStats>>
shownVars == <<snapshot, err, ready, hintHistory, linkVars, history, sessionStats, applied>>
fetchVars == <<fetched, inFlight, armed>>
vars == <<session, inputs, fetchVars, ui, shownVars, memo>>

Panels == <<"gpu", "proc", "hints", "history", "charts">>
SortFields == <<"util", "vram", "pid">>
ZoomLevels == 3
NoHint == [name |-> "none", rank |-> 3]

after(list, x) ==
    LET i == CHOOSE i \in DOMAIN list : list[i] = x IN list[(i % Len(list)) + 1]

script == Script(session)

(* What is shown: the snapshot's content, or an empty one.                  *)
NoSnapshot == [ts |-> 0, gpus |-> <<>>, procs |-> {}, hints |-> {}, signals |-> <<>>, swap |-> 0]
shown == IF snapshot = 0 THEN NoSnapshot ELSE script[snapshot]

NoStats == [peak |-> 0, peakGPU |-> 0, min |-> 0, minGPU |-> 0, count |-> 0, initialized |-> FALSE]

sortedBy(s, field) == [procs |-> s.procs, field |-> field]

Init ==
    /\ session \in Sessions /\ inputs = Inputs(session)
    /\ fetched = 1 /\ inFlight = {1} /\ armed = TRUE
    /\ ui = [paused |-> FALSE, showHelp |-> FALSE, hintDetail |-> NoHint, quitting |-> FALSE,
             activePanel |-> "gpu", sortField |-> "util", chartZoom |-> 1,
             cursor |-> [p \in {"gpu", "proc", "hints", "history"} |-> 0],
             width |-> 0, height |-> 0]
    /\ snapshot = 0 /\ err = FALSE /\ ready = FALSE
    /\ Hist!Init /\ Links!Init
    /\ history = <<>> /\ sessionStats = NoStats
    /\ memo = [dataVersion |-> 0, procsVersion |-> 0, procs |-> sortedBy(NoSnapshot, "util"),
               historyVersion |-> 0, history |-> <<>>]
    /\ applied = <<>>

-----------------------------------------------------------------------------
(* Ticks and answers *)

(* faulty: a tick that finds the display paused arms no other *)
rearm_Unpaused == ~ui.paused

rearm == TRUE

fetches == ~ui.paused

(* tickMsg.  The scripts' length bounds the fetches. *)
Tick ==
    /\ ~ui.quitting /\ armed
    /\ armed' = rearm
    /\ \/ ~fetches /\ UNCHANGED <<fetched, inFlight>>
       \/ /\ fetches /\ fetched < Len(script)
          /\ fetched' = fetched + 1
          /\ inFlight' = inFlight \union {fetched + 1}
    /\ UNCHANGED <<session, inputs, ui, shownVars, memo>>

pushed(s, g) ==
    Ring!Push(IF g \in DOMAIN history THEN history[g] ELSE Ring!newRingBuffer, s.gpus[g].util)

(* faulty: the minimum starts at zero *)
withGPU_ZeroMin(s, g, st) ==
    LET x == s.gpus[g]
    IN  [st EXCEPT !.peak = Layout!most(@, x.temp), !.peakGPU = IF x.temp > st.peak THEN g ELSE @,
                   !.min = Layout!least(@, x.clock), !.minGPU = IF x.clock < st.min THEN g ELSE @,
                   !.count = @ + 1, !.initialized = TRUE]

(* One GPU of a snapshot, in updateSessionStats. *)
withGPU(s, g, st) ==
    LET x == s.gpus[g]
        st0 == IF st.initialized THEN st
               ELSE [peak |-> x.temp, peakGPU |-> g, min |-> x.clock, minGPU |-> g,
                     count |-> 0, initialized |-> TRUE]
    IN  [st0 EXCEPT !.peak = Layout!most(@, x.temp),
                    !.peakGPU = IF x.temp > st0.peak THEN g ELSE @,
                    !.min = Layout!least(@, x.clock),
                    !.minGPU = IF x.clock < st0.min THEN g ELSE @,
                    !.count = @ + 1]

(* updateSessionStats: one GPU after the other. *)
updatedStats(s) ==
    LET upTo[k \in 0 .. Len(s.gpus)] == IF k = 0 THEN sessionStats ELSE withGPU(s, k, upTo[k - 1])
    IN  upTo[Len(s.gpus)]

pushHistory(s) ==
    /\ history' = [g \in DOMAIN history \union DOMAIN s.gpus |->
                      IF g \in DOMAIN s.gpus THEN pushed(s, g) ELSE history[g]]
    /\ sessionStats' = updatedStats(s)

(* faulty: the cursor keeps its row *)
clamped_Not(cursor, s) == cursor

clamped(cursor, s) ==
    [cursor EXCEPT !["proc"] = Layout!least(@, Layout!most(0, Cardinality(s.procs) - 1)),
                   !["gpu"] = Layout!least(@, Layout!most(0, Cardinality(DOMAIN s.gpus) - 1))]

(* dataVersion++ and refreshSortCaches. *)
refreshed(s, field, hist) ==
    LET v == memo.dataVersion + 1
    IN  [dataVersion |-> v, procsVersion |-> v, procs |-> sortedBy(s, field),
         historyVersion |-> v, history |-> hist]

(* snapshotMsg with a snapshot: the answer to fetch n. *)
Answer(n) ==
    LET s == script[n]
    IN  /\ ~ui.quitting /\ n \in inFlight
        /\ inFlight' = inFlight \ {n}
        /\ snapshot' = n /\ err' = FALSE /\ ready' = TRUE
        /\ pushHistory(s)
        /\ Hist!mergeHintHistory(s.ts, s.hints)
        /\ Links!updateNVLink(s.signals)
        /\ ui' = [ui EXCEPT !.cursor = clamped(@, s)]
        /\ memo' = refreshed(s, ui.sortField, hintHistory')
        /\ applied' = Append(applied, n)
        /\ UNCHANGED <<session, inputs, fetched, armed>>

(* snapshotMsg with an error: the last snapshot stays behind the message. *)
AnswerError(n) ==
    /\ ~ui.quitting /\ n \in inFlight
    /\ inFlight' = inFlight \ {n}
    /\ err' = TRUE /\ ready' = FALSE
    /\ UNCHANGED <<session, inputs, fetched, armed, ui, snapshot, hintHistory, linkVars,
                   history, sessionStats, applied, memo>>

(* WindowSizeMsg *)
Resize(w, h) ==
    /\ ui' = [ui EXCEPT !.width = w, !.height = h]
    /\ UNCHANGED memo

-----------------------------------------------------------------------------
(* The lists the cursors move in, and what is under them *)

uniqueHints == DOMAIN Hist!best(shown.hints)

rows == [gpu |-> Cardinality(DOMAIN shown.gpus), proc |-> Cardinality(shown.procs),
         hints |-> Cardinality(uniqueHints), history |-> Len(hintHistory)]

cap == [gpu |-> Layout!gpuPanelCap, proc |-> Layout!procPanelCap(ui.height),
        hints |-> Layout!activeCap(ui.height), history |-> Layout!historyCap(ui.height)]

(* View clamps the hint cursors; Update has clamped the two others.         *)
row(p) ==
    IF p \in {"hints", "history"} THEN Layout!least(ui.cursor[p], Layout!most(0, rows[p] - 1))
    ELSE ui.cursor[p]

sortedHistory ==
    IF memo.historyVersion = memo.dataVersion /\ Len(memo.history) = Len(hintHistory)
    THEN memo.history ELSE hintHistory

sortedProcs ==
    IF memo.procsVersion = memo.dataVersion /\ Cardinality(memo.procs.procs) = rows["proc"]
    THEN memo.procs ELSE sortedBy(shown, ui.sortField)

(* Whether x can stand on row i of S sorted by Before; ties are in any order. *)
standsOn(x, S, i, Before(_, _)) ==
    /\ Cardinality({y \in S : Before(y, x)}) <= i
    /\ i < Cardinality({y \in S : ~Before(x, y)})

moreSevere(a, b) == a.rank < b.rank
severeOrNewer(a, b) == a.rank < b.rank \/ (a.rank = b.rank /\ a.first > b.first)

(* The hints that may be under the cursor.  *)
cursoredHints ==
    LET active == {[name |-> n, rank |-> Hist!best(shown.hints)[n]] : n \in uniqueHints}
        past == {sortedHistory[i] : i \in DOMAIN sortedHistory}
    IN  IF ui.activePanel = "hints"
        THEN {x \in active : standsOn(x, active, row("hints"), moreSevere)}
        ELSE IF ui.activePanel = "history"
        THEN {[name |-> e.name, rank |-> e.rank] :
                 e \in {e \in past : standsOn(e, past, row("history"), severeOrNewer)}}
        ELSE {}

-----------------------------------------------------------------------------
(* Keys *)

moved(k) ==
    LET p == ui.activePanel
        c == ui.cursor[p]
    IN  IF p = "charts" THEN ui
        ELSE IF k = "up" THEN [ui EXCEPT !.cursor[p] = Layout!most(c - 1, 0)]
        ELSE IF p \in {"hints", "history"} THEN [ui EXCEPT !.cursor[p] = c + 1]
        ELSE IF rows[p] = 0 THEN ui
        ELSE [ui EXCEPT !.cursor[p] = Layout!least(c + 1, rows[p] - 1)]

(* What a key without effect on the lists makes of the fields.              *)
pressed(k) ==
    CASE k = "quit" -> [ui EXCEPT !.quitting = TRUE]
      [] k = "help" -> [ui EXCEPT !.showHelp = TRUE]
      [] k = "space" -> [ui EXCEPT !.paused = ~@]
      [] k = "tab" -> [ui EXCEPT !.activePanel = after(Panels, @)]
      [] k \in DOMAIN PanelKeys -> [ui EXCEPT !.activePanel = PanelKeys[k]]
      [] k = "zoom" -> [ui EXCEPT !.chartZoom = (@ + 1) % ZoomLevels]
      [] k \in MoveKeys -> moved(k)

(* faulty: the processes keep the order of the old field until the next snapshot *)
resorted_Later(field) == memo

resorted(field) == refreshed(shown, field, hintHistory)

Sort ==
    LET field == after(SortFields, ui.sortField)
    IN  /\ ui' = [ui EXCEPT !.sortField = field]
        /\ memo' = resorted(field)

OpenDetail ==
    /\ \/ cursoredHints = {} /\ UNCHANGED ui
       \/ \E x \in cursoredHints : ui' = [ui EXCEPT !.hintDetail = x]
    /\ UNCHANGED memo

(* handleKey.  With the help open every key closes it, q too.               *)
handleKey(k) ==
    \/ /\ ui.showHelp
       /\ ui' = [ui EXCEPT !.showHelp = FALSE]
       /\ UNCHANGED memo
    \/ /\ ~ui.showHelp /\ ui.hintDetail # NoHint
       /\ ui' = [ui EXCEPT !.hintDetail = NoHint, !.quitting = (k = "quit")]
       /\ UNCHANGED memo
    \/ /\ ~ui.showHelp /\ ui.hintDetail = NoHint
       /\ \/ k = "sort" /\ Sort
          \/ k = "enter" /\ OpenDetail
          \/ k \notin {"sort", "enter"} /\ ui' = pressed(k) /\ UNCHANGED memo

User ==
    /\ ~ui.quitting /\ inputs > 0
    /\ inputs' = inputs - 1
    /\ \/ \E k \in Keys(session) : handleKey(k)
       \/ \E s \in Sizes(session) : Resize(s[1], s[2])
    /\ UNCHANGED <<session, fetchVars, shownVars>>

Next ==
    \/ Tick
    \/ \E n \in inFlight : Answer(n) \/ AnswerError(n)
    \/ User

Spec == Init /\ [][Next]_vars

(* Timers fire.  No fetch need ever be answered. *)
FairSpec == Spec /\ WF_vars(Tick)

-----------------------------------------------------------------------------
at(i) == script[applied[i]]
listed(h) == {h[i].name : i \in DOMAIN h}

TypeOK ==
    /\ session \in Sessions /\ inputs \in 0 .. Inputs(session)
    /\ fetched \in 1 .. Len(script) /\ inFlight \subseteq 1 .. fetched
    /\ armed \in BOOLEAN /\ err \in BOOLEAN /\ ready \in BOOLEAN
    /\ ~(err /\ ready) /\ (ready => snapshot # 0)
    /\ ui.activePanel \in {Panels[i] : i \in 1 .. 5}
    /\ ui.sortField \in {SortFields[i] : i \in 1 .. 3}
    /\ ui.chartZoom \in 0 .. ZoomLevels - 1
    /\ \A p \in DOMAIN ui.cursor : ui.cursor[p] \in Nat
    /\ ui.hintDetail \in [name : STRING, rank : 0 .. 3]
    /\ \A g \in DOMAIN history : history[g] \in Ring!Rings
    /\ memo.procsVersion <= memo.dataVersion /\ memo.historyVersion <= memo.dataVersion

(* The selected row of every list that is not empty is among the rows drawn, *)
(* whatever snapshots and resizes did to the list (the clamps of Update and  *)
(* View, and the window arithmetic of the four view functions).              *)
HighlightVisible ==
    \A p \in DOMAIN rows : rows[p] > 0 =>
        row(p) \in Layout!offset(row(p), rows[p], cap[p]) .. Layout!lastVisible(row(p), rows[p], cap[p])

(* What View takes from the memoised lists is what it would compute afresh:  *)
(* no change of the snapshot, the sort field or the history leaves them      *)
(* stale (refreshSortCaches and the versions).                               *)
TablesAreCurrent ==
    /\ sortedProcs = sortedBy(shown, ui.sortField)
    /\ sortedHistory = hintHistory

(* The history says of each hint what the applied snapshots said since the   *)
(* entry was made: how often, from when to when, whether the last one has    *)
(* it, and the worst severity, "never shadowed by a warning" (tui.go:422).   *)
HistoryIsFaithful ==
    /\ Cardinality(listed(hintHistory)) = Len(hintHistory)
    /\ \A i \in DOMAIN hintHistory :
         LET e == hintHistory[i]
             having == {k \in DOMAIN applied : e.name \in {h.name : h \in at(k).hints}}
             counted == {k \in having : Cardinality({l \in having : l > k}) < e.count}
         IN  /\ Cardinality(counted) = e.count
             /\ e.rank = Min({Hist!best(at(k).hints)[e.name] : k \in counted})
             /\ e.first = at(Min(counted)).ts /\ e.last = at(Max(having)).ts
             /\ e.active <=> Len(applied) \in having

(* The cap never hides a hint of the shown snapshot behind old ones: one is  *)
(* missing only when the list is full of hints as current (capHintHistory).  *)
CurrentHintsAreListed ==
    /\ Len(hintHistory) <= MaxHintHistory
    /\ \/ uniqueHints \subseteq listed(hintHistory)
       \/ /\ Len(hintHistory) = MaxHintHistory
          /\ \A i \in DOMAIN hintHistory : hintHistory[i].active

readAt(g) == {i \in DOMAIN applied : g \in Links!linked(at(i).signals)}
counter(g, i) == at(i).signals[g].crc
neverFalls(g) == \A i, j \in readAt(g) : i < j => counter(g, i) <= counter(g, j)

(* Every snapshot that changed the counters could read g's links. *)
alwaysRead(g) ==
    \A i \in DOMAIN applied :
        LET s == at(i).signals
        IN  (Links!linked(s) # {} /\ g \in DOMAIN s) => g \in Links!linked(s)

(* With the links read each time, and answers in an order in which the       *)
(* counter never falls, every CRC error of the session is counted once.      *)
(* Both conditions are needed: an older answer, or a read without links,     *)
(* lowers the remembered counter (updateNVLink).                             *)
(* In any order, and whatever reads failed, no CRC error is missed.          *)
ErrorTotalsAreExact ==
    \A g \in DOMAIN errorStats :
        LET grown == Max({counter(g, i) : i \in readAt(g)}) - counter(g, Min(readAt(g)))
        IN  /\ errorStats[g].crc >= grown
            /\ neverFalls(g) /\ alwaysRead(g) => errorStats[g].crc = grown

(* The snapshots that had GPU g, and the place of one of them from the last. *)
sampledAt(g) == {i \in DOMAIN applied : g \in DOMAIN at(i).gpus}
age(g, i) == Cardinality({j \in sampledAt(g) : j >= i})

windowsAreLatest ==
    \A g \in UNION {DOMAIN at(i).gpus : i \in DOMAIN applied} : \A n \in 0 .. Cap + 1 :
        LET w == Ring!LastNInto(history[g], n)
        IN  /\ g \in DOMAIN history
            /\ Len(w) = Layout!least(n, Layout!least(Cap, Cardinality(sampledAt(g))))
            /\ \A i \in sampledAt(g) :
                 /\ age(g, i) <= Len(w) => w[Len(w) - age(g, i) + 1] = at(i).gpus[g].util
                 /\ age(g, i) = 1 => Ring!Last(history[g]) = at(i).gpus[g].util

(* What the statistics are made of: a snapshot, by its place, and a GPU in it. *)
readings ==
    {x \in (DOMAIN applied) \X (UNION {DOMAIN at(i).gpus : i \in DOMAIN applied}) :
        x[2] \in DOMAIN at(x[1]).gpus}

statsAreExtremes ==
    LET temps == {at(x[1]).gpus[x[2]].temp : x \in readings}
        clocks == {at(x[1]).gpus[x[2]].clock : x \in readings}
    IN  IF readings = {} THEN sessionStats = NoStats
        ELSE /\ sessionStats.count = Cardinality(readings)
             /\ sessionStats.peak = Max(temps) /\ sessionStats.min = Min(clocks)
             /\ \E x \in readings : x[2] = sessionStats.peakGPU /\ at(x[1]).gpus[x[2]].temp = sessionStats.peak
             /\ \E x \in readings : x[2] = sessionStats.minGPU /\ at(x[1]).gpus[x[2]].clock = sessionStats.min

(* Every window a chart asks for holds the latest samples of its GPU, oldest *)
(* first, also when the ring has wrapped or the GPU was missing for a while; *)
(* the session statistics are those of all applied snapshots, and the GPU    *)
(* named for an extreme had that value (pushHistory).                        *)
TrendsAreExact == windowsAreLatest /\ statsAreExtremes

view == [gpus |-> rows["gpu"], procs |-> rows["proc"], hints |-> rows["hints"], past |-> rows["history"],
         links |-> Cardinality(DOMAIN nvlinkCache), errors |-> Cardinality(Links!errorsSeen),
         swap |-> shown.swap, width |-> IF ui.width < 40 THEN 80 ELSE ui.width, height |-> ui.height]

(* viewCharts skips the charts "so the GPU table at the top stays visible":  *)
(* where its estimate knows of what is drawn - columns side by side, up to   *)
(* eight GPUs, a host section of five rows - drawn charts cut off the header *)
(* at most, and not even that if the GPU table or the process table is       *)
(* shorter than the estimate takes it to be.                                 *)
ChartsFit ==
    (/\ ready /\ Layout!chartsDrawn(view) /\ Layout!sideBySide(view)
     /\ view.gpus <= Layout!gpuPanelCap /\ Layout!hostRows(view) <= 5)
        => /\ Layout!cutRows(view) <= Layout!headerRows
           /\ (view.gpus < Layout!gpuPanelCap \/ view.procs \in 1 .. Layout!procPanelCap(view.height))
                => Layout!cutRows(view) = 0

(* Refreshing goes on, also after a pause or an error, until the display is  *)
(* paused or left (or the model's fetches are used up): ticks keep coming.   *)
RefreshResumes == []<>(ui.paused \/ ui.quitting \/ fetched = Len(script))
=============================================================================
