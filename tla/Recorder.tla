------------------------------- MODULE Recorder -------------------------------
(***************************************************************************)
(* The JSONL recorder (internal/record/jsonl/recorder.go): two append-only *)
(* files behind buffered writers whose errors are sticky, flushed with     *)
(* every snapshot and synced with every FsyncEvery-th.  The process may be *)
(* killed and the machine may lose power at any step; a later process      *)
(* appends to the files it finds.                                          *)
(*                                                                         *)
(* A record (a line) is two pieces, its beginning and its end: the least   *)
(* that lets a write stop within a line.  WriteSnapshot and Close hold the *)
(* mutex throughout, so one operation is in progress at a time.  A         *)
(* snapshot has one hint or none and can always be encoded; a failed fsync *)
(* leaves the data to the next one.                                        *)
(***************************************************************************)
EXTENDS Integers, Sequences, FiniteSets

CONSTANTS
    FsyncEvery,     \* Options.FsyncEvery
    MaxSnapshots,   \* bounds the snapshots handed to WriteSnapshot
    MaxReopens      \* bounds the restarts

ASSUME RecorderAssumption ==
    FsyncEvery \in Int /\ MaxSnapshots \in Nat /\ MaxReopens \in Nat

VARIABLES
    file,      \* what each file holds, as the operating system sees it
    synced,    \* how many pieces of it are on the disk
    buf,       \* the pieces in each bufio.Writer
    broken,    \* the files whose writer has failed
    writes,    \* Recorder.writes
    op,        \* what the recorder is about to do
    given,     \* snapshots handed to WriteSnapshot so far: 1 .. given
    acked,     \* history: those whose WriteSnapshot returned nil, less what a power loss took
    reopens,   \* history: restarts so far
    missed,    \* history: restarts and failed fsyncs since the snapshots were last synced
    damaged    \* history: a write or fsync has failed, or power was lost

disk == <<file, synced, buf, broken>>
vars == <<disk, writes, op, given, acked, reopens, missed, damaged>>

Files == {"snapshots", "hints"}
Record(id) == <<<<id, "head">>, <<id, "tail">>>>
Empty == [f \in Files |-> <<>>]
Stopped == {"down", "closed", "failed"}

Init ==
    /\ file = Empty /\ synced = [f \in Files |-> 0]
    /\ buf = Empty /\ broken = {} /\ writes = 0 /\ op = "idle"
    /\ given = 0 /\ acked = {} /\ reopens = 0 /\ missed = 0 /\ damaged = FALSE

-----------------------------------------------------------------------------
breaks(f, ok) == broken' = IF ok THEN broken ELSE broken \union {f}

(* faulty: a flush does not empty the buffer *)
remaining_All(b, k) == b

remaining(b, k) == SubSeq(b, k + 1, Len(b))

(* bufio.Writer: more is buffered, k pieces of what is buffered then go to  *)
(* the operating system.                                                    *)
put(f, more, k, ok) ==
    LET b == buf[f] \o more IN
    /\ file' = [file EXCEPT ![f] = @ \o SubSeq(b, 1, k)]
    /\ buf' = [buf EXCEPT ![f] = remaining(b, k)]
    /\ breaks(f, ok)
    /\ damaged' = (damaged \/ ~ok)
    /\ UNCHANGED synced

(* A snapshot that does not fit into the buffer is written in part or whole *)
(* while it is encoded.                                                     *)
EncodeSnapshot(hinted, k, ok) ==
    /\ op = "idle" /\ given < MaxSnapshots
    /\ given' = given + 1
    /\ IF "snapshots" \in broken
       THEN ok /\ k = 0 /\ UNCHANGED <<disk, damaged, op>>
       ELSE /\ k <= Len(buf["snapshots"]) + IF ok THEN 2 ELSE 1
            /\ put("snapshots", Record(given'), k, ok)
            /\ op' = IF ~ok THEN "idle" ELSE IF hinted THEN "hint" ELSE "flush1"
    /\ UNCHANGED <<writes, acked, reopens, missed>>

EncodeHint ==
    /\ op = "hint"
    /\ \/ "hints" \in broken /\ op' = "idle" /\ UNCHANGED <<disk, damaged>>
       \/ "hints" \notin broken /\ op' = "flush1" /\ put("hints", Record(given), 0, TRUE)
    /\ UNCHANGED <<writes, given, acked, reopens, missed>>

(* faulty: the hints go first *)
flushed_HintsFirst(n) == <<"hints", "snapshots">>[n]

(* faulty: the same writer is flushed twice *)
flushed_HintsOnly(n) == <<"hints", "hints">>[n]

flushed(n) == <<"snapshots", "hints">>[n]

(* Flush of file f, on to op next, or to op otherwise when it fails.        *)
Flush(f, next, otherwise) ==
    \/ f \in broken /\ op' = otherwise /\ UNCHANGED <<disk, damaged>>
    \/ f \notin broken /\ put(f, <<>>, Len(buf[f]), TRUE) /\ op' = next
    \/ /\ f \notin broken
       /\ \E k \in 0 .. Len(buf[f]) - 1 : put(f, <<>>, k, FALSE)
       /\ op' = otherwise

FlushSnapshot ==
    /\ \/ op = "flush1" /\ Flush(flushed(1), "flush2", "idle")
       \/ op = "flush2" /\ Flush(flushed(2), "sync", "idle")
    /\ UNCHANGED <<writes, given, acked, reopens, missed>>

(* faulty: one write too many between two syncs *)
syncIsDue_Late(n) == FsyncEvery > 0 /\ n % (FsyncEvery + 1) = 0

syncIsDue(n) == FsyncEvery > 0 /\ n % FsyncEvery = 0

(* The files of done are synced, the fsync of another one failed unless ok. *)
fsync(done, ok) ==
    /\ synced' = [f \in Files |-> IF f \in done THEN Len(file[f]) ELSE synced[f]]
    /\ missed' = IF "snapshots" \in done THEN 0 ELSE missed + 1
    /\ damaged' = (damaged \/ ~ok)
    /\ UNCHANGED <<file, buf, broken>>

FinishWrite ==
    /\ op = "sync" /\ op' = "idle"
    /\ writes' = writes + 1
    /\ \/ ~syncIsDue(writes') /\ acked' = acked \union {given} /\ UNCHANGED <<disk, missed, damaged>>
       \/ syncIsDue(writes') /\ acked' = acked \union {given} /\ fsync(Files, TRUE)
       \/ /\ syncIsDue(writes') /\ UNCHANGED acked
          /\ \E done \in {{}, {"snapshots"}} : fsync(done, FALSE)
    /\ UNCHANGED <<given, reopens>>

closedWell(done) == done = Files /\ broken = {}

(* Close tries everything, whatever fails.                                  *)
Close ==
    /\ \/ op = "idle" /\ Flush(flushed(1), "close2", "close2") /\ UNCHANGED missed
       \/ op = "close2" /\ Flush(flushed(2), "closeSync", "closeSync") /\ UNCHANGED missed
       \/ /\ op = "closeSync"
          /\ \E done \in SUBSET Files :
               /\ fsync(done, done = Files)
               /\ op' = IF closedWell(done) THEN "closed" ELSE "failed"
    /\ UNCHANGED <<writes, given, acked, reopens>>

-----------------------------------------------------------------------------
(* The file whose write is under way, if any. *)
writing == CASE op = "flush1" -> {flushed(1)} [] op = "flush2" -> {flushed(2)} [] OTHER -> {}

(* The process is killed, perhaps in the middle of a write.                 *)
Kill ==
    /\ op \notin Stopped /\ op' = "down"
    /\ buf' = Empty
    /\ \/ UNCHANGED file
       \/ \E f \in writing \ broken : \E k \in 1 .. Len(buf[f]) - 1 :
            file' = [file EXCEPT ![f] = @ \o SubSeq(buf[f], 1, k)]
    /\ UNCHANGED <<synced, broken, writes, given, acked, reopens, missed, damaged>>

Whole(f, i) == i < Len(file[f]) /\ file[f][i][2] = "head" /\ file[f][i + 1] = <<file[f][i][1], "tail">>
Written(f) == {file[f][i][1] : i \in {j \in DOMAIN file[f] : Whole(f, j)}}

(* Power is lost: of what was not synced, some prefix is on the disk.       *)
PowerLoss ==
    /\ op' = "down"
    /\ \E kept \in [Files -> 0 .. 2 * MaxSnapshots] :
         /\ \A f \in Files : kept[f] \in synced[f] .. Len(file[f])
         /\ file' = [f \in Files |-> SubSeq(file[f], 1, kept[f])]
         /\ synced' = kept
    /\ buf' = Empty /\ missed' = 0 /\ damaged' = TRUE
    /\ acked' = acked \intersect (Written("snapshots"))'
    /\ UNCHANGED <<broken, writes, given, reopens>>

NewRecorder ==
    /\ op \in Stopped /\ op' = "idle"
    /\ reopens < MaxReopens /\ reopens' = reopens + 1
    /\ buf' = Empty /\ broken' = {} /\ writes' = 0 /\ missed' = missed + 1
    /\ UNCHANGED <<file, synced, given, acked, damaged>>

Next ==
    \/ \E hinted, ok \in BOOLEAN, k \in 0 .. 2 * MaxSnapshots : EncodeSnapshot(hinted, k, ok)
    \/ EncodeHint
    \/ FlushSnapshot
    \/ FinishWrite
    \/ Close
    \/ Kill
    \/ PowerLoss
    \/ NewRecorder

Spec == Init /\ [][Next]_vars

-----------------------------------------------------------------------------
TypeOK ==
    /\ DOMAIN file = Files /\ DOMAIN buf = Files
    /\ \A f \in Files : synced[f] \in 0 .. Len(file[f])
    /\ broken \subseteq Files
    /\ op \in {"idle", "hint", "flush1", "flush2", "sync", "close2", "closeSync"} \union Stopped
    /\ given \in 0 .. MaxSnapshots /\ acked \subseteq 1 .. given

(* A line can be read when a line break is before it. *)
Readable(f) ==
    {file[f][i][1] : i \in {j \in DOMAIN file[f] :
                              Whole(f, j) /\ (j > 1 => file[f][j - 1][2] = "tail")}}

(* Both files hold their records in the order of the samples and none       *)
(* twice, whatever failed on the way.                                       *)
InOrderOnce ==
    \A f \in Files : \A i, j \in DOMAIN file[f] :
        i < j => \/ file[f][i][1] < file[f][j][1]
                 \/ file[f][i] = <<file[f][j][1], "head">> /\ file[f][j][2] = "tail"

(* A snapshot whose WriteSnapshot returned nil is in the file, even if the  *)
(* process is killed afterwards, and all but one per restart can be read:   *)
(* an interrupted line spoils the first one written after it and no other.  *)
AckedIsRecorded ==
    /\ acked \subseteq Written("snapshots")
    /\ Cardinality(acked \ Readable("snapshots")) <= reopens

(* A power loss costs at most FsyncEvery - 1 acknowledged snapshots         *)
(* (Options.FsyncEvery, recorder.go:18-23), and as many again for every     *)
(* fsync that failed and every restart since the last one that succeeded.   *)
PowerLossIsBounded ==
    [][FsyncEvery > 0 =>
         Cardinality(acked \ acked') <= (FsyncEvery - 1) * (1 + missed)]_vars

(* As long as no write fails, a recorded hint belongs to a recorded         *)
(* snapshot: the snapshot is flushed first.                                 *)
HintsHaveSnapshots == ~damaged => Written("hints") \subseteq Written("snapshots")

(* "crash-only loss is bounded by a single snapshot" (recorder.go:119): of  *)
(* the snapshots handed over, each kill costs at most one.                  *)
CrashLossIsBounded ==
    ~damaged =>
        Cardinality({id \in 1 .. given : op \in {"idle"} \union Stopped \/ id # given}
                      \ Readable("snapshots"))
            <= reopens + IF op = "down" THEN 1 ELSE 0
=============================================================================
