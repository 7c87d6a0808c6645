------------------------------ MODULE AgentProofs ------------------------------
(***************************************************************************)
(* Proofs about the agent.  It uses the recorder as module Recorder        *)
(* specifies: every step of the process is a step of the recorder or       *)
(* leaves it alone, so no snapshot is handed over while another is being   *)
(* written, and nothing is written after Close.  What was proved about the *)
(* recorder therefore holds of the agent's, and carries the two properties *)
(* of the process.                                                         *)
(***************************************************************************)
EXTENDS Agent, TLAPS

R == INSTANCE RecorderProofs

(* RecorderProofs extends Recorder: its actions are those the agent takes.  *)
LEMMA SameActions ==
    /\ \A hinted, ok, k : Recorder!EncodeSnapshot(hinted, k, ok) <=> R!EncodeSnapshot(hinted, k, ok)
    /\ Recorder!EncodeHint <=> R!EncodeHint
    /\ Recorder!FlushSnapshot <=> R!FlushSnapshot
    /\ Recorder!FinishWrite <=> R!FinishWrite
    /\ Recorder!Close <=> R!Close
    /\ Recorder!Kill <=> R!Kill
    /\ Recorder!NewRecorder <=> R!NewRecorder
    /\ Recorder!Init <=> R!Init
<1> USE DEF Recorder!disk, R!disk, Recorder!Files, R!Files, Recorder!Record, R!Record,
            Recorder!Empty, R!Empty, Recorder!Stopped, R!Stopped, Recorder!breaks, R!breaks,
            Recorder!remaining, R!remaining, Recorder!put, R!put, Recorder!flushed, R!flushed,
            Recorder!Flush, R!Flush, Recorder!fsync, R!fsync
<1>1. \A hinted, ok, k : Recorder!EncodeSnapshot(hinted, k, ok) <=> R!EncodeSnapshot(hinted, k, ok)
  BY DEF Recorder!EncodeSnapshot, R!EncodeSnapshot
<1>2. Recorder!EncodeHint <=> R!EncodeHint
  BY DEF Recorder!EncodeHint, R!EncodeHint
<1>3. Recorder!FlushSnapshot <=> R!FlushSnapshot
  BY DEF Recorder!FlushSnapshot, R!FlushSnapshot
<1>4. Recorder!FinishWrite <=> R!FinishWrite
  BY DEF Recorder!FinishWrite, R!FinishWrite, Recorder!syncIsDue, R!syncIsDue
<1>5. Recorder!Close <=> R!Close
  BY DEF Recorder!Close, R!Close, Recorder!closedWell, R!closedWell
<1>6. Recorder!Kill <=> R!Kill
  BY DEF Recorder!Kill, R!Kill, Recorder!writing, R!writing
<1>7. Recorder!NewRecorder <=> R!NewRecorder
  BY DEF Recorder!NewRecorder, R!NewRecorder
<1>8. Recorder!Init <=> R!Init
  BY DEF Recorder!Init, R!Init
<1> QED
  BY <1>1, <1>2, <1>3, <1>4, <1>5, <1>6, <1>7, <1>8

LEMMA AgentStep ==
    ASSUME [Next]_vars
    PROVE  [R!Running]_R!vars
<1> USE SameActions DEF recorder, R!vars, R!disk
<1>1. CASE Restart
  BY <1>1 DEF Restart, R!Running
<1>2. CASE \E ok \in BOOLEAN : StartServer(ok) \/ Shutdown(ok)
  BY <1>2 DEF StartServer, Shutdown
<1>3. CASE CollectFails \/ Publish
  BY <1>3 DEF CollectFails, Publish, proceed
<1>4. CASE Collected
  BY <1>4 DEF Collected, R!Running
<1>5. CASE Record
  BY <1>5 DEF Record, R!Running
<1>6. CASE Tick \/ Selected
  BY <1>6 DEF Tick, Selected
<1>7. CASE CloseRecorder
  BY <1>7 DEF CloseRecorder, R!Running
<1>8. CASE Kill \/ Terminate
  BY <1>8 DEF Kill, Terminate, R!Running
<1>9. CASE \E c \in Clients : Read(c)
  BY <1>9 DEF Read
<1>10. CASE UNCHANGED vars
  BY <1>10 DEF vars
<1> QED
  BY <1>1, <1>2, <1>3, <1>4, <1>5, <1>6, <1>7, <1>8, <1>9, <1>10 DEF Next

(* The agent implements the recorder (main.go, run: writeSnap calls         *)
(* WriteSnapshot from one goroutine, the deferred call comes after it).     *)
THEOREM ImplementsRecorder == Spec => RecorderSpec
<1>1. Init => Recorder!Init
  BY DEF Init
<1>2. [Next]_vars => [Recorder!Next]_Recorder!vars
  <2>1. [Next]_vars => [R!Running]_R!vars
    BY AgentStep
  <2> QED
    BY <2>1, SameActions DEF R!Running, Recorder!Next, R!vars, Recorder!vars, R!disk, Recorder!disk
<1> QED
  BY <1>1, <1>2, PTL DEF Spec, RecorderSpec, Recorder!Spec

-----------------------------------------------------------------------------
(* The recorder's own invariants; and that every snapshot published is on   *)
(* record.                                                                  *)
RecorderInv == R!Types /\ R!Acks

OnRecord(id) == R!HasRecord(file["snapshots"], id)

Published ==
    /\ store \in Nat /\ seen \in [Clients -> Nat]
    /\ store # 0 => OnRecord(store)
    /\ \A c \in Clients : seen[c] # 0 => OnRecord(seen[c])

LEMMA RecorderNext == RecorderInv /\ [Next]_vars => RecorderInv'
<1>1. [Next]_vars => [R!Next]_R!vars
  BY AgentStep DEF R!Running, R!Next
<1> QED
  BY <1>1, R!TypesNext, R!AcksNext, AgentAssumption DEF RecorderInv, R!RecorderAssumption

LEMMA RecorderInit == Init => RecorderInv
BY SameActions, R!TypesInit, R!AcksInit, AgentAssumption DEF Init, RecorderInv, R!RecorderAssumption

(* What is on record stays there.                                           *)
LEMMA RecordsStay ==
    ASSUME RecorderInv, [Next]_vars
    PROVE  \A id : R!HasRecord(file["snapshots"], id) => R!HasRecord(file'["snapshots"], id)
<1>1. R!IsStart(file["snapshots"], file'["snapshots"])
  <2>1. [R!Running]_R!vars
    BY AgentStep
  <2> QED
    BY <2>1, R!RunningMoves, AgentAssumption DEF RecorderInv, R!Files, R!RecorderAssumption
<1>2. RecorderInv'
  BY RecorderNext
<1>3. file["snapshots"] \in Seq(R!Piece) /\ file'["snapshots"] \in Seq(R!Piece)
  BY <1>2 DEF RecorderInv, R!Types, R!Files
<1> QED
  BY <1>1, <1>3, R!StartHasRecord, AgentAssumption DEF R!RecorderAssumption

LEMMA PublishedNext == RecorderInv /\ Published /\ [Next]_vars => Published'
<1> SUFFICES ASSUME RecorderInv, Published, [Next]_vars PROVE Published'
  OBVIOUS
<1>1. \A id : OnRecord(id) => OnRecord(id)'
  BY RecordsStay DEF OnRecord
<1>2. given \in Nat
  BY AgentAssumption DEF RecorderInv, R!Types
<1>3. store' = store \/ store' = 0 \/ (store' = given /\ given \in acked)
  BY DEF Next, vars, Restart, StartServer, Shutdown, CollectFails, Collected, Record, Publish, toPublish,
         Tick, Selected, CloseRecorder, Kill, Terminate, Read
<1>4. seen' = seen \/ \E c \in Clients : seen' = [seen EXCEPT ![c] = store] /\ store # 0
  BY DEF Next, vars, Restart, StartServer, Shutdown, CollectFails, Collected, Record, Publish, proceed,
         Tick, Selected, CloseRecorder, Kill, Terminate, Read
<1>5. \A id \in acked : OnRecord(id)
  BY DEF RecorderInv, R!Acks, OnRecord
<1>6. store' \in Nat /\ (store' # 0 => OnRecord(store'))
  BY <1>2, <1>3, <1>5 DEF Published
<1>7. store' # 0 => OnRecord(store)'
  BY <1>6, RecordsStay DEF OnRecord
<1>8. ASSUME NEW c \in Clients
      PROVE  seen'[c] \in Nat /\ (seen'[c] # 0 => R!HasRecord(file'["snapshots"], seen'[c]))
  <2>1. seen'[c] = seen[c] \/ (seen'[c] = store /\ store # 0)
    BY <1>4 DEF Published
  <2>2. seen'[c] \in Nat /\ (seen'[c] # 0 => R!HasRecord(file["snapshots"], seen'[c]))
    BY <2>1 DEF Published, OnRecord
  <2> QED
    BY <2>2, RecordsStay
<1>9. seen' \in [Clients -> Nat]
  BY <1>4 DEF Published
<1> QED
  BY <1>6, <1>7, <1>8, <1>9 DEF Published, OnRecord

(* Nothing is published that is not on record: what a client was ever given *)
(* is in the snapshot file, after any kill, restart or write error          *)
(* (main.go, writeSnap: WriteSnapshot before store.Set).                    *)
THEOREM PublishedIsRecorded == Spec => []SeenIsRecorded
<1>1. Init => Published
  BY DEF Init, Published
<1>2. RecorderInv /\ Published => SeenIsRecorded
  <2> SUFFICES ASSUME RecorderInv, Published,
                      NEW id \in {store} \union {seen[c] : c \in Clients}, id # 0
               PROVE  id \in Recorder!Written("snapshots")
    BY DEF SeenIsRecorded
  <2>1. OnRecord(id)
    BY DEF Published
  <2>2. file["snapshots"] \in Seq(R!Piece)
    BY DEF RecorderInv, R!Types, R!Files
  <2>3. id \in R!WrittenIn(file["snapshots"])
    BY <2>1, <2>2, R!WrittenIs, AgentAssumption DEF OnRecord, R!RecorderAssumption
  <2> QED
    BY <2>3 DEF R!WrittenIn, R!WholeIn, Recorder!Written, Recorder!Whole
<1> QED
  BY <1>1, <1>2, RecorderInit, RecorderNext, PublishedNext, PTL DEF Spec

-----------------------------------------------------------------------------
(* How a process ends: one with -once that reports no error has recorded    *)
(* its snapshot, and exit status 0 is given only by the Close that synced   *)
(* both files.                                                              *)
Durable(id) == \E i \in 1 .. synced["snapshots"] : file["snapshots"][i] = <<id, "tail">>

Ended ==
    /\ exit # "none" => pc = "exited"
    /\ pc = "select" => ~once
    /\ pc \in {"shutdown", "close"} /\ once /\ ~failed => given \in acked
    /\ exit = "ok" => (\A id \in acked : Durable(id)) /\ (once => given \in acked)

(* Close reports success only after both files were synced.                 *)
LEMMA ClosedIsDurable ==
    ASSUME RecorderInv, [Next]_vars, Recorder!Close, op' = "closed"
    PROVE  \A id \in acked' : Durable(id)'
<1>1. synced'["snapshots"] = Len(file'["snapshots"])
  <2>1. PICK done \in SUBSET Recorder!Files :
          Recorder!fsync(done, done = Recorder!Files) /\ op' = IF Recorder!closedWell(done) THEN "closed" ELSE "failed"
    <3>1. ASSUME NEW f, NEW n \in {"close2", "closeSync"}, Recorder!Flush(f, n, n)
          PROVE  FALSE
      BY <3>1 DEF Recorder!Flush
    <3> QED
      BY <3>1 DEF Recorder!Close
  <2>2. done = Recorder!Files
    BY <2>1 DEF Recorder!closedWell
  <2> QED
    BY <2>1, <2>2 DEF Recorder!fsync, Recorder!Files
<1>2. RecorderInv'
  BY RecorderNext
<1>3. file'["snapshots"] \in Seq(R!Piece)
  BY <1>2 DEF RecorderInv, R!Types, R!Files
<1>4. \A id \in acked' : R!HasRecord(file'["snapshots"], id)
  BY <1>2 DEF RecorderInv, R!Acks
<1> QED
  <2> SUFFICES ASSUME NEW id \in acked' PROVE \E i \in 1 .. synced'["snapshots"] : file'["snapshots"][i] = <<id, "tail">>
    BY DEF Durable
  <2> DEFINE s == file'["snapshots"]
  <2>1. PICK i \in 1 .. Len(s) - 1 : s[i + 1] = <<id, "tail">>
    BY <1>4 DEF R!HasRecord
  <2>2. i + 1 \in 1 .. Len(s)
    BY <1>3
  <2> QED
    BY <1>1, <2>1, <2>2

LEMMA EndedNext == RecorderInv /\ Ended /\ [Next]_vars => Ended'
<1> SUFFICES ASSUME RecorderInv, Ended, [Next]_vars PROVE Ended'
  OBVIOUS
<1>1. CASE Restart
  BY <1>1 DEF Restart, Ended
<1>2. CASE \E ok \in BOOLEAN : StartServer(ok) \/ Shutdown(ok)
  <2>1. pc \in {"serve", "shutdown"} /\ exit = "none" /\ exit' = exit /\ UNCHANGED <<once, given, acked>>
    BY <1>2 DEF StartServer, Shutdown, Ended, recorder
  <2>2. pc' \in {"collect", "close"} /\ (pc' = "close" /\ ~failed' => pc = "shutdown" /\ ~failed)
    BY <1>2 DEF StartServer, Shutdown
  <2> QED
    BY <2>1, <2>2 DEF Ended
<1>3. CASE CollectFails \/ Publish
  <2>1. pc \in {"collect", "record"} /\ exit # "ok" /\ exit' = exit /\ UNCHANGED <<once, given, acked>>
    BY <1>3 DEF CollectFails, Publish, proceed, Ended, recorder
  <2>2. exit' # "none" => pc' = "exited"
    BY <1>3, <2>1 DEF CollectFails, Publish, proceed, Ended
  <2>3. /\ pc' = IF once THEN "shutdown" ELSE "select"
        /\ once /\ ~failed' => given \in acked
    BY <1>3 DEF CollectFails, Publish, proceed
  <2> QED
    BY <2>1, <2>2, <2>3 DEF Ended
<1>4. CASE Collected \/ Record
  BY <1>4 DEF Collected, Record, Ended, process
<1>5. CASE Tick \/ Selected
  BY <1>5 DEF Tick, Selected, Ended, recorder, process
<1>6. CASE CloseRecorder
  <2>1. pc = "close" /\ Recorder!Close /\ UNCHANGED <<once, failed>>
    BY <1>6 DEF CloseRecorder
  <2>2. UNCHANGED <<given, acked>>
    BY <2>1 DEF Recorder!Close
  <2>3. CASE op' \in Recorder!Stopped
    <3>1. pc' = "exited" /\ exit' = status
      BY <1>6, <2>3 DEF CloseRecorder
    <3>2. exit' = "ok" => ~failed /\ op' = "closed"
      <4>1. op' # "down"
        BY <2>1 DEF Recorder!Close, Recorder!Flush
      <4> QED
        BY <2>3, <3>1, <4>1 DEF status, Recorder!Stopped
    <3>3. exit' = "ok" => \A id \in acked' : Durable(id)'
      BY <2>1, <3>2, ClosedIsDurable
    <3> QED
      BY <2>1, <2>2, <3>1, <3>2, <3>3 DEF Ended
  <2>4. CASE op' \notin Recorder!Stopped
    BY <1>6, <2>1, <2>2, <2>4 DEF CloseRecorder, Ended
  <2> QED
    BY <2>3, <2>4
<1>7. CASE Kill
  BY <1>7 DEF Kill, Ended
<1>8. CASE Terminate
  <2>1. CASE UNCHANGED <<recorder, once, pc, catching, failed, exit, serving, store, seen>>
    BY <2>1 DEF Ended, recorder, Durable
  <2> QED
    BY <1>7, <1>8, <2>1 DEF Terminate
<1>9. CASE \E c \in Clients : Read(c)
  BY <1>9 DEF Read, Ended, recorder, process, Durable
<1>10. CASE UNCHANGED vars
  BY <1>10 DEF vars, Ended, recorder, process, Durable
<1> QED
  BY <1>1, <1>2, <1>3, <1>4, <1>5, <1>6, <1>7, <1>8, <1>9, <1>10 DEF Next

(* Exit status 0 means that every published snapshot is on the disk, and of *)
(* a -once process that its snapshot is (main.go, run: the error of Close   *)
(* becomes run's; recorder.go, Close).                                      *)
THEOREM ExitStatusIsTrue == Spec => []ExitOkIsDurable
<1>1. Init => Ended
  BY DEF Init, Ended
<1>2. Ended => ExitOkIsDurable
  BY DEF Ended, ExitOkIsDurable, Durable
<1> QED
  BY <1>1, <1>2, RecorderInit, RecorderNext, EndedNext, PTL DEF Spec
=============================================================================
