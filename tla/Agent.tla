-------------------------------- MODULE Agent --------------------------------
(***************************************************************************)
(* gputui-agent (cmd/gputui-agent/main.go): the loop that collects a       *)
(* snapshot, records it and publishes it to the clients of the local API   *)
(* (internal/api/unixsock/server.go), and the way the process ends: -once, *)
(* a signal that the loop selects, a signal that nothing catches, a kill.  *)
(* The recorder is module Recorder; its files survive the process.         *)
(***************************************************************************)
EXTENDS Integers, Sequences, FiniteSets

CONSTANTS
    FsyncEvery, MaxSnapshots, MaxReopens,   \* see Recorder
    Clients                                 \* of the API

ASSUME AgentAssumption ==
    FsyncEvery \in Int /\ MaxSnapshots \in Nat /\ MaxReopens \in Nat

VARIABLES
    file, synced, buf, broken, writes, op, given, acked, reopens, missed,
    damaged,     \* the variables of Recorder
    once,        \* the -once flag
    pc,          \* where run() stands
    catching,    \* runLoop has registered the signal channel
    signalled,   \* a signal is in the channel
    failed,      \* run's err is set
    exit,        \* how the last process ended
    serving,     \* the API answers
    store,       \* the published snapshot, 0 before the first
    seen         \* the last snapshot each client was given

recorder == <<file, synced, buf, broken, writes, op, given, acked, reopens, missed, damaged>>
process == <<catching, signalled, failed, exit>>
vars == <<recorder, once, pc, process, serving, store, seen>>

Recorder == INSTANCE Recorder

Init ==
    /\ Recorder!Init
    /\ once \in BOOLEAN
    /\ pc = "serve"
    /\ catching = FALSE /\ signalled = FALSE /\ failed = FALSE /\ exit = "none"
    /\ serving = FALSE /\ store = 0 /\ seen = [c \in Clients |-> 0]

-----------------------------------------------------------------------------
(* A new process, in a machine that kept the files. *)
Restart ==
    /\ pc = "exited" /\ pc' = "serve"
    /\ Recorder!NewRecorder
    /\ store' = 0 /\ failed' = FALSE /\ exit' = "none"
    /\ UNCHANGED <<once, catching, signalled, serving, seen>>

StartServer(ok) ==
    /\ pc = "serve" /\ pc' = IF ok THEN "collect" ELSE "close"
    /\ serving' = ok /\ failed' = ~ok
    /\ UNCHANGED <<recorder, once, catching, signalled, exit, store, seen>>

(* writeSnap is over: the process ends with its error, or enters the loop.  *)
proceed(err) ==
    /\ pc' = IF once THEN "shutdown" ELSE "select"
    /\ failed' = (once /\ err)
    /\ catching' = ~once
    /\ UNCHANGED <<recorder, once, signalled, exit, serving, seen>>

CollectFails == pc = "collect" /\ proceed(TRUE) /\ UNCHANGED store

(* Collect returned a snapshot; WriteSnapshot is called. *)
Collected ==
    /\ pc = "collect" /\ pc' = "record"
    /\ \E hinted, ok \in BOOLEAN, k \in 0 .. 2 * MaxSnapshots :
         Recorder!EncodeSnapshot(hinted, k, ok)
    /\ UNCHANGED <<once, process, serving, store, seen>>

Record ==
    /\ pc = "record"
    /\ Recorder!EncodeHint \/ Recorder!FlushSnapshot \/ Recorder!FinishWrite
    /\ UNCHANGED <<once, pc, process, serving, store, seen>>

(* faulty: published even when it could not be recorded *)
toPublish_Always == given

toPublish == IF given \in acked THEN given ELSE store

(* WriteSnapshot returned; store.Set if it returned nil. *)
Publish ==
    /\ pc = "record" /\ op = "idle"
    /\ store' = toPublish
    /\ proceed(given \notin acked)

Tick ==
    /\ pc = "select" /\ pc' = "collect"
    /\ UNCHANGED <<recorder, once, process, serving, store, seen>>

(* faulty: break leaves the select, not the loop *)
Selected_Breaks ==
    /\ pc = "select" /\ signalled /\ signalled' = FALSE
    /\ UNCHANGED <<recorder, once, pc, catching, failed, exit, serving, store, seen>>

Selected ==
    /\ pc = "select" /\ signalled
    /\ pc' = "shutdown" /\ signalled' = FALSE /\ catching' = FALSE
    /\ UNCHANGED <<recorder, once, failed, exit, serving, store, seen>>

(* The deferred calls, in their order: the server, then the recorder. *)
Shutdown(ok) ==
    /\ pc = "shutdown" /\ pc' = "close"
    /\ serving' = FALSE /\ failed' = (failed \/ ~ok)
    /\ UNCHANGED <<recorder, once, catching, signalled, exit, store, seen>>

(* faulty: the deferred function drops the error of Close *)
status_Dropped == IF failed THEN "error" ELSE "ok"

status == IF failed \/ op' = "failed" THEN "error" ELSE "ok"

CloseRecorder ==
    /\ pc = "close" /\ Recorder!Close
    /\ IF op' \in Recorder!Stopped
       THEN pc' = "exited" /\ exit' = status
       ELSE UNCHANGED <<pc, exit>>
    /\ UNCHANGED <<once, catching, signalled, failed, serving, store, seen>>

Kill ==
    /\ pc # "exited" /\ pc' = "exited"
    /\ Recorder!Kill
    /\ exit' = "killed" /\ catching' = FALSE /\ signalled' = FALSE /\ serving' = FALSE
    /\ UNCHANGED <<once, failed, store, seen>>

(* SIGINT or SIGTERM: caught only in the loop. *)
Terminate ==
    \/ ~catching /\ Kill
    \/ catching /\ signalled' = TRUE
       /\ UNCHANGED <<recorder, once, pc, catching, failed, exit, serving, store, seen>>

(* handleSnapshot: the published snapshot, or 503 and nothing. *)
Read(c) ==
    /\ serving /\ store # 0
    /\ seen' = [seen EXCEPT ![c] = store]
    /\ UNCHANGED <<recorder, once, pc, process, serving, store>>

Next ==
    \/ Restart
    \/ \E ok \in BOOLEAN : StartServer(ok) \/ Shutdown(ok)
    \/ CollectFails \/ Collected \/ Record \/ Publish
    \/ Tick \/ Selected
    \/ CloseRecorder
    \/ Kill \/ Terminate
    \/ \E c \in Clients : Read(c)

(* The process is scheduled, Collect and system calls return, and select    *)
(* takes a ready signal some time although the ticker is ready as well.     *)
Spec ==
    /\ Init /\ [][Next]_vars
    /\ WF_vars(\/ \E ok \in BOOLEAN : StartServer(ok) \/ Shutdown(ok)
               \/ CollectFails \/ Collected \/ Record \/ Publish
               \/ Tick \/ CloseRecorder)
    /\ SF_vars(Selected)

-----------------------------------------------------------------------------
TypeOK ==
    /\ pc \in {"serve", "collect", "record", "select", "shutdown", "close", "exited"}
    /\ exit \in {"none", "ok", "error", "killed"} /\ (exit = "none" <=> pc # "exited")
    /\ signalled => catching
    /\ store \in 0 .. given /\ seen \in [Clients -> 0 .. given]

(* Nothing is published that is not on record: what a client was ever given *)
(* is in the snapshot file, after any kill, restart or write error          *)
(* (writeSnap: WriteSnapshot before store.Set).                             *)
SeenIsRecorded ==
    \A id \in {store} \union {seen[c] : c \in Clients} :
        id # 0 => id \in Recorder!Written("snapshots")

(* Exit status 0 means that every published snapshot is on the disk and, of *)
(* a -once process, that its snapshot is.                                   *)
ExitOkIsDurable ==
    exit = "ok" =>
        /\ \A id \in acked : \E i \in 1 .. synced["snapshots"] :
              file["snapshots"][i] = <<id, "tail">>
        /\ once => given \in acked

(* A caught signal ends the process, however busy the ticker keeps it.      *)
StopsOnSignal == signalled ~> pc = "exited"

(* The agent uses the recorder the way Recorder specifies.                  *)
RecorderSpec == Recorder!Spec
=============================================================================
