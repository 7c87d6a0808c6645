---------------------------- MODULE NvmlProcesses ----------------------------
(***************************************************************************)
(* CollectProcesses (internal/collect/gpu/nvml_linux.go): the compute and  *)
(* graphics processes of every device, one query after the other, each PID *)
(* once.  Processes start and end between the queries; a query may fail,   *)
(* and the deadline of the sample may end the call between two devices.    *)
(***************************************************************************)
EXTENDS Naturals

CONSTANTS
    NDevices,
    Pids,
    MaxMoves     \* bound: processes starting or ending during the calls

Places == (1 .. NDevices) \X (1 .. 2)    \* a device; 1 its compute, 2 its graphics list

VARIABLES
    running,      \* <<pid, place>>: who is on which list of the driver
    moves,        \* bound: starts and ends so far
    visit,        \* the place asked next, or Done
    procs,        \* the list being made: pid and GPUIndex
    stayed,       \* history: those on their list since the call began
    answered      \* history: places whose query succeeded

vars == <<running, moves, visit, procs, stayed, answered>>

Done == <<NDevices + 1, 1>>
Idle == <<0, 1>>

Init ==
    /\ running \in SUBSET (Pids \X {<<1, 1>>, <<NDevices, 2>>})
    /\ moves = 0 /\ visit = Idle
    /\ procs = {} /\ stayed = {} /\ answered = {}

StartOrEnd ==
    /\ moves < MaxMoves /\ moves' = moves + 1
    /\ \E x \in Pids \X Places :
         /\ running' = IF x \in running THEN running \ {x} ELSE running \union {x}
         /\ stayed' = stayed \ {x}
    /\ UNCHANGED <<visit, procs, answered>>

Begin ==
    /\ visit \in {Idle, Done}
    /\ visit' = <<1, 1>> /\ procs' = {}
    /\ stayed' = running /\ answered' = {}
    /\ UNCHANGED <<running, moves>>

after(place) == IF place[2] = 1 THEN <<place[1], 2>> ELSE <<place[1] + 1, 1>>

(* faulty: a PID is taken once per device *)
isNew_PerDevice(pid) == [pid |-> pid, gpu |-> visit[1]] \notin procs

isNew(pid) == \A p \in procs : p.pid # pid

(* One getter of one device.  A failed one adds nothing. *)
Query ==
    /\ visit \in Places
    /\ visit' = after(visit)
    /\ \/ UNCHANGED <<procs, answered>>
       \/ /\ answered' = answered \union {visit}
          /\ procs' = procs \union {[pid |-> x[1], gpu |-> visit[1]] :
                                       x \in {y \in running : y[2] = visit /\ isNew(y[1])}}
    /\ UNCHANGED <<running, moves, stayed>>

(* The deadline, looked at before each device: an error, and no processes.  *)
Cancel ==
    /\ visit \in Places /\ visit[2] = 1
    /\ visit' = Idle /\ procs' = {}
    /\ UNCHANGED <<running, moves, stayed, answered>>

Next == StartOrEnd \/ Begin \/ Query \/ Cancel

Spec == Init /\ [][Next]_vars

-----------------------------------------------------------------------------
(* A list that is returned names every PID once, also one that uses several *)
(* GPUs or moved while the list was made; and it has every process that was *)
(* on an answered list throughout, under that GPU or one before it.         *)
ProcessesListedOnce ==
    visit = Done =>
        /\ \A p, q \in procs : p.pid = q.pid => p = q
        /\ \A x \in stayed : x[2] \in answered =>
              \E p \in procs : p.pid = x[1] /\ p.gpu <= x[2][1]
=============================================================================
