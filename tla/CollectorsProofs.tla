--------------------------- MODULE CollectorsProofs ---------------------------
(***************************************************************************)
(* Proofs about the sources of a sample and the local API.  Collectors     *)
(* explores one of them at a time: an invariant of one is shown of the     *)
(* behaviours with its focus, where the steps are its own.                 *)
(***************************************************************************)
EXTENDS Collectors, SequencesExt, WellFoundedInduction, TLAPS

-----------------------------------------------------------------------------
(* NvmlHandles.  Every handle in the cache or in a user's hands stood at    *)
(* its index in one of the driver's lists.                                  *)
Device == UNION {{d[i] : i \in DOMAIN d} : d \in DeviceLists}

Sourced(s, lists) == \A i \in 1 .. Len(s) : \E d \in lists : i <= Len(d) /\ s[i] = d[i]

HandlesTypes ==
    /\ devices \in known /\ known \subseteq DeviceLists
    /\ handles \in Seq(Device)
    /\ handlesAt \in [Users -> {"idle", "count", "compare", "enumerate", "query"}]
    /\ count \in [Users -> Nat]
    /\ got \in [Users -> Seq(Device)]
    /\ steady \in [Users -> BOOLEAN]

HandlesSourced == Sourced(handles, known) /\ \A u \in Users : Sourced(got[u], known)

(* A user whose driver has stood still knows how many devices there are,    *)
(* and ends with as many handles.                                           *)
HandlesCounted ==
    \A u \in Users :
        /\ steady[u] /\ handlesAt[u] \in {"compare", "enumerate", "query"} =>
              count[u] = Len(devices)
        /\ handlesAt[u] = "query" => Len(got[u]) = count[u]

HandlesInv == HandlesTypes /\ HandlesSourced /\ HandlesCounted

LEMMA HandlesFocus ==
    /\ Init /\ focus = "handles" => Handles!Init
    /\ [Next]_vars /\ focus' = "handles" => focus = "handles" /\ [Handles!Next]_handlesVars
BY DEF Init, Next, vars, handlesVars, kmsgRests, handlesRests, processesRests, enricherRests,
       hostRests, apiRests, gpuRests

LEMMA ElementOf == ASSUME NEW S, NEW s \in Seq(S) PROVE \A i \in 1 .. Len(s) : s[i] \in S
OBVIOUS

LEMMA SameSequence ==
    ASSUME NEW S, NEW s \in Seq(S), NEW t \in Seq(S), Len(s) = Len(t),
           \A i \in 1 .. Len(s) : s[i] = t[i]
    PROVE  s = t
OBVIOUS

(* Every set of natural numbers that is not empty has a least element.      *)
LEMMA LeastNumber ==
    ASSUME NEW T, T \subseteq Nat, T # {}
    PROVE  \E x \in T : \A y \in T : x <= y
<1> DEFINE Less == OpToRel(<, Nat)
<1>1. IsWellFoundedOn(Less, Nat)
    BY NatLessThanWellFounded
<1>2. PICK x \in T : \A y \in T : ~(<<y, x>> \in Less)
    <2> HIDE DEF Less
    <2> QED BY <1>1, WFMin
<1>3. \A y \in T : x <= y
    <2> SUFFICES ASSUME NEW y \in T PROVE x <= y
        OBVIOUS
    <2>1. x \in Nat /\ y \in Nat /\ ~(<<y, x>> \in Less)
        BY <1>2
    <2>2. (y < x) => <<y, x>> \in Less
        BY <2>1 DEF OpToRel
    <2> HIDE DEF Less
    <2> QED BY <2>1, <2>2
<1> QED BY <1>3

LEMMA SourcedGrows ==
    ASSUME NEW s, NEW lists, NEW more, Sourced(s, lists), lists \subseteq more
    PROVE  Sourced(s, more)
BY DEF Sourced

LEMMA HandlesInit == Handles!Init => HandlesInv
<1> SUFFICES ASSUME Handles!Init PROVE HandlesInv
    OBVIOUS
<1> USE CollectorsAssumption
<1>1. HandlesTypes
    BY DEF Handles!Init, HandlesTypes, Device
<1>2. HandlesSourced /\ HandlesCounted
    BY DEF Handles!Init, HandlesSourced, HandlesCounted, Sourced
<1> QED BY <1>1, <1>2 DEF HandlesInv

LEMMA HandlesStep == HandlesInv /\ [Handles!Next]_handlesVars => HandlesInv'
<1> SUFFICES ASSUME HandlesInv, [Handles!Next]_handlesVars PROVE HandlesInv'
    OBVIOUS
<1> USE CollectorsAssumption DEF HandlesInv, HandlesTypes, HandlesSourced, HandlesCounted,
                                 Handles!cacheVars
<1>a. \A d \in known : d \in Seq(Device)
    BY DEF Device
<1>1. CASE UNCHANGED handlesVars
    BY <1>1 DEF handlesVars
<1>2. CASE Handles!Driver
    <2>1. HandlesTypes'
        BY <1>2 DEF Handles!Driver
    <2>2. HandlesSourced'
        BY <1>2, SourcedGrows DEF Handles!Driver
    <2>3. HandlesCounted'
        BY <1>2 DEF Handles!Driver
    <2> QED BY <2>1, <2>2, <2>3
<1>3. ASSUME NEW u \in Users, Handles!ensureInit(u) PROVE HandlesInv'
    BY <1>3 DEF Handles!ensureInit
<1>4. ASSUME NEW u \in Users, Handles!DeviceGetCount(u) PROVE HandlesInv'
    <2>1. Len(devices) \in Nat
        BY <1>a
    <2>2. CASE Handles!fails(u)
        BY <1>4, <2>2 DEF Handles!fails
    <2>3. CASE ~Handles!fails(u)
        <3> DEFINE n == Len(devices)
        <3>1. /\ count' = [count EXCEPT ![u] = n] /\ steady' = [steady EXCEPT ![u] = TRUE]
              /\ handlesAt' = [handlesAt EXCEPT ![u] = "compare"]
              /\ UNCHANGED <<devices, known, changes, initialized, handles, got>>
            BY <1>4, <2>3 DEF Handles!DeviceGetCount
        <3>2. HandlesTypes' /\ HandlesSourced'
            BY <2>1, <3>1
        <3>3. n' = n
            BY <3>1
        <3> HIDE DEF n
        <3>4. \A v \in Users : steady'[v] /\ handlesAt'[v] \in {"compare", "enumerate", "query"}
                                  => count'[v] = n
            BY <3>1 DEF n
        <3>5. \A v \in Users : handlesAt'[v] = "query" => Len(got'[v]) = count'[v]
            BY <3>1
        <3> QED BY <3>2, <3>3, <3>4, <3>5 DEF n
    <2> QED BY <2>2, <2>3
<1>5. ASSUME NEW u \in Users, Handles!Compare(u) PROVE HandlesInv'
    <2>1. HandlesTypes'
        BY <1>5 DEF Handles!Compare
    <2>2. HandlesSourced'
        <3>1. Sourced(<< >>, known)
            BY DEF Sourced
        <3> QED BY <1>5, <3>1 DEF Handles!Compare
    <2>3. HandlesCounted'
        BY <1>5 DEF Handles!Compare, Handles!cacheHit
    <2> QED BY <2>1, <2>2, <2>3
<1>6. ASSUME NEW u \in Users, Handles!DeviceGetHandleByIndex(u) PROVE HandlesInv'
    <2>1. CASE Handles!fails(u)
        BY <1>6, <2>1 DEF Handles!fails
    <2>2. CASE ~Handles!fails(u)
        <3> DEFINE n == Len(got[u]) + 1
        <3>0. devices \in Seq(Device) /\ got[u] \in Seq(Device)
            BY <1>a
        <3>1. /\ n \in 1 .. Len(devices) /\ devices[n] \in Device
              /\ got' = [got EXCEPT ![u] = Append(got[u], devices[n])]
              /\ UNCHANGED <<devices, known, changes, initialized, handles, handlesAt, count, steady>>
            BY <1>6, <2>2, <3>0 DEF Handles!DeviceGetHandleByIndex
        <3> HIDE DEF n
        <3>2. got'[u] \in Seq(Device) /\ Len(got'[u]) = n /\ got'[u][n] = devices[n]
              /\ \A i \in 1 .. Len(got[u]) : got'[u][i] = got[u][i]
            BY <3>0, <3>1 DEF n
        <3>3. HandlesTypes'
            BY <3>1, <3>2
        <3>4. Sourced(got'[u], known)
            BY <3>0, <3>1, <3>2 DEF Sourced, n
        <3>5. HandlesSourced'
            BY <3>1, <3>4
        <3>6. HandlesCounted'
            BY <1>6, <3>1 DEF Handles!DeviceGetHandleByIndex
        <3> QED BY <3>3, <3>5, <3>6
    <2> QED BY <2>1, <2>2
<1>7. ASSUME NEW u \in Users, Handles!Replace(u) PROVE HandlesInv'
    <2>1. HandlesTypes' /\ HandlesCounted'
        BY <1>7 DEF Handles!Replace
    <2>2. HandlesSourced'
        BY <1>7 DEF Handles!Replace
    <2> QED BY <2>1, <2>2
<1>8. ASSUME NEW u \in Users, Handles!Query(u) PROVE HandlesInv'
    BY <1>8 DEF Handles!Query, Handles!fails
<1> QED BY <1>1, <1>2, <1>3, <1>4, <1>5, <1>6, <1>7, <1>8 DEF Handles!Next

(* If devices only come and go at the end of the list, as many handles from *)
(* any of the driver's lists are those of the present one.                  *)
LEMMA HandlesSafe == HandlesInv => Handles!HandlesAreCurrent
<1> SUFFICES ASSUME HandlesInv, NEW u \in Users,
                    handlesAt[u] = "query", steady[u], Handles!onlyLast
             PROVE  got[u] = devices
    BY DEF Handles!HandlesAreCurrent
<1> USE DEF HandlesInv, HandlesTypes
<1>1. \A d \in known : d \in Seq(Device)
    BY CollectorsAssumption DEF Device
<1>2. got[u] \in Seq(Device) /\ Len(got[u]) = Len(devices)
    BY DEF HandlesCounted
<1>3. ASSUME NEW i \in 1 .. Len(devices) PROVE got[u][i] = devices[i]
    <2>1. PICK d \in known : i <= Len(d) /\ got[u][i] = d[i]
        BY <1>2, <1>3 DEF HandlesSourced, Sourced
    <2>2. IsPrefix(d, devices) \/ IsPrefix(devices, d)
        BY DEF Handles!onlyLast, Handles!IsPrefix, IsPrefix
    <2>3. d \in Seq(Device) /\ devices \in Seq(Device)
        BY <1>1
    <2> QED BY <2>1, <2>2, <2>3 DEF IsPrefix
<1> QED BY <1>1, <1>2, <1>3, SameSequence

(* HandlesAreCurrent: whatever the driver's lists and however many users    *)
(* share the cache of deviceHandles (nvml_linux.go), a call in which no     *)
(* device came or went works with the present handles.                      *)
THEOREM CurrentHandles == Spec => []HandlesAreCurrent
<1> DEFINE Inv == focus = "handles" => HandlesInv
<1>1. Init => Inv
    BY HandlesFocus, HandlesInit
<1>2. Inv /\ [Next]_vars => Inv'
    BY HandlesFocus, HandlesStep
<1>3. Inv => HandlesAreCurrent
    BY HandlesSafe DEF HandlesAreCurrent
<1> QED BY <1>1, <1>2, <1>3, PTL DEF Spec

-----------------------------------------------------------------------------
(* NvmlProcesses.  The list under way names a PID once, under a GPU that    *)
(* has been asked, and has all that stayed on an answered list.             *)
ProcessesVisit ==
    /\ visit \in (0 .. NDevices + 1) \X (1 .. 2)
    /\ stayed \subseteq running

ProcessesUnique == \A p, q \in procs : p.pid = q.pid => p = q

ProcessesAsked == \A p \in procs : p.gpu \in Nat /\ p.gpu <= visit[1]

ProcessesComplete ==
    \A x \in stayed : x[2] \in answered => \E p \in procs : p.pid = x[1] /\ p.gpu <= x[2][1]

ProcessesInv ==
    /\ ProcessesVisit
    /\ visit # Processes!Idle => ProcessesUnique /\ ProcessesAsked /\ ProcessesComplete

LEMMA ProcessesFocus ==
    /\ Init /\ focus = "processes" => Processes!Init
    /\ [Next]_vars /\ focus' = "processes" =>
           focus = "processes" /\ [Processes!Next]_processesVars
BY DEF Init, Next, vars, processesVars, kmsgRests, handlesRests, processesRests, enricherRests,
       hostRests, apiRests, gpuRests

LEMMA ProcessesInit == Processes!Init => ProcessesInv
BY CollectorsAssumption DEF Processes!Init, Processes!Idle, ProcessesInv, ProcessesVisit

LEMMA ProcessesStep == ProcessesInv /\ [Processes!Next]_processesVars => ProcessesInv'
<1> SUFFICES ASSUME ProcessesInv, [Processes!Next]_processesVars PROVE ProcessesInv'
    OBVIOUS
<1> USE CollectorsAssumption DEF ProcessesInv, ProcessesVisit
<1>1. CASE UNCHANGED processesVars
    BY <1>1 DEF processesVars, ProcessesUnique, ProcessesAsked, ProcessesComplete, Processes!Idle
<1>2. CASE Processes!StartOrEnd
    BY <1>2 DEF Processes!StartOrEnd, ProcessesUnique, ProcessesAsked, ProcessesComplete,
                Processes!Idle
<1>3. CASE Processes!Begin
    BY <1>3 DEF Processes!Begin, ProcessesUnique, ProcessesAsked, ProcessesComplete
<1>4. CASE Processes!Cancel
    BY <1>4 DEF Processes!Cancel, Processes!Idle
<1>5. CASE Processes!Query
    <2>1. /\ visit \in (1 .. NDevices) \X (1 .. 2) /\ visit' = Processes!after(visit)
          /\ visit # Processes!Idle
          /\ UNCHANGED <<running, stayed>>
        BY <1>5 DEF Processes!Query, Processes!Places, Processes!Idle
    <2>2. visit' \in (0 .. NDevices + 1) \X (1 .. 2) /\ visit[1] <= visit'[1]
        BY <2>1 DEF Processes!after
    <2>3. CASE UNCHANGED <<procs, answered>>
        BY <2>1, <2>2, <2>3 DEF ProcessesUnique, ProcessesAsked, ProcessesComplete
    <2>4. CASE ~UNCHANGED <<procs, answered>>
        <3> DEFINE asked == {x \in running : x[2] = visit /\ Processes!isNew(x[1])}
                   added == {[pid |-> x[1], gpu |-> visit[1]] : x \in asked}
        <3>1. answered' = answered \union {visit} /\ procs' = procs \union added
            BY <1>5, <2>4 DEF Processes!Query
        <3>2. \A p \in added : p.gpu = visit[1] /\ \A q \in procs : p.pid # q.pid
            BY DEF Processes!isNew
        <3>3. \A p, q \in added : p.pid = q.pid => p = q
            OBVIOUS
        <3>4. \A x \in running : x[2] = visit =>
                 \E p \in procs \union added : p.pid = x[1] /\ p.gpu <= visit[1]
            <4> SUFFICES ASSUME NEW x \in running, x[2] = visit
                         PROVE  \E p \in procs \union added : p.pid = x[1] /\ p.gpu <= visit[1]
                OBVIOUS
            <4>1. CASE Processes!isNew(x[1])
                <5> DEFINE p == [pid |-> x[1], gpu |-> visit[1]]
                <5>1. p \in added
                    BY <4>1
                <5>2. p.pid = x[1] /\ p.gpu <= visit[1]
                    BY <2>1
                <5> QED BY <5>1, <5>2
            <4>2. CASE ~Processes!isNew(x[1])
                BY <2>1, <4>2 DEF Processes!isNew, ProcessesAsked
            <4> QED BY <4>1, <4>2
        <3> HIDE DEF added
        <3>5. ProcessesUnique'
            BY <2>1, <3>1, <3>2, <3>3 DEF ProcessesUnique
        <3>6. ProcessesAsked'
            BY <2>1, <2>2, <3>1, <3>2 DEF ProcessesAsked
        <3>7. ProcessesComplete'
            BY <2>1, <3>1, <3>4 DEF ProcessesComplete
        <3> QED BY <2>1, <2>2, <3>5, <3>6, <3>7
    <2> QED BY <2>3, <2>4
<1> QED BY <1>1, <1>2, <1>3, <1>4, <1>5 DEF Processes!Next

(* ProcessesListedOnce: for every number of GPUs and of processes that      *)
(* start and end meanwhile, a list that CollectProcesses (nvml_linux.go)    *)
(* returns names each PID once and has those that stayed.                   *)
THEOREM ListedOnce == Spec => []ProcessesListedOnce
<1> DEFINE Inv == focus = "processes" => ProcessesInv
<1>1. Init => Inv
    BY ProcessesFocus, ProcessesInit
<1>2. Inv /\ [Next]_vars => Inv'
    BY ProcessesFocus, ProcessesStep
<1>3. Inv => ProcessesListedOnce
    <2>1. Processes!Done # Processes!Idle
        BY CollectorsAssumption DEF Processes!Done, Processes!Idle
    <2> QED BY <2>1 DEF ProcessesListedOnce, Processes!ProcessesListedOnce, ProcessesInv,
                        ProcessesUnique, ProcessesComplete
<1> QED BY <1>1, <1>2, <1>3, PTL DEF Spec

-----------------------------------------------------------------------------
(* UnixSocketApi.  A request is to a life that had published what since     *)
(* says, and an answer is what it has published meanwhile.                  *)
ApiTypes ==
    /\ born \in 0 .. MaxLives
    /\ state \in [Api!Lives -> Api!Running \union {"unborn", "failed", "blocked", "down", "killed"}]
    /\ path \in Api!Lives \union {0}
    /\ published \in [Api!Lives -> Nat]
    /\ conn \in [Clients -> Api!Lives \union {0}]
    /\ request \in [Clients -> {"none", "waiting", "answered"}]
    /\ since \in [Clients -> Nat]
    /\ answer \in [Clients -> {0} \union [ok : BOOLEAN, snapshot : Nat]]
    /\ overlapped \in BOOLEAN

ApiAnswered(c) ==
    /\ answer[c].ok => answer[c].snapshot # 0
    /\ ~answer[c].ok => since[c] = 0
    /\ answer[c].snapshot \in since[c] .. published[conn[c]]

ApiRequests ==
    \A c \in Clients : request[c] # "none" =>
        /\ conn[c] \in Api!Lives /\ since[c] <= published[conn[c]]
        /\ request[c] = "answered" => ApiAnswered(c)

(* While agents run one after the other, only the last one born runs; from  *)
(* the removal on the path is nobody's, and from Listen on it is its own.   *)
ApiAlone ==
    ~overlapped => \A l \in Api!Lives :
        /\ l > born => state[l] = "unborn"
        /\ state[l] \in Api!Running => l = born
        /\ state[l] # "blocked"
        /\ state[l] = "listen" => path = 0
        /\ state[l] \in {"chmod", "serving"} => path = l
        /\ state[l] = "down" /\ l = born => path = 0

ApiInv == ApiTypes /\ ApiRequests /\ ApiAlone

LEMMA ApiFocus ==
    /\ Init /\ focus = "api" => Api!Init
    /\ [Next]_vars /\ focus' = "api" => focus = "api" /\ [Api!Next]_apiVars
BY DEF Init, Next, vars, apiVars, kmsgRests, handlesRests, processesRests, enricherRests,
       hostRests, apiRests, gpuRests

LEMMA ApiInit == Api!Init => ApiInv
<1> SUFFICES ASSUME Api!Init PROVE ApiInv
    OBVIOUS
<1> USE CollectorsAssumption DEF Api!Init, Api!Running, Api!Starting
<1>1. ApiTypes
    <2>0. born = 0 /\ overlapped = FALSE /\ MaxLives \in Nat
        OBVIOUS
    <2>1. born \in 0 .. MaxLives
        BY ONLY <2>0, SMT
    <2>1a. overlapped \in BOOLEAN
        BY ONLY <2>0, Zenon
    <2>2. /\ state \in [Api!Lives -> Api!Running \union {"unborn", "failed", "blocked", "down", "killed"}]
          /\ path \in Api!Lives \union {0} /\ published \in [Api!Lives -> Nat]
        OBVIOUS
    <2>3. conn \in [Clients -> Api!Lives \union {0}] /\ since \in [Clients -> Nat]
          /\ request \in [Clients -> {"none", "waiting", "answered"}]
        OBVIOUS
    <2>4. answer \in [Clients -> {0} \union [ok : BOOLEAN, snapshot : Nat]]
        OBVIOUS
    <2> QED BY <2>1, <2>1a, <2>2, <2>3, <2>4 DEF ApiTypes
<1>2. ApiRequests
    BY DEF ApiRequests
<1>3. ApiAlone
    BY DEF ApiAlone
<1> QED BY <1>1, <1>2, <1>3 DEF ApiInv

(* A step of an agent that publishes nothing leaves every request alone.    *)
LEMMA ApiBecomes ==
    ASSUME ApiInv, NEW l \in Api!Lives, NEW s \in Api!Running \union {"failed", "blocked", "down", "killed"},
           Api!becomes(l, s), path' \in Api!Lives \union {0}
    PROVE  ApiTypes' /\ ApiRequests'
<1>1. ApiTypes'
    BY DEF Api!becomes, Api!clientVars, ApiInv, ApiTypes
<1>2. ApiRequests'
    BY DEF Api!becomes, Api!clientVars, ApiInv, ApiRequests, ApiAnswered
<1> QED BY <1>1, <1>2

LEMMA ApiStep == ApiInv /\ [Api!Next]_apiVars => ApiInv'
<1> SUFFICES ASSUME ApiInv, [Api!Next]_apiVars PROVE ApiInv'
    OBVIOUS
<1> USE CollectorsAssumption
<1>1. CASE UNCHANGED apiVars
    BY <1>1 DEF apiVars, ApiInv, ApiTypes, ApiRequests, ApiAnswered, ApiAlone
<1>2. ASSUME NEW l \in Api!Lives, Api!Start(l) PROVE ApiInv'
    <2>1. ApiTypes'
        BY <1>2 DEF Api!Start, Api!clientVars, Api!Lives, Api!Running, Api!Starting, ApiInv, ApiTypes
    <2>2. ApiRequests'
        BY <1>2 DEF Api!Start, Api!clientVars, ApiInv, ApiRequests, ApiAnswered
    <2>3. ApiAlone'
        <3>1. /\ l = born + 1 /\ born' = l /\ path' = path /\ l \in Nat /\ born \in Nat
              /\ state' = [state EXCEPT ![l] = "remove"]
            BY <1>2 DEF Api!Start, Api!Lives, ApiInv, ApiTypes
        <3>a. ~overlapped' => ~overlapped /\ \A k \in Api!Lives : state[k] \notin Api!Running
            <4>1. overlapped' = (overlapped \/ \E k \in Api!Lives : state[k] \in Api!Running)
                BY <1>2 DEF Api!Start
            <4> QED BY <4>1, Zenon
        <3>2. Api!Lives \subseteq Nat /\ "remove" \in Api!Running
            BY DEF Api!Lives, Api!Running, Api!Starting
        <3>3. state'[l] = "remove" /\ \A k \in Api!Lives \ {l} : state'[k] = state[k]
            BY <3>1 DEF ApiInv, ApiTypes
        <3>4. {"chmod", "serving", "listen"} \subseteq Api!Running
            BY DEF Api!Running, Api!Starting
        <3> SUFFICES ASSUME ~overlapped', NEW k \in Api!Lives
                     PROVE  /\ k > l => state'[k] = "unborn"
                            /\ state'[k] \in Api!Running => k = l
                            /\ state'[k] # "blocked"
                            /\ state'[k] = "listen" => path = 0
                            /\ state'[k] \in {"chmod", "serving"} => path = k
                            /\ state'[k] = "down" /\ k = l => path = 0
            BY <3>1 DEF ApiAlone
        <3>b. ~overlapped /\ \A j \in Api!Lives : state[j] \notin Api!Running
            BY <3>a
        <3>5. CASE k = l
            BY <3>1, <3>2, <3>3, <3>5
        <3>6. CASE k # l
            BY <3>1, <3>2, <3>3, <3>4, <3>6, <3>b DEF ApiInv, ApiAlone
        <3> QED BY <3>5, <3>6
    <2> QED BY <2>1, <2>2, <2>3 DEF ApiInv
<1>3. ASSUME NEW l \in Api!Lives,
             \/ Api!RemoveStale(l) \/ Api!Listen(l) \/ Api!Chmod(l) \/ Api!Shutdown(l)
             \/ Api!Drained(l) \/ Api!RemoveSocket(l) \/ Api!Kill(l)
      PROVE  ApiInv'
    <2> USE DEF Api!RemoveStale, Api!removed, Api!Listen, Api!Chmod, Api!Shutdown, Api!Drained,
                Api!RemoveSocket, Api!Kill, Api!Running, Api!Starting
    <2>1. PICK s \in Api!Running \union {"failed", "blocked", "down", "killed"} : Api!becomes(l, s)
        BY <1>3
    <2>2. path' \in Api!Lives \union {0}
        BY <1>3 DEF ApiInv, ApiTypes
    <2>3. ApiTypes' /\ ApiRequests'
        BY <2>1, <2>2, ApiBecomes
    <2>4. ApiAlone'
        BY <1>3 DEF Api!becomes, Api!Lives, ApiInv, ApiTypes, ApiAlone
    <2> QED BY <2>3, <2>4 DEF ApiInv
<1>4. ASSUME NEW l \in Api!Lives, Api!Publish(l) PROVE ApiInv'
    <2> USE <1>4 DEF Api!Publish, Api!clientVars, ApiInv
    <2>1. ApiTypes'
        BY DEF ApiTypes
    <2>2. \A k \in Api!Lives : published[k] \in Nat /\ published'[k] \in Nat
                                 /\ published[k] <= published'[k]
        BY DEF ApiTypes
    <2>3. ApiRequests'
        BY <2>1, <2>2 DEF ApiTypes, ApiRequests, ApiAnswered
    <2>4. ApiAlone'
        BY DEF ApiAlone
    <2> QED BY <2>1, <2>3, <2>4
<1>5. ASSUME NEW c \in Clients, Api!Get(c) PROVE ApiInv'
    <2> USE <1>5 DEF Api!Get, ApiInv
    <2>1. Api!target(c) \in Api!Lives
        BY DEF Api!accepts, Api!target, ApiTypes
    <2>2. ApiTypes'
        BY <2>1 DEF ApiTypes
    <2>3. ApiRequests'
        BY <2>1 DEF ApiTypes, ApiRequests, ApiAnswered
    <2>4. ApiAlone'
        BY DEF ApiAlone
    <2> QED BY <2>2, <2>3, <2>4
<1>6. ASSUME NEW c \in Clients, Api!handleSnapshot(c) PROVE ApiInv'
    <2> USE <1>6 DEF Api!handleSnapshot, ApiInv
    <2>1. conn[c] \in Api!Lives /\ since[c] <= published[conn[c]]
        BY DEF ApiRequests
    <2>2. Api!respond(conn[c]) \in [ok : BOOLEAN, snapshot : Nat]
        BY <2>1 DEF Api!respond, ApiTypes
    <2>3. ApiTypes'
        BY <2>2 DEF ApiTypes
    <2>4. ApiRequests'
        <3>1. ASSUME NEW d \in Clients \ {c}
              PROVE  /\ answer'[d] = answer[d] /\ request'[d] = request[d]
                     /\ since'[d] = since[d] /\ published'[conn'[d]] = published[conn[d]]
            BY DEF ApiTypes
        <3>2. ApiAnswered(c)'
            <4> DEFINE n == published[conn[c]]
            <4>1. n \in Nat /\ since[c] \in Nat
                BY <2>1 DEF ApiTypes
            <4>2. /\ answer'[c].ok <=> n # 0
                  /\ answer'[c].snapshot = n
                  /\ since'[c] = since[c] /\ published'[conn'[c]] = n
                BY DEF ApiTypes, Api!respond
            <4>3. since[c] <= n
                BY <2>1
            <4> HIDE DEF n
            <4>4. n \in since[c] .. n
                BY <4>1, <4>3
            <4>5. ~answer'[c].ok => since'[c] = 0
                BY <4>1, <4>2, <4>3
            <4>6. answer'[c].ok => answer'[c].snapshot # 0
                BY <4>2
            <4>7. answer'[c].snapshot \in since'[c] .. published'[conn'[c]]
                BY <4>2, <4>4
            <4> QED BY <4>5, <4>6, <4>7 DEF ApiAnswered
        <3> QED BY <2>1, <3>1, <3>2 DEF ApiRequests, ApiAnswered
    <2>5. ApiAlone'
        BY DEF ApiAlone
    <2> QED BY <2>3, <2>4, <2>5
<1>7. ASSUME NEW c \in Clients, Api!FetchSnapshot(c) PROVE ApiInv'
    <2> USE <1>7 DEF Api!FetchSnapshot, ApiInv
    <2>1. ApiTypes'
        BY DEF ApiTypes
    <2>2. ApiRequests'
        BY DEF ApiTypes, ApiRequests, ApiAnswered
    <2>3. ApiAlone'
        BY DEF ApiAlone
    <2> QED BY <2>1, <2>2, <2>3
<1> QED BY <1>1, <1>2, <1>3, <1>4, <1>5, <1>6, <1>7 DEF Api!Next

LEMMA ApiAlways == Spec => [](focus = "api" => ApiInv)
<1> DEFINE Inv == focus = "api" => ApiInv
<1>1. Init => Inv
    BY ApiFocus, ApiInit
<1>2. Inv /\ [Next]_vars => Inv'
    BY ApiFocus, ApiStep
<1> QED BY <1>1, <1>2, PTL DEF Spec

(* AgentIsReachable: over any number of starts, kills and shutdowns of      *)
(* unixsock's server, one after the other, none is kept from listening and  *)
(* the path leads to the one that serves.                                   *)
THEOREM ReachableAgent == Spec => []AgentIsReachable
<1>1. (focus = "api" => ApiInv) => AgentIsReachable
    BY DEF ApiInv, ApiAlone, AgentIsReachable, Api!AgentIsReachable
<1> QED BY <1>1, ApiAlways, PTL

(* AnswersAreCurrent: every client of handleSnapshot gets a snapshot that   *)
(* was published, not older than its request.                               *)
THEOREM CurrentAnswers == Spec => []AnswersAreCurrent
<1>1. (focus = "api" => ApiInv) => AnswersAreCurrent
    BY DEF ApiInv, ApiRequests, ApiAnswered, AnswersAreCurrent, Api!AnswersAreCurrent
<1> QED BY <1>1, ApiAlways, PTL

-----------------------------------------------------------------------------
(* GpuRules.  The hints about a GPU are those of its GPUStat, and every     *)
(* rule fires at most where it fires without failures.                      *)
GpuInv ==
    /\ gpuAt # "collect" => stat = Gpu!collectDeviceStat(device, failed)
    /\ gpuAt \in {"show", "shown"} =>
          hints = Gpu!gpuHints(stat) \union Gpu!CPUBound(stat, node) \union Gpu!IOBound(stat, node)
    /\ gpuAt = "shown" => badge = Gpu!gpuStateBadges(stat)

LEMMA GpuFocus ==
    /\ Init /\ focus = "gpu" => Gpu!Init
    /\ [Next]_vars /\ focus' = "gpu" => focus = "gpu" /\ [Gpu!Next]_gpuVars
BY DEF Init, Next, vars, gpuVars, kmsgRests, handlesRests, processesRests, enricherRests,
       hostRests, apiRests, gpuRests

LEMMA GpuStep == GpuInv /\ [Gpu!Next]_gpuVars => GpuInv'
<1> SUFFICES ASSUME GpuInv, [Gpu!Next]_gpuVars PROVE GpuInv'
    OBVIOUS
<1>1. CASE UNCHANGED gpuVars
    BY <1>1 DEF gpuVars, GpuInv
<1>2. CASE Gpu!Collect
    BY <1>2 DEF Gpu!Collect, GpuInv
<1>3. CASE Gpu!Evaluate
    BY <1>3 DEF Gpu!Evaluate, GpuInv
<1>4. CASE Gpu!Show
    BY <1>4 DEF Gpu!Show, GpuInv
<1> QED BY <1>1, <1>2, <1>3, <1>4 DEF Gpu!Next

(* What collectDeviceStat leaves in each field. *)
LEMMA FieldOfStat ==
    ASSUME NEW d, NEW f
    PROVE  LET g == Gpu!collectDeviceStat(d, f)
           IN  /\ g.util = IF "util" \in f THEN 0 ELSE d.util
               /\ g.memUtil = IF "util" \in f THEN 0 ELSE d.memUtil
               /\ g.vram = IF "memory" \in f THEN 0 ELSE d.vram
               /\ g.reasons = IF "reasons" \in f THEN {} ELSE d.reasons
               /\ g.pstate = IF "pstate" \in f THEN 32 ELSE d.pstate
               /\ g.gen = IF "gen" \in f THEN 0 ELSE d.gen
               /\ g.genMax = IF "genMax" \in f THEN 0 ELSE d.genMax
               /\ g.width = IF "width" \in f THEN 0 ELSE d.width
               /\ g.widthMax = IF "widthMax" \in f THEN 0 ELSE d.widthMax
BY DEF Gpu!collectDeviceStat, Gpu!noStat, Gpu!queryOf

LEMMA NoHintFromFailure ==
    ASSUME NEW d, NEW f
    PROVE  Gpu!gpuHints(Gpu!collectDeviceStat(d, f)) \subseteq Gpu!gpuHints(Gpu!collectDeviceStat(d, {}))
<1> DEFINE g == Gpu!collectDeviceStat(d, f)
           all == Gpu!collectDeviceStat(d, {})
<1>1. /\ all.util = d.util /\ all.memUtil = d.memUtil /\ all.vram = d.vram
      /\ all.reasons = d.reasons /\ all.pstate = d.pstate
      /\ all.gen = d.gen /\ all.genMax = d.genMax /\ all.width = d.width /\ all.widthMax = d.widthMax
    BY FieldOfStat
<1>2. /\ g.util = IF "util" \in f THEN 0 ELSE d.util
      /\ g.memUtil = IF "util" \in f THEN 0 ELSE d.memUtil
      /\ g.vram = IF "memory" \in f THEN 0 ELSE d.vram
      /\ g.reasons = IF "reasons" \in f THEN {} ELSE d.reasons
      /\ g.pstate = IF "pstate" \in f THEN 32 ELSE d.pstate
      /\ g.gen = IF "gen" \in f THEN 0 ELSE d.gen
      /\ g.genMax = IF "genMax" \in f THEN 0 ELSE d.genMax
      /\ g.width = IF "width" \in f THEN 0 ELSE d.width
      /\ g.widthMax = IF "widthMax" \in f THEN 0 ELSE d.widthMax
    BY FieldOfStat
<1> HIDE DEF g, all
<1>3. ASSUME NEW name, NEW before, NEW after, before => after
      PROVE  Gpu!warning(name, before) \subseteq Gpu!warning(name, after)
    BY <1>3 DEF Gpu!warning
<1>4. Gpu!ConfirmedThrottle(g) \subseteq Gpu!ConfirmedThrottle(all)
    <2>1. CASE g.reasons = all.reasons
        BY <2>1 DEF Gpu!ConfirmedThrottle
    <2>2. CASE g.reasons = {}
        BY <2>2 DEF Gpu!ConfirmedThrottle
    <2> QED BY <1>1, <1>2, <2>1, <2>2
<1>5. Gpu!GPUParked(g) \subseteq Gpu!GPUParked(all)
    <2>1. g.pstate >= 8 /\ g.pstate < 32 /\ g.vram >= 1024 =>
              all.pstate >= 8 /\ all.pstate < 32 /\ all.vram >= 1024
        BY <1>1, <1>2
    <2> QED BY <2>1 DEF Gpu!GPUParked, Gpu!warning
<1>6. Gpu!MemoryBandwidthBound(g) \subseteq Gpu!MemoryBandwidthBound(all)
    <2>1. g.util < 50 /\ g.memUtil >= 80 => all.util < 50 /\ all.memUtil >= 80
        BY <1>1, <1>2
    <2> QED BY <2>1 DEF Gpu!MemoryBandwidthBound, Gpu!warning
<1>7. Gpu!PCIeLinkDegraded(g) \subseteq Gpu!PCIeLinkDegraded(all)
    <2>1. g.genMax # 0 /\ g.widthMax # 0
              /\ (Gpu!degraded(g.gen, g.genMax) \/ Gpu!degraded(g.width, g.widthMax)) =>
          all.genMax # 0 /\ all.widthMax # 0
              /\ (Gpu!degraded(all.gen, all.genMax) \/ Gpu!degraded(all.width, all.widthMax))
        BY <1>1, <1>2 DEF Gpu!degraded
    <2> QED BY <2>1 DEF Gpu!PCIeLinkDegraded, Gpu!warning
<1> QED BY <1>4, <1>5, <1>6, <1>7 DEF Gpu!gpuHints, g, all

(* FailuresAccuseNoGPU: whichever queries of collectDeviceStat              *)
(* (nvml_linux.go) fail, and whatever the driver says, no rule about a GPU  *)
(* fires that would not fire on the driver's full answers.                  *)
THEOREM FailuresAccuseNone == Spec => []FailuresAccuseNoGPU
<1> DEFINE Inv == focus = "gpu" => GpuInv
<1>1. Init => Inv
    BY GpuFocus DEF Gpu!Init, GpuInv
<1>2. Inv /\ [Next]_vars => Inv'
    BY GpuFocus, GpuStep
<1>3. Inv => FailuresAccuseNoGPU
    <2> SUFFICES ASSUME GpuInv, gpuAt = "show", NEW h \in hints,
                        h.name \notin {"potential-cpu-bound-preprocessing", "potential-io-bound-pipeline"}
                 PROVE  h \in Gpu!gpuHints(Gpu!collectDeviceStat(device, {}))
        BY DEF FailuresAccuseNoGPU, Gpu!FailuresAccuseNoGPU
    <2>1. h \notin Gpu!CPUBound(stat, node) /\ h \notin Gpu!IOBound(stat, node)
        BY DEF Gpu!CPUBound, Gpu!IOBound, Gpu!warning
    <2> QED BY <2>1, NoHintFromFailure DEF GpuInv
<1> QED BY <1>1, <1>2, <1>3, PTL DEF Spec

(* The loop of decodeThrottleReasons, after each of its steps. *)
Naming(bits, f) ==
    f = [i \in 0 .. Len(Gpu!reasonNames) |->
            IF i = 0 THEN <<>>
            ELSE IF Gpu!reasonNames[i] \in bits THEN Append(f[i - 1], Gpu!reasonNames[i]) ELSE f[i - 1]]

Reasons == {Gpu!reasonNames[i] : i \in 1 .. 6}

LEMMA NamesInOrder ==
    Len(Gpu!reasonNames) = 6 /\ \A i \in 1 .. 6 : Gpu!reasonNames[i] \in Reasons
BY DEF Gpu!reasonNames, Reasons

LEMMA NamingExists == ASSUME NEW bits PROVE \E f : Naming(bits, f)
<1> DEFINE with(s, i) == IF Gpu!reasonNames[i] \in bits THEN Append(s, Gpu!reasonNames[i]) ELSE s
           s1 == with(<<>>, 1)
           s2 == with(s1, 2)
           s3 == with(s2, 3)
           s4 == with(s3, 4)
           s5 == with(s4, 5)
           f == [i \in 0 .. 6 |-> IF i = 0 THEN <<>> ELSE IF i = 1 THEN s1 ELSE IF i = 2 THEN s2
                    ELSE IF i = 3 THEN s3 ELSE IF i = 4 THEN s4 ELSE IF i = 5 THEN s5 ELSE with(s5, 6)]
<1>1. s2 = with(s1, 2) /\ s3 = with(s2, 3) /\ s4 = with(s3, 4) /\ s5 = with(s4, 5) /\ s1 = with(<<>>, 1)
    OBVIOUS
<1> HIDE DEF with, s1, s2, s3, s4, s5
<1>2. \A i \in 0 .. 6 : f[i] = IF i = 0 THEN <<>> ELSE with(f[i - 1], i)
    <2>1. /\ f[0] = <<>> /\ f[1] = s1 /\ f[2] = s2 /\ f[3] = s3 /\ f[4] = s4 /\ f[5] = s5
          /\ f[6] = with(s5, 6)
        OBVIOUS
    <2>2. \A i \in 0 .. 6 : i = 0 \/ i = 1 \/ i = 2 \/ i = 3 \/ i = 4 \/ i = 5 \/ i = 6
        OBVIOUS
    <2>3. 1 - 1 = 0 /\ 2 - 1 = 1 /\ 3 - 1 = 2 /\ 4 - 1 = 3 /\ 5 - 1 = 4 /\ 6 - 1 = 5
        OBVIOUS
    <2> HIDE DEF f
    <2> QED BY <1>1, <2>1, <2>2, <2>3
<1>3. f = [i \in 0 .. 6 |-> f[i]]
    OBVIOUS
<1> HIDE DEF f
<1>4. f = [i \in 0 .. 6 |-> IF i = 0 THEN <<>> ELSE with(f[i - 1], i)]
    BY <1>2, <1>3
<1>5. Naming(bits, f)
    BY <1>4, NamesInOrder DEF Naming, with
<1> QED BY <1>5

(* The names listed after i steps: none, or the first that applies first.   *)
ListsFirst(bits, s, i) ==
    /\ s \in Seq(Reasons)
    /\ \/ s = <<>> /\ \A j \in 1 .. i : Gpu!reasonNames[j] \notin bits
       \/ /\ s # <<>>
          /\ \E j \in 1 .. i :
                /\ Gpu!reasonNames[j] \in bits /\ s[1] = Gpu!reasonNames[j]
                /\ \A k \in 1 .. j - 1 : Gpu!reasonNames[k] \notin bits

LEMMA NamingStep ==
    ASSUME NEW bits, NEW s, NEW i \in 0 .. 5, ListsFirst(bits, s, i)
    PROVE  ListsFirst(bits, IF Gpu!reasonNames[i + 1] \in bits THEN Append(s, Gpu!reasonNames[i + 1]) ELSE s, i + 1)
<1> DEFINE r == Gpu!reasonNames[i + 1]
           t == IF r \in bits THEN Append(s, r) ELSE s
<1>1. s \in Seq(Reasons) /\ r \in Reasons
    BY NamesInOrder DEF ListsFirst
<1> SUFFICES ListsFirst(bits, t, i + 1)
    OBVIOUS
<1>2. t \in Seq(Reasons)
    <2>1. Append(s, r) \in Seq(Reasons)
        BY <1>1
    <2> QED BY <1>1, <2>1
<1>3. CASE s = <<>> /\ r \notin bits
    <2>1. t = <<>> /\ \A j \in 1 .. i : Gpu!reasonNames[j] \notin bits
        BY <1>3 DEF ListsFirst
    <2>2. \A j \in 1 .. i + 1 : j \in 1 .. i \/ j = i + 1
        OBVIOUS
    <2> QED BY <1>2, <1>3, <2>1, <2>2 DEF ListsFirst
<1>4. CASE s = <<>> /\ r \in bits
    <2>1. t # <<>> /\ t[1] = r
        BY <1>1, <1>4
    <2>2. i + 1 \in 1 .. i + 1 /\ \A k \in 1 .. (i + 1) - 1 : Gpu!reasonNames[k] \notin bits
        BY <1>4 DEF ListsFirst
    <2> QED BY <1>2, <1>4, <2>1, <2>2 DEF ListsFirst
<1>5. CASE s # <<>>
    <2>1. t # <<>> /\ t[1] = s[1]
        BY <1>1, <1>5
    <2>2. PICK j \in 1 .. i : /\ Gpu!reasonNames[j] \in bits /\ s[1] = Gpu!reasonNames[j]
                             /\ \A k \in 1 .. j - 1 : Gpu!reasonNames[k] \notin bits
        BY <1>5 DEF ListsFirst
    <2>3. j \in 1 .. i + 1
        OBVIOUS
    <2> HIDE DEF t
    <2> QED BY <1>2, <2>1, <2>2, <2>3 DEF ListsFirst
<1> QED BY <1>3, <1>4, <1>5

(* The hint lists first the reason that the label names. *)
LEMMA FirstReason ==
    ASSUME NEW bits
    PROVE  LET masked == bits \ Gpu!throttleIgnore
           IN  /\ masked # {} => Gpu!decodeTUIThrottle(bits) = SubSeq(Gpu!decodeThrottleReasons(masked), 1, 1)
               /\ masked = {} => Gpu!decodeTUIThrottle(bits) = <<>>
<1> DEFINE masked == bits \ Gpu!throttleIgnore
           f == CHOOSE f : Naming(masked, f)
           all == f[6]
           first == {i \in 1 .. 6 : Gpu!reasonNames[i] \in masked}
<1>0. first # {} => Gpu!Min(first) \in first /\ \A i \in first : Gpu!Min(first) <= i
    <2> SUFFICES ASSUME first # {} PROVE \E x \in first : \A y \in first : x <= y
        BY DEF Gpu!Min
    <2>1. first \subseteq Nat
        OBVIOUS
    <2> QED BY <2>1, LeastNumber
<1>1. Naming(masked, f)
    BY NamingExists
<1>2. Gpu!decodeThrottleReasons(masked) = IF all = <<>> THEN <<"HEX">> ELSE all
    BY NamesInOrder DEF Gpu!decodeThrottleReasons, Naming
<1>3. Gpu!decodeTUIThrottle(bits) =
        IF masked = {} THEN <<>>
        ELSE IF first = {} THEN <<"HEX">> ELSE <<Gpu!reasonNames[Gpu!Min(first)]>>
    <2>1. masked = bits \ {"GPU_IDLE", "APPLICATIONS_CLOCKS", "DISPLAY_CLOCK"}
        BY DEF Gpu!throttleIgnore
    <2>2. CASE first = {}
        BY <2>1, <2>2, NamesInOrder DEF Gpu!decodeTUIThrottle, Gpu!SelectInSeq
    <2>3. CASE first # {}
        <3>1. Gpu!Min(first) # 0
            BY <1>0, <2>3
        <3> QED BY <2>1, <2>3, <3>1, NamesInOrder DEF Gpu!decodeTUIThrottle, Gpu!SelectInSeq
    <2> QED BY <2>2, <2>3
<1> HIDE DEF f
<1>4. ListsFirst(masked, all, 6)
    <2>1. /\ f[0] = <<>>
          /\ \A i \in 0 .. 5 : f[i + 1] = IF Gpu!reasonNames[i + 1] \in masked
                                         THEN Append(f[i], Gpu!reasonNames[i + 1]) ELSE f[i]
        <3>1. \A i \in 0 .. 6 : f[i] = IF i = 0 THEN <<>>
                                ELSE IF Gpu!reasonNames[i] \in masked
                                THEN Append(f[i - 1], Gpu!reasonNames[i]) ELSE f[i - 1]
            BY <1>1, NamesInOrder DEF Naming
        <3>2. \A i \in 0 .. 5 : i + 1 \in 0 .. 6 /\ i + 1 # 0 /\ (i + 1) - 1 = i
            OBVIOUS
        <3> QED BY <3>1, <3>2
    <2>2. ListsFirst(masked, f[0], 0)
        BY <2>1 DEF ListsFirst
    <2>3. \A i \in 0 .. 5 : ListsFirst(masked, f[i], i) => ListsFirst(masked, f[i + 1], i + 1)
        BY <2>1, NamingStep
    <2>4. 0 + 1 = 1 /\ 1 + 1 = 2 /\ 2 + 1 = 3 /\ 3 + 1 = 4 /\ 4 + 1 = 5 /\ 5 + 1 = 6
        OBVIOUS
    <2> QED BY <2>2, <2>3, <2>4
<1>5. CASE masked = {}
    BY <1>3, <1>5
<1>6. CASE masked # {} /\ first = {}
    <2>1. all = <<>>
        BY <1>4, <1>6 DEF ListsFirst
    <2> QED BY <1>2, <1>3, <1>6, <2>1
<1>7. CASE masked # {} /\ first # {}
    <2>1. PICK j \in 1 .. 6 : /\ Gpu!reasonNames[j] \in masked /\ all[1] = Gpu!reasonNames[j]
                             /\ \A k \in 1 .. j - 1 : Gpu!reasonNames[k] \notin masked
        BY <1>4, <1>7 DEF ListsFirst
    <2>2. all \in Seq(Reasons) /\ all # <<>>
        BY <1>4, <1>7 DEF ListsFirst
    <2>3. Gpu!Min(first) = j
        <3>1. j \in first /\ Gpu!Min(first) \in 1 .. 6 /\ Gpu!Min(first) <= j
            BY <1>0, <1>7, <2>1
        <3>2. Gpu!reasonNames[Gpu!Min(first)] \in masked
            BY <1>0, <1>7
        <3> HIDE DEF first
        <3> QED BY <2>1, <3>1, <3>2
    <2>4. SubSeq(all, 1, 1) = <<all[1]>>
        <3> HIDE DEF all
        <3>1. Len(all) \in Nat /\ Len(all) >= 1
            BY <2>2
        <3>2. SubSeq(all, 1, 1) \in Seq(Reasons) /\ Len(SubSeq(all, 1, 1)) = 1 /\ SubSeq(all, 1, 1)[1] = all[1]
            BY <2>2, <3>1
        <3>3. <<all[1]>> \in Seq(Reasons) /\ Len(<<all[1]>>) = 1 /\ <<all[1]>>[1] = all[1]
            BY <2>2, <3>1
        <3>4. \A i \in 1 .. 1 : i = 1
            OBVIOUS
        <3> QED BY <3>2, <3>3, <3>4, SameSequence
    <2> HIDE DEF all, masked, first
    <2>5. Gpu!decodeTUIThrottle(bits) = <<Gpu!reasonNames[j]>>
        BY <1>3, <1>7, <2>3
    <2>6. Gpu!decodeThrottleReasons(masked) = all
        BY <1>2, <2>2
    <2> QED BY <1>7, <2>1, <2>4, <2>5, <2>6 DEF masked
<1> QED BY <1>5, <1>6, <1>7

(* BadgesMirrorHints: the label of decodeTUIThrottle (tui.go) is the first  *)
(* reason of the throttle hint, for any bitmap, and a parked GPU's state is *)
(* shown.                                                                   *)
THEOREM LabelsAgree == Spec => []BadgesMirrorHints
<1> DEFINE Inv == focus = "gpu" => GpuInv
<1>1. Init => Inv
    BY GpuFocus DEF Gpu!Init, GpuInv
<1>2. Inv /\ [Next]_vars => Inv'
    BY GpuFocus, GpuStep
<1>3. Inv => BadgesMirrorHints
    <2> SUFFICES ASSUME GpuInv, gpuAt = "shown" PROVE Gpu!BadgesMirrorHints
        BY DEF BadgesMirrorHints, Gpu!BadgesMirrorHints
    <2> DEFINE throttled == {k \in hints : k.name = "confirmed-throttle"}
               masked == stat.reasons \ Gpu!throttleIgnore
    <2>1. /\ hints = Gpu!gpuHints(stat) \union Gpu!CPUBound(stat, node) \union Gpu!IOBound(stat, node)
          /\ badge = Gpu!gpuStateBadges(stat)
        BY DEF GpuInv
    <2>2. throttled = Gpu!ConfirmedThrottle(stat)
        <3>1. \A h \in Gpu!ConfirmedThrottle(stat) : h.name = "confirmed-throttle"
            BY DEF Gpu!ConfirmedThrottle
        <3>2. \A h \in Gpu!GPUParked(stat) \union Gpu!MemoryBandwidthBound(stat)
                         \union Gpu!PCIeLinkDegraded(stat) \union Gpu!CPUBound(stat, node)
                         \union Gpu!IOBound(stat, node) : h.name # "confirmed-throttle"
            BY DEF Gpu!GPUParked, Gpu!MemoryBandwidthBound, Gpu!PCIeLinkDegraded, Gpu!CPUBound,
                   Gpu!IOBound, Gpu!warning
        <3> QED BY <2>1, <3>1, <3>2 DEF Gpu!gpuHints
    <2>3. badge.throttle = Gpu!decodeTUIThrottle(stat.reasons)
        BY <2>1 DEF Gpu!gpuStateBadges
    <2>4. {SubSeq(h.reasons, 1, 1) : h \in throttled} = {b \in {badge.throttle} : b # <<>>}
        <3>1. CASE masked = {}
            <4>1. Gpu!ConfirmedThrottle(stat) = {}
                BY <3>1 DEF Gpu!ConfirmedThrottle
            <4>2. badge.throttle = <<>>
                BY <2>3, <3>1, FirstReason
            <4> QED BY <2>2, <4>1, <4>2
        <3>2. CASE masked # {}
            <4> DEFINE first == SubSeq(Gpu!decodeThrottleReasons(masked), 1, 1)
            <4>1. \A h \in throttled : SubSeq(h.reasons, 1, 1) = first
                <5>1. \A h \in throttled : h.reasons = Gpu!decodeThrottleReasons(masked)
                    BY <2>2 DEF Gpu!ConfirmedThrottle
                <5> QED BY <5>1
            <4>2. throttled # {}
                <5>1. PICK s \in {"warning", "critical"} :
                        (s = "critical") = (stat.reasons \intersect Gpu!throttleHwCritical # {})
                    OBVIOUS
                <5>2. [name |-> "confirmed-throttle", severity |-> s,
                       reasons |-> Gpu!decodeThrottleReasons(masked)] \in Gpu!ConfirmedThrottle(stat)
                    BY <3>2, <5>1 DEF Gpu!ConfirmedThrottle
                <5> QED BY <2>2, <5>2
            <4>3. badge.throttle = first
                BY <2>3, <3>2, FirstReason
            <4>4. badge.throttle # <<>>
                <5>1. \A r : <<r>> # <<>>
                    OBVIOUS
                <5>2. masked = stat.reasons \ {"GPU_IDLE", "APPLICATIONS_CLOCKS", "DISPLAY_CLOCK"}
                    BY DEF Gpu!throttleIgnore
                <5>3. \E r : badge.throttle = <<r>>
                    BY <2>3, <3>2, <5>2 DEF Gpu!decodeTUIThrottle
                <5> QED BY <5>1, <5>3
            <4> HIDE DEF first, throttled
            <4> QED BY <4>1, <4>2, <4>3, <4>4
        <3> QED BY <3>1, <3>2
    <2>5. (\E h \in hints : h.name = "gpu-parked") => badge.parked
        <3> SUFFICES ASSUME NEW h \in hints, h.name = "gpu-parked" PROVE badge.parked
            OBVIOUS
        <3>1. h \in Gpu!GPUParked(stat)
            BY <2>1 DEF Gpu!gpuHints, Gpu!ConfirmedThrottle, Gpu!MemoryBandwidthBound,
                        Gpu!PCIeLinkDegraded, Gpu!CPUBound, Gpu!IOBound, Gpu!warning
        <3> QED BY <2>1, <3>1 DEF Gpu!GPUParked, Gpu!warning, Gpu!gpuStateBadges
    <2> QED BY <2>4, <2>5 DEF Gpu!BadgesMirrorHints
<1> QED BY <1>1, <1>2, <1>3, PTL DEF Spec

-----------------------------------------------------------------------------
(* Enricher.  A process is its start time; 0 is nobody.                     *)
EnricherTypes ==
    /\ life \in [Pids -> [start : Nat, cpu : 0 .. MaxCpu]]
    /\ \A p \in Pids : life[p].start = 0 => life[p].cpu = 0
    /\ starts \in Nat /\ pid \in Pids
    /\ todo \subseteq Pids

(* A name is a process's own, or of a process that came during a lookup.    *)
Named(start, name, late) == start = 0 \/ start \in late \/ name = start

EnricherNames ==
    /\ enricherAt = "times" => Named(life[pid].start, cmd, torn)
    /\ \A p \in DOMAIN identity : Named(identity[p].start, identity[p].cmd, torn)
    /\ \A p \in DOMAIN shown : Named(shown[p].start, shown[p].cmd, torn)

(* A buffer of counters that is what a call has shown.                      *)
Mirrors(buffer, stats) ==
    /\ DOMAIN buffer = DOMAIN stats
    /\ \A p \in DOMAIN buffer :
          /\ buffer[p].start = stats[p].start
          /\ buffer[p].cpu \in 0 .. MaxCpu
          /\ buffer[p].start = 0 => buffer[p].cpu = 0

(* Between two calls prev is what the last one has shown; in a call it is   *)
(* what the one before it has, and curr what this one has so far.           *)
EnricherBuffers ==
    IF enricherAt = "idle" THEN Mirrors(enricherPrev, shown)
    ELSE Mirrors(enricherPrev, lastShown) /\ Mirrors(curr, shown)

EnricherInv == EnricherTypes /\ EnricherNames /\ EnricherBuffers /\ Enricher!CpuUseIsOwn

LEMMA EnricherFocus ==
    /\ Init /\ focus = "enricher" => Enricher!Init
    /\ [Next]_vars /\ focus' = "enricher" => focus = "enricher" /\ [Enricher!Next]_enricherVars
BY DEF Init, Next, vars, enricherVars, kmsgRests, handlesRests, processesRests, enricherRests,
       hostRests, apiRests, gpuRests

LEMMA MirrorsGrows ==
    ASSUME NEW buffer, NEW stats, Mirrors(buffer, stats),
           NEW p, NEW value, NEW stat0,
           value.start = stat0.start, value.cpu \in 0 .. MaxCpu, value.start = 0 => value.cpu = 0
    PROVE  Mirrors(Enricher!with(buffer, p, value), Enricher!with(stats, p, stat0))
<1> DEFINE g == Enricher!with(buffer, p, value)
           h == Enricher!with(stats, p, stat0)
<1>1. DOMAIN g = DOMAIN buffer \union {p} /\ g[p] = value
      /\ \A q \in DOMAIN buffer : q # p => g[q] = buffer[q]
    BY DEF Enricher!with
<1>2. DOMAIN h = DOMAIN stats \union {p} /\ h[p] = stat0
      /\ \A q \in DOMAIN stats : q # p => h[q] = stats[q]
    BY DEF Enricher!with
<1> HIDE DEF g, h
<1>3. DOMAIN g = DOMAIN h
    BY <1>1, <1>2 DEF Mirrors
<1>4. ASSUME NEW q \in DOMAIN g
      PROVE  /\ g[q].start = h[q].start
             /\ g[q].cpu \in 0 .. MaxCpu
             /\ g[q].start = 0 => g[q].cpu = 0
    <2>1. CASE q = p
        BY <1>1, <1>2, <2>1
    <2>2. CASE q # p
        BY <1>1, <1>2, <1>4, <2>2 DEF Mirrors
    <2> QED BY <2>1, <2>2
<1> QED BY <1>3, <1>4 DEF Mirrors, g, h

LEMMA EnricherInit == Enricher!Init => EnricherInv
<1> SUFFICES ASSUME Enricher!Init PROVE EnricherInv
    OBVIOUS
<1> USE CollectorsAssumption DEF Enricher!Init, Enricher!nothing, Enricher!gone
<1>1. EnricherTypes
    BY DEF EnricherTypes
<1>2. EnricherNames
    BY DEF EnricherNames
<1>3. EnricherBuffers /\ Enricher!CpuUseIsOwn
    BY DEF EnricherBuffers, Mirrors, Enricher!CpuUseIsOwn
<1> QED BY <1>1, <1>2, <1>3 DEF EnricherInv

(* The difference of two counters that is not 0 is of one process: a        *)
(* process that is gone reads 0, and then the difference is too large.      *)
LEMMA UseOfOneProcess ==
    ASSUME Mirrors(enricherPrev, lastShown), NEW p, NEW now,
           now.cpu \in 0 .. MaxCpu, now.start = 0 => now.cpu = 0,
           Enricher!pct(p, now) # 0
    PROVE  p \in DOMAIN lastShown /\ lastShown[p].start = now.start
<1> USE CollectorsAssumption
<1>1. p \in DOMAIN enricherPrev /\ (enricherPrev[p].start = now.start \/ now.start = 0)
    BY DEF Enricher!pct
<1>2. p \in DOMAIN lastShown /\ enricherPrev[p].start = lastShown[p].start
      /\ enricherPrev[p].cpu \in 0 .. MaxCpu
    BY <1>1 DEF Mirrors
<1>3. ASSUME enricherPrev[p].start # now.start PROVE FALSE
    <2> DEFINE before == enricherPrev[p].cpu
    <2>1. now.start = 0 /\ now.cpu = 0
        BY <1>1, <1>3
    <2>3. before \in 0 .. MaxCpu
        BY <1>2
    <2>6. now.cpu + Width - before = Width - before
        BY <2>1, <2>3
    <2>7. (IF (now.cpu + Width - before) % Width > CpuCap THEN 0
           ELSE (now.cpu + Width - before) % Width) # 0
        BY ONLY <1>1, Enricher!pct(p, now) # 0 DEF Enricher!pct, before
    <2> HIDE DEF before
    <2>2. (IF (Width - before) % Width > CpuCap THEN 0 ELSE (Width - before) % Width) # 0
        BY <2>6, <2>7
    <2>4. CASE before = 0
        BY <2>2, <2>4
    <2>5. CASE before # 0
        <3>1. Width - before \in 0 .. Width - 1 /\ Width - before > CpuCap
            BY <2>3, <2>5
        <3>2. (Width - before) % Width = Width - before
            BY <3>1
        <3> QED BY <2>2, <3>1, <3>2
    <2> QED BY <2>4, <2>5
<1> QED BY <1>2, <1>3

(* Both ways of a PID into the ProcStats: a name that is one of its own, or *)
(* of a process that came meanwhile, keeps the names, and the counters read *)
(* keep the buffers.                                                        *)
LEMMA EnrichedKeeps ==
    ASSUME EnricherInv, enricherAt # "idle", enricherAt' # "idle", NEW p \in Pids,
           NEW name, Named(life[p].start, name, torn), Enricher!enriched(p, life[p], name),
           UNCHANGED <<enricherPrev, lastShown, torn>>
    PROVE  /\ \A q \in DOMAIN shown' : Named(shown'[q].start, shown'[q].cmd, torn)
           /\ EnricherBuffers'
           /\ Enricher!CpuUseIsOwn'
<1> DEFINE now == life[p]
           stat0 == [cmd |-> name, start |-> now.start, pct |-> Enricher!pct(p, now)]
<1>1. /\ now.cpu \in 0 .. MaxCpu
      /\ now.start = 0 => now.cpu = 0
    BY DEF EnricherInv, EnricherTypes
<1>2. stat0.cmd = name /\ stat0.start = now.start /\ stat0.pct = Enricher!pct(p, now)
    OBVIOUS
<1>3. shown' = Enricher!with(shown, p, stat0) /\ curr' = Enricher!with(curr, p, now)
    BY DEF Enricher!enriched
<1>4. Mirrors(enricherPrev, lastShown) /\ Mirrors(curr, shown)
    BY DEF EnricherInv, EnricherBuffers
<1>5. Enricher!pct(p, now) # 0 => p \in DOMAIN lastShown /\ lastShown[p].start = now.start
    BY <1>1, <1>4, UseOfOneProcess
<1> HIDE DEF stat0, now
<1>6. DOMAIN shown' = DOMAIN shown \union {p} /\ shown'[p] = stat0
      /\ \A q \in DOMAIN shown : q # p => shown'[q] = shown[q]
    BY <1>3 DEF Enricher!with
<1>7. \A q \in DOMAIN shown' : Named(shown'[q].start, shown'[q].cmd, torn)
    <2>1. Named(stat0.start, stat0.cmd, torn)
        BY <1>2 DEF now
    <2> QED BY <1>6, <2>1 DEF EnricherInv, EnricherNames
<1>8. Mirrors(curr', shown')
    BY <1>1, <1>2, <1>3, <1>4, MirrorsGrows
<1>9. EnricherBuffers'
    BY <1>4, <1>8 DEF EnricherBuffers
<1>10. Enricher!CpuUseIsOwn'
    BY <1>2, <1>5, <1>6 DEF EnricherInv, Enricher!CpuUseIsOwn
<1> QED BY <1>7, <1>9, <1>10

LEMMA EnricherStep == EnricherInv /\ [Enricher!Next]_enricherVars => EnricherInv'
<1> SUFFICES ASSUME EnricherInv, [Enricher!Next]_enricherVars PROVE EnricherInv'
    OBVIOUS
<1> USE CollectorsAssumption
<1>1. CASE UNCHANGED enricherVars
    BY <1>1 DEF enricherVars, EnricherInv, EnricherTypes, EnricherNames, Named, EnricherBuffers,
                Mirrors, Enricher!CpuUseIsOwn
<1>2. ASSUME NEW p \in Pids, Enricher!Spawn(p) PROVE EnricherInv'
    <2> USE DEF EnricherInv
    <2>1. /\ starts' = starts + 1 /\ life' = [life EXCEPT ![p] = [start |-> starts', cpu |-> 0]]
          /\ torn' = torn \union {s \in {starts'} : enricherAt = "times" /\ pid = p}
          /\ UNCHANGED <<enricherPrev, curr, identity, todo, enricherAt, pid, sampled, cmd, shown, lastShown>>
        BY <1>2 DEF Enricher!Spawn, Enricher!locals
    <2>2. EnricherTypes'
        BY <2>1 DEF EnricherTypes
    <2>3. \A start, name : Named(start, name, torn) => Named(start, name, torn')
        BY <2>1 DEF Named
    <2>4. ASSUME enricherAt = "times" PROVE Named(life'[pid].start, cmd, torn')
        <3>1. CASE pid = p
            <4>1. starts' \in torn'
                BY <2>1, <2>4, <3>1
            <4>2. life'[pid].start = starts'
                BY <2>1, <3>1 DEF EnricherTypes
            <4> QED BY <4>1, <4>2 DEF Named
        <3>2. CASE pid # p
            <4>1. life'[pid] = life[pid]
                BY <2>1, <3>2 DEF EnricherTypes
            <4> QED BY <2>3, <2>4, <4>1 DEF EnricherNames
        <3> QED BY <3>1, <3>2
    <2>5. EnricherNames'
        BY <2>1, <2>3, <2>4 DEF EnricherNames
    <2>6. EnricherBuffers' /\ Enricher!CpuUseIsOwn'
        BY <2>1 DEF EnricherBuffers, Mirrors, Enricher!CpuUseIsOwn
    <2> QED BY <2>2, <2>5, <2>6
<1>3. ASSUME NEW p \in Pids, Enricher!Live(p) PROVE EnricherInv'
    <2> USE DEF EnricherInv
    <2>1. /\ life[p] # [start |-> 0, cpu |-> 0]
          /\ \/ life' = [life EXCEPT ![p] = [start |-> 0, cpu |-> 0]]
             \/ life[p].cpu < MaxCpu /\ life' = [life EXCEPT ![p].cpu = @ + 1]
          /\ UNCHANGED <<starts, enricherPrev, curr, identity, todo, enricherAt, pid, sampled, cmd, shown,
                         lastShown, torn>>
        BY <1>3 DEF Enricher!Live, Enricher!locals, Enricher!gone
    <2>2. EnricherTypes' /\ \A q \in Pids : life'[q].start \in {0, life[q].start}
        <3>1. CASE life' = [life EXCEPT ![p] = [start |-> 0, cpu |-> 0]]
            BY <2>1, <3>1 DEF EnricherTypes
        <3>2. CASE life[p].cpu < MaxCpu /\ life' = [life EXCEPT ![p].cpu = @ + 1]
            <4>1. life[p].start # 0
                BY <2>1 DEF EnricherTypes
            <4>2. life[p].cpu + 1 \in 0 .. MaxCpu
                BY <3>2 DEF EnricherTypes
            <4> QED BY <2>1, <3>2, <4>1, <4>2 DEF EnricherTypes
        <3> QED BY <2>1, <3>1, <3>2
    <2>3. EnricherNames'
        BY <2>1, <2>2 DEF EnricherTypes, EnricherNames, Named
    <2>4. EnricherBuffers' /\ Enricher!CpuUseIsOwn'
        BY <2>1 DEF EnricherBuffers, Mirrors, Enricher!CpuUseIsOwn
    <2> QED BY <2>2, <2>3, <2>4
<1>4. ASSUME NEW ps \in SUBSET Pids, Enricher!BeginEnrich(ps) PROVE EnricherInv'
    <2> USE <1>4 DEF Enricher!BeginEnrich, Enricher!procVars, Enricher!locals, Enricher!cleared,
                     Enricher!nothing, EnricherInv
    <2>1. EnricherTypes'
        BY DEF EnricherTypes
    <2>2. EnricherNames'
        BY DEF EnricherNames, Named
    <2>3. EnricherBuffers' /\ Enricher!CpuUseIsOwn'
        BY DEF EnricherBuffers, Mirrors, Enricher!CpuUseIsOwn
    <2> QED BY <2>1, <2>2, <2>3
<1>5. ASSUME NEW p \in Pids, Enricher!LookupCPU(p) PROVE EnricherInv'
    <2> USE DEF EnricherInv
    <2>1. /\ enricherAt = "next"
          /\ UNCHANGED <<life, starts, enricherPrev, identity, lastShown, torn>>
        BY <1>5 DEF Enricher!LookupCPU, Enricher!procVars
    <2>2. CASE Enricher!cached(p)
        <3>1. Enricher!enriched(p, life[p], identity[p].cmd) /\ pid' = pid
            BY <1>5, <2>2 DEF Enricher!LookupCPU
        <3>2. enricherAt' = "next" /\ todo' = todo \ {p}
            BY <3>1 DEF Enricher!enriched
        <3>3. Named(life[p].start, identity[p].cmd, torn)
            BY <2>2 DEF Enricher!cached, EnricherNames
        <3>4. /\ \A q \in DOMAIN shown' : Named(shown'[q].start, shown'[q].cmd, torn)
              /\ EnricherBuffers' /\ Enricher!CpuUseIsOwn'
            BY <2>1, <3>1, <3>2, <3>3, EnrichedKeeps
        <3>5. EnricherTypes'
            BY <2>1, <3>1, <3>2 DEF EnricherTypes
        <3>6. EnricherNames'
            BY <2>1, <3>2, <3>4 DEF EnricherNames, Named
        <3> QED BY <3>4, <3>5, <3>6
    <2>3. CASE ~Enricher!cached(p)
        <3>1. /\ pid' = p /\ enricherAt' = "cmdline"
              /\ UNCHANGED <<cmd, shown, curr, todo>>
            BY <1>5, <2>3 DEF Enricher!LookupCPU
        <3>2. EnricherTypes' /\ EnricherNames'
            BY <2>1, <3>1 DEF EnricherTypes, EnricherNames, Named
        <3>3. EnricherBuffers' /\ Enricher!CpuUseIsOwn'
            BY <2>1, <3>1 DEF EnricherBuffers, Mirrors, Enricher!CpuUseIsOwn
        <3> QED BY <3>2, <3>3
    <2> QED BY <2>2, <2>3
<1>6. CASE Enricher!ReadCmdline
    <2> USE <1>6 DEF Enricher!ReadCmdline, Enricher!procVars, EnricherInv
    <2>1. EnricherTypes' /\ EnricherNames'
        BY DEF EnricherTypes, EnricherNames, Named
    <2>2. EnricherBuffers' /\ Enricher!CpuUseIsOwn'
        BY DEF EnricherBuffers, Mirrors, Enricher!CpuUseIsOwn
    <2> QED BY <2>1, <2>2
<1>7. CASE Enricher!ReadCPUTimes
    <2> USE DEF EnricherInv
    <2>1. /\ enricherAt = "times" /\ Enricher!enriched(pid, life[pid], cmd)
          /\ \/ identity' = identity
             \/ identity' = Enricher!with(identity, pid, [cmd |-> cmd, start |-> life[pid].start])
          /\ UNCHANGED <<life, starts, enricherPrev, pid, lastShown, torn>>
        BY <1>7 DEF Enricher!ReadCPUTimes, Enricher!procVars
    <2>2. enricherAt' = "next" /\ todo' = todo \ {pid}
        BY <2>1 DEF Enricher!enriched
    <2>3. Named(life[pid].start, cmd, torn) /\ pid \in Pids
        BY <2>1 DEF EnricherNames, EnricherTypes
    <2>4. /\ \A q \in DOMAIN shown' : Named(shown'[q].start, shown'[q].cmd, torn)
          /\ EnricherBuffers' /\ Enricher!CpuUseIsOwn'
        BY <2>1, <2>2, <2>3, EnrichedKeeps
    <2>5. EnricherTypes'
        BY <2>1, <2>2 DEF EnricherTypes
    <2>6. \A p \in DOMAIN identity' : Named(identity'[p].start, identity'[p].cmd, torn)
        BY <2>1, <2>3 DEF Enricher!with, EnricherNames
    <2>7. EnricherNames'
        BY <2>1, <2>2, <2>4, <2>6 DEF EnricherNames, Named
    <2> QED BY <2>4, <2>5, <2>7
<1>8. CASE Enricher!EndEnrich
    <2> USE DEF EnricherInv
    <2>1. /\ enricherAt = "next" /\ enricherAt' = "idle"
          /\ identity' = Enricher!evicted
          /\ enricherPrev' = curr
          /\ UNCHANGED <<life, starts, todo, pid, sampled, cmd, shown, lastShown, torn>>
        BY <1>8 DEF Enricher!EndEnrich, Enricher!procVars, Enricher!locals
    <2>2. EnricherTypes'
        BY <2>1 DEF EnricherTypes
    <2>3. \A p \in DOMAIN identity' : p \in DOMAIN identity /\ identity'[p] = identity[p]
        BY <2>1 DEF Enricher!evicted, Enricher!Restrict
    <2>4. EnricherNames'
        BY <2>1, <2>3 DEF EnricherNames, Named
    <2>5. EnricherBuffers' /\ Enricher!CpuUseIsOwn'
        BY <2>1 DEF EnricherBuffers, Mirrors, Enricher!CpuUseIsOwn
    <2> QED BY <2>2, <2>4, <2>5
<1> QED BY <1>1, <1>2, <1>3, <1>4, <1>5, <1>6, <1>7, <1>8 DEF Enricher!Next

LEMMA EnricherAlways == Spec => [](focus = "enricher" => EnricherInv)
<1> DEFINE Inv == focus = "enricher" => EnricherInv
<1>1. Init => Inv
    BY EnricherFocus, EnricherInit
<1>2. Inv /\ [Next]_vars => Inv'
    BY EnricherFocus, EnricherStep
<1> QED BY <1>1, <1>2, PTL DEF Spec

(* NamesAreOwn: however often PIDs are reused, the cache of Enrich          *)
(* (enricher.go) gives a process its own command, unless it came between    *)
(* the two reads of its lookup.                                             *)
THEOREM OwnNames == Spec => []NamesAreOwn
<1>1. (focus = "enricher" => EnricherInv) => NamesAreOwn
    BY DEF EnricherInv, EnricherNames, Named, NamesAreOwn, Enricher!NamesAreOwn
<1> QED BY <1>1, EnricherAlways, PTL

(* CpuUseIsOwn: the two buffers of counters that EndEnrich swaps never give *)
(* a use that is of two processes or goes back further than one call.       *)
THEOREM OwnCpuUse == Spec => []CpuUseIsOwn
<1>1. (focus = "enricher" => EnricherInv) => CpuUseIsOwn
    BY DEF EnricherInv, CpuUseIsOwn
<1> QED BY <1>1, EnricherAlways, PTL

-----------------------------------------------------------------------------
(* KmsgCollector.  The ring is in the order of its times, and every record  *)
(* reported, or found to be a marker, is behind the reader: before next     *)
(* while it reads the device, not newer than lastSeen with dmesg.           *)
KmsgTypes ==
    /\ clock \in Nat /\ untimed \subseteq Nat /\ collecting \in BOOLEAN
    /\ mode \in {"kmsg", "dmesg"}
    /\ ring \in Seq([ts : Nat, marker : BOOLEAN]) /\ Len(ring) <= MaxRecords
    /\ next \in 1 .. Len(ring) + 1
    /\ lastSeen \in 0 .. clock /\ fellBack \in 0 .. clock
    /\ reported \in [1 .. MaxRecords -> 0 .. 2]

KmsgOrdered ==
    /\ \A i \in 1 .. Len(ring) : ring[i].ts <= clock
    /\ \A i, j \in 1 .. Len(ring) : i <= j => ring[i].ts <= ring[j].ts

KmsgDevice ==
    mode = "kmsg" =>
        /\ \A i \in 1 .. MaxRecords : reported[i] <= 1
        /\ \A i \in 1 .. MaxRecords : i >= next => reported[i] = 0
        /\ \A i \in markers : i \in 1 .. next - 1 /\ reported[i] = 0
        /\ ~collecting => markers = {}

KmsgDmesg ==
    mode = "dmesg" =>
        /\ \A i \in 1 .. MaxRecords : reported[i] > 0 => i <= Len(ring) /\ ring[i].ts <= lastSeen
        /\ \A i \in 1 .. Len(ring) : reported[i] <= 1 \/ \E t \in untimed : ring[i].ts <= t
        /\ \/ lastSeen = fellBack \/ lastSeen \in untimed
           \/ \E j \in 1 .. Len(ring) : ring[j].ts = lastSeen /\ reported[j] > 0

KmsgInv == KmsgTypes /\ KmsgOrdered /\ KmsgDevice /\ KmsgDmesg /\ Kmsg!MissedForAReason

LEMMA KmsgFocus ==
    /\ Init /\ focus = "kmsg" => Kmsg!Init
    /\ [Next]_vars /\ focus' = "kmsg" => focus = "kmsg" /\ [Kmsg!Next]_kmsgVars
BY DEF Init, Next, vars, kmsgVars, kmsgRests, handlesRests, processesRests, enricherRests,
       hostRests, apiRests, gpuRests

(* The last of some records. *)
LEMMA LastRecord ==
    ASSUME NEW n \in Nat, NEW S, S \subseteq 1 .. n, S # {}
    PROVE  Kmsg!Max(S) \in S /\ \A i \in S : i <= Kmsg!Max(S)
<1> DEFINE T == {n - i : i \in S}
<1>1. T \subseteq Nat /\ T # {}
    <2>1. \A i \in S : n - i \in Nat
        BY \A i \in S : i \in 1 .. n
    <2>2. PICK i \in S : TRUE
        OBVIOUS
    <2>3. n - i \in T
        OBVIOUS
    <2> QED BY <2>1, <2>3
<1>2. PICK x \in T : \A y \in T : x <= y
    <2> HIDE DEF T
    <2> QED BY <1>1, LeastNumber
<1>3. PICK m \in S : x = n - m
    BY <1>2
<1>4. \A i \in S : n - m <= n - i
    BY <1>2, <1>3
<1>5. \A i \in S : i <= m
    BY <1>4
<1> QED BY <1>3, <1>5 DEF Kmsg!Max

LEMMA KmsgInit == Kmsg!Init => KmsgInv
<1> SUFFICES ASSUME Kmsg!Init PROVE KmsgInv
    OBVIOUS
<1> USE CollectorsAssumption DEF Kmsg!Init
<1>1. KmsgTypes
    <2>1. clock \in Nat /\ lastSeen \in 0 .. clock /\ fellBack \in 0 .. clock
        BY ONLY Kmsg!Init
    <2>2. untimed \subseteq Nat /\ collecting \in BOOLEAN /\ mode \in {"kmsg", "dmesg"}
        BY ONLY Kmsg!Init
    <2>3. ring \in Seq([ts : Nat, marker : BOOLEAN]) /\ Len(ring) <= MaxRecords
          /\ next \in 1 .. Len(ring) + 1
        OBVIOUS
    <2>4. reported \in [1 .. MaxRecords -> 0 .. 2]
        OBVIOUS
    <2> QED BY ONLY <2>1, <2>2, <2>3, <2>4 DEF KmsgTypes
<1>2. KmsgOrdered
    BY DEF KmsgOrdered
<1>3. KmsgDevice
    BY DEF KmsgDevice
<1>4. KmsgDmesg
    BY DEF KmsgDmesg
<1>5. Kmsg!MissedForAReason
    BY DEF Kmsg!MissedForAReason
<1> QED BY <1>1, <1>2, <1>3, <1>4, <1>5 DEF KmsgInv

(* What the end of a call does to the counts. *)
LEMMA Returned ==
    ASSUME KmsgTypes, NEW all, Kmsg!return(all)
    PROVE  /\ reported' \in [1 .. MaxRecords -> 0 .. 2] /\ markers' = {}
           /\ collecting' = FALSE
           /\ \A i \in 1 .. MaxRecords :
                 /\ i \notin all => reported'[i] = reported[i]
                 /\ i \in all => reported'[i] > 0
                 /\ i \in all /\ reported[i] = 0 => reported'[i] = 1
                 /\ reported[i] > 0 => reported'[i] > 0
<1>1. /\ markers' = {} /\ collecting' = FALSE
      /\ reported' = [i \in 1 .. MaxRecords |->
                        IF i \in all /\ reported[i] < 2 THEN reported[i] + 1 ELSE reported[i]]
    BY DEF Kmsg!return, KmsgTypes
<1>2. \A i \in 1 .. MaxRecords : reported[i] \in 0 .. 2
    BY DEF KmsgTypes
<1>3. ASSUME NEW i \in 1 .. MaxRecords
      PROVE  /\ reported'[i] \in 0 .. 2
             /\ i \notin all => reported'[i] = reported[i]
             /\ i \in all => reported'[i] > 0
             /\ i \in all /\ reported[i] = 0 => reported'[i] = 1
             /\ reported[i] > 0 => reported'[i] > 0
    BY <1>1, <1>2
<1> QED BY <1>1, <1>3

LEMMA Times == KmsgTypes => \A i \in 1 .. Len(ring) : ring[i].ts \in Nat
<1> SUFFICES ASSUME KmsgTypes, NEW i \in 1 .. Len(ring) PROVE ring[i].ts \in Nat
    OBVIOUS
<1> DEFINE Record == [ts : Nat, marker : BOOLEAN]
<1>1. ring \in Seq(Record)
    BY DEF KmsgTypes
<1> HIDE DEF Record
<1>2. ring[i] \in Record
    BY <1>1, ElementOf
<1> QED BY <1>2 DEF Record

LEMMA KmsgKernel == KmsgInv /\ Kmsg!Kernel => KmsgInv'
<1> SUFFICES ASSUME KmsgInv, Kmsg!Kernel PROVE KmsgInv'
    OBVIOUS
<1> USE CollectorsAssumption DEF KmsgInv
<1>1. UNCHANGED <<mode, next, lastSeen, collecting, markers, reported, fellBack, untimed>>
    BY DEF Kmsg!Kernel
<1>2. CASE clock < MaxClock /\ clock' = clock + 1 /\ UNCHANGED ring
    <2>a. KmsgTypes'
        BY <1>1, <1>2 DEF KmsgTypes
    <2>b. \A i \in 1 .. Len(ring) : ring[i].ts \in Nat
        BY Times
    <2>c. clock \in Nat /\ clock' = clock + 1 /\ ring' = ring
        BY <1>2 DEF KmsgTypes
    <2>1. KmsgTypes' /\ KmsgOrdered'
        BY <2>a, <2>b, <2>c DEF KmsgOrdered
    <2>2. KmsgDevice' /\ KmsgDmesg'
        BY <1>1, <1>2 DEF KmsgDevice, KmsgDmesg
    <2>3. Kmsg!MissedForAReason'
        BY <1>1, <1>2 DEF Kmsg!MissedForAReason, Kmsg!oldestKept
    <2> QED BY <2>1, <2>2, <2>3
<1>3. CASE /\ Len(ring) < MaxRecords /\ UNCHANGED clock
           /\ \E marker \in BOOLEAN : ring' = Append(ring, [ts |-> clock, marker |-> marker])
    <2> DEFINE n == Len(ring)
    <2>1. PICK marker \in BOOLEAN : ring' = Append(ring, [ts |-> clock, marker |-> marker])
        BY <1>3
    <2>2. /\ n \in Nat /\ n < MaxRecords /\ clock' = clock
          /\ ring' \in Seq([ts : Nat, marker : BOOLEAN]) /\ Len(ring') = n + 1
          /\ \A i \in 1 .. n : ring'[i] = ring[i]
          /\ ring'[n + 1].ts = clock
        BY <1>3, <2>1 DEF KmsgTypes
    <2>3. DOMAIN ring = 1 .. n /\ DOMAIN ring' = 1 .. n + 1
        BY <2>2 DEF KmsgTypes
    <2>4. \A i \in 1 .. n : ring[i].ts \in Nat
        BY Times DEF KmsgInv, n
    <2> HIDE DEF n
    <2>5. KmsgTypes'
        BY <1>1, <2>2 DEF KmsgTypes, n
    <2>6. KmsgOrdered'
        <3>1. clock \in Nat
            BY DEF KmsgTypes
        <3>2. \A i \in 1 .. n : ring[i].ts <= clock
            BY DEF KmsgOrdered, n
        <3>3. \A i \in 1 .. n + 1 : ring'[i].ts <= clock'
            BY <2>2, <3>1, <3>2
        <3>4. \A i, j \in 1 .. n + 1 : i <= j => ring'[i].ts <= ring'[j].ts
            <4> SUFFICES ASSUME NEW i \in 1 .. n + 1, NEW j \in 1 .. n + 1, i <= j
                         PROVE  ring'[i].ts <= ring'[j].ts
                OBVIOUS
            <4>1. CASE j = n + 1
                BY <2>2, <3>3, <4>1
            <4>2. CASE j # n + 1
                <5>1. i \in 1 .. n /\ j \in 1 .. n
                    BY <2>2, <4>2
                <5> QED BY <2>2, <5>1 DEF KmsgOrdered, n
            <4> QED BY <4>1, <4>2
        <3> QED BY <2>2, <3>3, <3>4 DEF KmsgOrdered
    <2>7. KmsgDevice'
        BY <1>1 DEF KmsgDevice
    <2>8. KmsgDmesg'
        <3>1. mode = "dmesg" => reported[n + 1] <= 1
            <4>1. n + 1 \in 1 .. MaxRecords /\ reported[n + 1] \in 0 .. 2
                BY <2>2 DEF KmsgTypes
            <4>2. mode = "dmesg" => ~(reported[n + 1] > 0)
                BY <2>2, <4>1 DEF KmsgDmesg, n
            <4> QED BY <4>1, <4>2
        <3>2. mode = "dmesg" => \A i \in 1 .. n + 1 : reported[i] <= 1 \/ \E t \in untimed : ring'[i].ts <= t
            BY <2>2, <3>1 DEF KmsgDmesg, n
        <3>3. mode = "dmesg" => \A i \in 1 .. MaxRecords : reported[i] > 0 => i <= n + 1 /\ ring'[i].ts <= lastSeen
            BY <2>2 DEF KmsgDmesg, n
        <3>4. mode = "dmesg" => \/ lastSeen = fellBack \/ lastSeen \in untimed
                                \/ \E j \in 1 .. n + 1 : ring'[j].ts = lastSeen /\ reported[j] > 0
            BY <2>2 DEF KmsgDmesg, n
        <3> QED BY <1>1, <2>2, <3>2, <3>3, <3>4 DEF KmsgDmesg
    <2>9. Kmsg!MissedForAReason'
        <3>1. Kmsg!oldestKept \in Nat /\ Kmsg!oldestKept' \in Nat /\ Kmsg!oldestKept <= Kmsg!oldestKept'
            BY <2>2 DEF Kmsg!oldestKept, n
        <3> SUFFICES ASSUME NEW i \in 1 .. n + 1, ring'[i].marker, reported[i] = 0
                     PROVE  IF mode = "kmsg"
                            THEN i >= next \/ (collecting /\ i \in markers)
                            ELSE \/ i < Kmsg!oldestKept' \/ ring'[i].ts > lastSeen
                                 \/ ring'[i].ts <= fellBack \/ ring'[i].ts \in untimed
                                 \/ \E j \in 1 .. n + 1 : ring'[j].ts = ring'[i].ts /\ reported[j] > 0
            BY <1>1, <2>3 DEF Kmsg!MissedForAReason
        <3>2. CASE i \in 1 .. n
            <4>1. ring'[i] = ring[i] /\ \A j \in 1 .. n : ring'[j] = ring[j]
                BY <2>2, <3>2
            <4>2. IF mode = "kmsg"
                  THEN i >= next \/ (collecting /\ i \in markers)
                  ELSE \/ i < Kmsg!oldestKept \/ ring[i].ts > lastSeen \/ ring[i].ts <= fellBack
                       \/ ring[i].ts \in untimed
                       \/ \E j \in 1 .. n : ring[j].ts = ring[i].ts /\ reported[j] > 0
                BY <2>3, <3>2, <4>1 DEF Kmsg!MissedForAReason
            <4> QED BY <3>1, <3>2, <4>1, <4>2, <2>2
        <3>3. CASE i = n + 1
            <4>1. CASE mode = "kmsg"
                <5>1. i >= next
                    BY <2>2, <3>3 DEF KmsgTypes, n
                <5> QED BY <4>1, <5>1
            <4>2. CASE mode # "kmsg"
                <5>1. lastSeen <= clock /\ lastSeen \in Nat /\ clock \in Nat
                    BY DEF KmsgTypes
                <5>2. \/ lastSeen = fellBack \/ lastSeen \in untimed
                      \/ \E j \in 1 .. n : ring'[j].ts = lastSeen /\ reported[j] > 0
                    BY <2>2, <4>2 DEF KmsgDmesg, KmsgTypes, n
                <5>3. ring'[i].ts = clock
                    BY <2>2, <3>3
                <5> QED BY <2>2, <4>2, <5>1, <5>2, <5>3
            <4> QED BY <4>1, <4>2
        <3> QED BY <2>2, <3>2, <3>3
    <2> QED BY <2>5, <2>6, <2>7, <2>8, <2>9
<1> QED BY <1>2, <1>3 DEF Kmsg!Kernel

LEMMA KmsgReader ==
    ASSUME KmsgInv, Kmsg!Collect \/ Kmsg!ReadRecord \/ Kmsg!StopReading \/ Kmsg!ReadFails
    PROVE  KmsgInv'
<1> USE CollectorsAssumption DEF KmsgInv
<1>a. DOMAIN ring = 1 .. Len(ring) /\ Len(ring) \in Nat /\ Len(ring) <= MaxRecords
    BY DEF KmsgTypes
<1>b. Kmsg!oldestKept \in Nat /\ Kmsg!oldestKept >= 1
    BY <1>a DEF Kmsg!oldestKept
<1>1. CASE Kmsg!Collect
    <2> USE <1>1 DEF Kmsg!Collect, Kmsg!kernelVars
    <2>1. KmsgTypes' /\ KmsgOrdered'
        BY DEF KmsgTypes, KmsgOrdered
    <2>2. KmsgDevice' /\ KmsgDmesg'
        BY DEF KmsgDevice, KmsgDmesg
    <2>3. Kmsg!MissedForAReason'
        BY DEF Kmsg!MissedForAReason, Kmsg!oldestKept, KmsgDevice
    <2> QED BY <2>1, <2>2, <2>3
<1>2. CASE Kmsg!ReadRecord
    <2>1. /\ collecting /\ mode = "kmsg" /\ next \in 1 .. Len(ring)
          /\ markers' = markers \union {k \in {next} : ring[k].marker}
          /\ next' = next + 1
          /\ UNCHANGED <<clock, ring, mode, lastSeen, collecting, reported, fellBack, untimed>>
        BY <1>2, <1>a, <1>b DEF Kmsg!ReadRecord, Kmsg!kernelVars, Kmsg!matched
    <2>2. KmsgTypes' /\ KmsgOrdered'
        BY <2>1 DEF KmsgTypes, KmsgOrdered
    <2>3. KmsgDevice' /\ KmsgDmesg'
        BY <2>1, <1>a DEF KmsgDevice, KmsgDmesg
    <2>4. Kmsg!MissedForAReason'
        BY <2>1, <1>a DEF Kmsg!MissedForAReason
    <2> QED BY <2>2, <2>3, <2>4
<1>3. CASE Kmsg!StopReading
    <2>1. /\ mode = "kmsg" /\ Kmsg!return(markers)
          /\ UNCHANGED <<clock, ring, mode, next, lastSeen, fellBack, untimed>>
        BY <1>3 DEF Kmsg!StopReading, Kmsg!kernelVars, Kmsg!found
    <2>2. /\ reported' \in [1 .. MaxRecords -> 0 .. 2] /\ markers' = {} /\ collecting' = FALSE
          /\ \A i \in 1 .. MaxRecords :
                 /\ i \notin markers => reported'[i] = reported[i]
                 /\ i \in markers => reported'[i] > 0
                 /\ i \in markers /\ reported[i] = 0 => reported'[i] = 1
        BY <2>1, Returned
    <2>3. KmsgTypes' /\ KmsgOrdered'
        BY <2>1, <2>2 DEF KmsgTypes, KmsgOrdered
    <2>4. next \in Nat
        BY DEF KmsgTypes
    <2>5. KmsgDevice' /\ KmsgDmesg'
        BY <2>1, <2>2, <2>4 DEF KmsgDevice, KmsgDmesg
    <2>6. Kmsg!MissedForAReason'
        BY <2>1, <2>2, <1>a DEF Kmsg!MissedForAReason
    <2> QED BY <2>3, <2>5, <2>6
<1>4. CASE Kmsg!ReadFails
    <2>1. /\ mode = "kmsg" /\ mode' = "dmesg" /\ Kmsg!return(markers)
          /\ lastSeen' = clock /\ fellBack' = clock
          /\ UNCHANGED <<clock, ring, next, untimed>>
        BY <1>4 DEF Kmsg!ReadFails, Kmsg!kernelVars, Kmsg!found, Kmsg!fallbackFrom
    <2>2. /\ reported' \in [1 .. MaxRecords -> 0 .. 2] /\ markers' = {} /\ collecting' = FALSE
          /\ \A i \in 1 .. MaxRecords :
                 /\ i \notin markers => reported'[i] = reported[i]
                 /\ i \in markers /\ reported[i] = 0 => reported'[i] = 1
        BY <2>1, Returned
    <2>3. KmsgTypes' /\ KmsgOrdered'
        <3>1. clock \in 0 .. clock
            BY DEF KmsgTypes
        <3>2. KmsgTypes'
            BY <2>1, <2>2, <3>1 DEF KmsgTypes
        <3>3. KmsgOrdered'
            BY <2>1 DEF KmsgOrdered
        <3> QED BY <3>2, <3>3
    <2>4. next \in 1 .. Len(ring) + 1
        BY DEF KmsgTypes
    <2>5. KmsgDmesg'
        <3>1. \A i \in 1 .. MaxRecords : reported'[i] <= 1
            BY <2>1, <2>2 DEF KmsgDevice
        <3>4. \A i \in 1 .. Len(ring) : reported'[i] <= 1
            BY <1>a, <3>1
        <3>2. ASSUME NEW i \in 1 .. MaxRecords, reported'[i] > 0 PROVE i <= Len(ring)
            <4>1. i < next
                BY <2>1, <2>2, <2>4, <3>2 DEF KmsgDevice
            <4> QED BY <2>4, <4>1, <1>a
        <3>3. \A i \in 1 .. Len(ring) : ring[i].ts <= clock
            BY DEF KmsgOrdered
        <3> QED BY <2>1, <3>2, <3>3, <3>4 DEF KmsgDmesg
    <2>6. KmsgDevice'
        BY <2>1 DEF KmsgDevice
    <2>7. Kmsg!MissedForAReason'
        BY <2>1, <1>a DEF Kmsg!MissedForAReason, KmsgOrdered
    <2> QED BY <2>3, <2>5, <2>6, <2>7
<1> QED BY <1>1, <1>2, <1>3, <1>4

LEMMA KmsgFallback ==
    ASSUME KmsgInv, (\E iso \in BOOLEAN : Kmsg!ReadDmesg(iso)) \/ Kmsg!DmesgFails
    PROVE  KmsgInv'
<1> USE CollectorsAssumption DEF KmsgInv
<1>a. DOMAIN ring = 1 .. Len(ring) /\ Len(ring) \in Nat /\ Len(ring) <= MaxRecords
    BY DEF KmsgTypes
<1>b. Kmsg!oldestKept \in Nat /\ Kmsg!oldestKept >= 1
    BY <1>a DEF Kmsg!oldestKept
<1>c. \A i \in 1 .. Len(ring) : ring[i].ts \in Nat
    BY Times
<1>1. CASE Kmsg!DmesgFails
    <2>1. /\ mode = "dmesg" /\ Kmsg!return({})
          /\ UNCHANGED <<clock, ring, mode, next, lastSeen, fellBack, untimed>>
        BY <1>1 DEF Kmsg!DmesgFails, Kmsg!kernelVars
    <2>2. /\ reported' \in [1 .. MaxRecords -> 0 .. 2] /\ collecting' = FALSE
          /\ \A i \in 1 .. MaxRecords : reported'[i] = reported[i]
        BY <2>1, Returned
    <2>3. KmsgTypes' /\ KmsgOrdered'
        <3>1. KmsgTypes'
            BY <2>1, <2>2 DEF KmsgTypes
        <3>2. KmsgOrdered'
            BY <2>1 DEF KmsgOrdered
        <3> QED BY <3>1, <3>2
    <2>4. KmsgDevice'
        BY <2>1 DEF KmsgDevice
    <2>5. KmsgDmesg'
        BY <2>1, <2>2, <1>a DEF KmsgDmesg
    <2>6. Kmsg!MissedForAReason'
        BY <2>1, <2>2, <1>a DEF Kmsg!MissedForAReason, Kmsg!oldestKept
    <2> QED BY <2>3, <2>4, <2>5, <2>6
<1>2. CASE \E iso \in BOOLEAN : Kmsg!ReadDmesg(iso)
    <2>0. PICK iso \in BOOLEAN : Kmsg!ReadDmesg(iso)
        BY <1>2
    <2> DEFINE new == Kmsg!newMarkers(iso)
               last == Kmsg!Max(new)
    <2>1. /\ mode = "dmesg" /\ Kmsg!return(new) /\ lastSeen' = Kmsg!seenUpTo(new, iso)
          /\ untimed' = untimed \union {t \in {clock} : ~iso /\ new # {}}
          /\ UNCHANGED <<clock, ring, mode, next, fellBack>>
        BY <2>0 DEF Kmsg!ReadDmesg, Kmsg!kernelVars
    <2>2. \A i : i \in new <=> /\ i \in 1 .. Len(ring) /\ i >= Kmsg!oldestKept /\ ring[i].marker
                               /\ ~iso \/ ring[i].ts > lastSeen
        BY <1>a, <1>b DEF Kmsg!newMarkers, Kmsg!isNew
    <2>4. lastSeen' = IF new = {} THEN lastSeen ELSE IF iso THEN ring[last].ts ELSE clock
        BY <2>1 DEF Kmsg!seenUpTo
    <2> HIDE DEF new
    <2>3. new # {} => last \in new /\ \A i \in new : i <= last
        <3>1. new \subseteq 1 .. Len(ring)
            BY <2>2
        <3> QED BY <1>a, <3>1, LastRecord
    <2> HIDE DEF last
    <2>5. /\ reported' \in [1 .. MaxRecords -> 0 .. 2] /\ markers' = {} /\ collecting' = FALSE
          /\ \A i \in 1 .. MaxRecords :
                 /\ i \notin new => reported'[i] = reported[i]
                 /\ i \in new => reported'[i] > 0
                 /\ i \in new /\ reported[i] = 0 => reported'[i] = 1
                 /\ reported[i] > 0 => reported'[i] > 0
        BY <2>1, Returned
    <2>6. clock \in Nat /\ lastSeen \in 0 .. clock /\ fellBack \in 0 .. clock /\ untimed \subseteq Nat
        BY DEF KmsgTypes
    <2>7. /\ lastSeen' \in 0 .. clock
          /\ lastSeen <= lastSeen' /\ \A i \in new : ring[i].ts <= lastSeen'
        <3>1. CASE new = {}
            BY <2>4, <2>6, <3>1
        <3>2. CASE new # {} /\ iso
            <4>1. last \in 1 .. Len(ring) /\ lastSeen' = ring[last].ts /\ ring[last].ts > lastSeen
                BY <2>2, <2>3, <2>4, <3>2
            <4>2. ring[last].ts \in 0 .. clock
                BY <1>c, <2>6, <4>1 DEF KmsgOrdered
            <4>3. \A i \in new : ring[i].ts <= ring[last].ts
                BY <2>2, <2>3, <3>2, <4>1 DEF KmsgOrdered
            <4> QED BY <2>6, <4>1, <4>2, <4>3
        <3>3. CASE new # {} /\ ~iso
            <4>1. \A i \in new : ring[i].ts <= clock
                BY <2>2 DEF KmsgOrdered
            <4> QED BY <2>4, <2>6, <3>3, <4>1
        <3> QED BY <3>1, <3>2, <3>3
    <2>8. KmsgTypes' /\ KmsgOrdered'
        <3>1. untimed' \subseteq Nat
            BY <2>1, <2>6
        <3>2. KmsgTypes'
            BY <2>1, <2>5, <2>7, <3>1 DEF KmsgTypes
        <3>3. KmsgOrdered'
            BY <2>1 DEF KmsgOrdered
        <3> QED BY <3>2, <3>3
    <2>9. KmsgDevice'
        BY <2>1 DEF KmsgDevice
    <2>10. KmsgDmesg'
        <3>1. ASSUME NEW i \in new, iso PROVE i \in 1 .. MaxRecords /\ reported[i] = 0
            <4>1. i \in 1 .. MaxRecords /\ i \in 1 .. Len(ring) /\ ring[i].ts > lastSeen
                BY <1>a, <2>2, <3>1
            <4>2. ~(reported[i] > 0)
                BY <1>c, <2>1, <2>6, <4>1 DEF KmsgDmesg
            <4>3. reported[i] \in 0 .. 2
                BY <4>1 DEF KmsgTypes
            <4> QED BY <4>1, <4>2, <4>3
        <3>2. ASSUME NEW i \in 1 .. Len(ring)
              PROVE  reported'[i] <= 1 \/ \E t \in untimed' : ring[i].ts <= t
            <4>1. i \in 1 .. MaxRecords
                BY <1>a
            <4>2. CASE i \in new /\ iso
                BY <2>5, <3>1, <4>1, <4>2
            <4>3. CASE i \in new /\ ~iso
                <5>1. clock \in untimed' /\ ring[i].ts <= clock
                    BY <2>1, <4>3 DEF KmsgOrdered
                <5> QED BY <5>1
            <4>4. CASE i \notin new
                <5>1. reported[i] <= 1 \/ \E t \in untimed : ring[i].ts <= t
                    BY <2>1 DEF KmsgDmesg
                <5> QED BY <2>1, <2>5, <4>1, <4>4, <5>1
            <4> QED BY <4>2, <4>3, <4>4
        <3>3. ASSUME NEW i \in 1 .. MaxRecords, reported'[i] > 0
              PROVE  i <= Len(ring) /\ ring[i].ts <= lastSeen'
            <4>1. CASE i \in new
                BY <1>a, <2>2, <2>7, <4>1
            <4>2. CASE i \notin new
                <5>1. i <= Len(ring) /\ ring[i].ts <= lastSeen
                    BY <2>1, <2>5, <3>3, <4>2 DEF KmsgDmesg
                <5>2. ring[i].ts \in Nat
                    BY <1>a, <1>c, <5>1
                <5> QED BY <2>6, <2>7, <5>1, <5>2
            <4> QED BY <4>1, <4>2
        <3>4. \/ lastSeen' = fellBack \/ lastSeen' \in untimed'
              \/ \E j \in 1 .. Len(ring) : ring[j].ts = lastSeen' /\ reported'[j] > 0
            <4>1. CASE new = {}
                <5>1. lastSeen' = lastSeen
                    BY <2>4, <4>1
                <5>2. \/ lastSeen = fellBack \/ lastSeen \in untimed
                      \/ \E j \in 1 .. Len(ring) : ring[j].ts = lastSeen /\ reported[j] > 0
                    BY <2>1 DEF KmsgDmesg
                <5> QED BY <1>a, <2>1, <2>5, <5>1, <5>2
            <4>2. CASE new # {} /\ iso
                <5>1. last \in 1 .. Len(ring) /\ last \in 1 .. MaxRecords /\ last \in new
                      /\ lastSeen' = ring[last].ts
                    BY <1>a, <2>2, <2>3, <2>4, <4>2
                <5> QED BY <2>5, <5>1
            <4>3. CASE new # {} /\ ~iso
                BY <2>1, <2>4, <4>3
            <4> QED BY <4>1, <4>2, <4>3
        <3> QED BY <2>1, <3>2, <3>3, <3>4 DEF KmsgDmesg
    <2>11. Kmsg!MissedForAReason'
        <3> SUFFICES ASSUME NEW i \in 1 .. Len(ring), ring[i].marker, reported'[i] = 0,
                            i >= Kmsg!oldestKept, ~(ring[i].ts > lastSeen')
                     PROVE  \/ ring[i].ts <= fellBack \/ ring[i].ts \in untimed'
                            \/ \E j \in 1 .. Len(ring) : ring[j].ts = ring[i].ts /\ reported'[j] > 0
            BY <1>a, <1>b, <2>1 DEF Kmsg!MissedForAReason, Kmsg!oldestKept
        <3>1. i \notin new /\ i \in 1 .. MaxRecords
            BY <1>a, <2>5
        <3>2. ~(ring[i].ts > lastSeen) /\ reported[i] = 0
            BY <2>2, <2>5, <3>1
        <3>3. \/ ring[i].ts <= fellBack \/ ring[i].ts \in untimed
              \/ \E j \in 1 .. Len(ring) : ring[j].ts = ring[i].ts /\ reported[j] > 0
            BY <1>a, <1>b, <2>1, <3>2 DEF Kmsg!MissedForAReason
        <3> QED BY <1>a, <2>1, <2>5, <3>3
    <2> QED BY <2>8, <2>9, <2>10, <2>11
<1> QED BY <1>1, <1>2

LEMMA KmsgAlways == Spec => [](focus = "kmsg" => KmsgInv)
<1> DEFINE Inv == focus = "kmsg" => KmsgInv
<1>1. Init => Inv
    BY KmsgFocus, KmsgInit
<1>2. KmsgInv /\ UNCHANGED kmsgVars => KmsgInv'
    BY DEF kmsgVars, KmsgInv, KmsgTypes, KmsgOrdered, KmsgDevice, KmsgDmesg,
           Kmsg!MissedForAReason, Kmsg!oldestKept
<1>3. Inv /\ [Next]_vars => Inv'
    BY <1>2, KmsgFocus, KmsgKernel, KmsgReader, KmsgFallback DEF Kmsg!Next
<1> QED BY <1>1, <1>3, PTL DEF Spec

(* TimedEventsOnce: by the device, by every dmesg that prints times and     *)
(* over the change between them, dmesg_linux.go reports an event at most    *)
(* once, whatever the size of the kernel's ring, unless it was logged       *)
(* before a dmesg that printed none.                                        *)
THEOREM EventsReportedOnce == Spec => []TimedEventsOnce
<1>1. (focus = "kmsg" => KmsgInv) => TimedEventsOnce
    <2> SUFFICES ASSUME KmsgInv, NEW i \in DOMAIN ring
                 PROVE  reported[i] <= 1 \/ \E t \in untimed : ring[i].ts <= t
        BY DEF TimedEventsOnce, Kmsg!TimedEventsOnce
    <2>1. /\ i \in 1 .. Len(ring) /\ i \in 1 .. MaxRecords /\ mode \in {"kmsg", "dmesg"}
        BY CollectorsAssumption DEF KmsgInv, KmsgTypes
    <2> QED BY <2>1 DEF KmsgInv, KmsgDevice, KmsgDmesg
<1> QED BY <1>1, KmsgAlways, PTL

(* MissedForAReason: an event that is never reported was overwritten by the *)
(* kernel, is older than the fallback, or shares its instant with one that  *)
(* was reported or with a dmesg that printed no times.                      *)
THEOREM MissedOnlyForAReason == Spec => []MissedForAReason
<1>1. (focus = "kmsg" => KmsgInv) => MissedForAReason
    BY DEF KmsgInv, MissedForAReason
<1> QED BY <1>1, KmsgAlways, PTL

-----------------------------------------------------------------------------
(* HostCpu.  A sample is a moment of the kernel's time, and prev and its    *)
(* copies are the one before it wherever no call has overlapped.            *)
Figures == [user : Int, sys : Int, iowait : Int, total : Int]

HostTypes ==
    /\ ran \in [Host!Counters -> Nat] /\ prevRan \in [Host!Counters -> Nat]
    /\ ticks \in 0 .. MaxTicks
    /\ hostPrev \in Figures /\ havePrev \in BOOLEAN
    /\ hostAt \in [Callers -> {"idle", "copy", "compute", "store", "storing"}]
    /\ sample \in [Callers -> [Host!Counters -> Nat]]
    /\ base \in [Callers -> Figures]
    /\ solo \in [Callers -> BOOLEAN]

(* b is at most so many ticks after a; only iowait may have gone back.      *)
Passed(a, b, n) ==
    LET grown == (b["user"] - a["user"]) + (b["sys"] - a["sys"]) + (b["idle"] - a["idle"])
    IN  /\ a["user"] <= b["user"] /\ a["sys"] <= b["sys"] /\ a["idle"] <= b["idle"]
        /\ grown + (b["iowait"] - a["iowait"]) <= n
        /\ grown + (a["iowait"] - b["iowait"]) <= n

HostMoments ==
    /\ havePrev => Passed(prevRan, ran, ticks)
    /\ \A c \in Callers : hostAt[c] # "idle" =>
          /\ Passed(sample[c], ran, ticks)
          /\ solo[c] /\ havePrev => Passed(prevRan, sample[c], ticks)

HostSolo ==
    \A c, d \in Callers : solo[c] /\ hostAt[c] # "idle" /\ hostAt[d] # "idle" => c = d

HostPrev ==
    /\ clean /\ havePrev /\ (\A c \in Callers : hostAt[c] # "storing") =>
          hostPrev = Host!parsed(prevRan)
    /\ \A c \in Callers : solo[c] =>
          /\ hostAt[c] = "storing" => hostPrev.total = Host!parsed(sample[c]).total
          /\ hostAt[c] = "compute" /\ clean /\ havePrev => base[c].total = Host!parsed(prevRan).total
          /\ hostAt[c] = "store" /\ clean /\ havePrev => base[c] = Host!parsed(prevRan)

HostInv == HostTypes /\ HostMoments /\ HostSolo /\ HostPrev

LEMMA HostFocus ==
    /\ Init /\ focus = "host" => Host!Init
    /\ [Next]_vars /\ focus' = "host" => focus = "host" /\ [Host!Next]_hostVars
BY DEF Init, Next, vars, hostVars, kmsgRests, handlesRests, processesRests, enricherRests,
       hostRests, apiRests, gpuRests

LEMMA Rest ==
    ASSUME NEW W \in Nat, W > 0, NEW n \in Int
    PROVE  n = W * (n \div W) + (n % W) /\ n \div W \in Int /\ n % W \in 0 .. W - 1
OBVIOUS

LEMMA SameRest ==
    ASSUME NEW W \in Nat, W > 0, NEW a \in Int, NEW b \in Int, NEW r \in 0 .. W - 1, NEW s \in 0 .. W - 1,
           W * a + r = W * b + s
    PROVE  r = s
OBVIOUS

(* Of two counters that have wrapped, the difference is the growth. *)
LEMMA Growth ==
    ASSUME NEW W \in Nat, W > 0, NEW a \in Nat, NEW b \in Nat, b <= a, a - b < W
    PROVE  ((a % W) - (b % W)) % W = a - b
<1> DEFINE p == a \div W  x == a % W  q == b \div W  y == b % W  k == (x - y) \div W  m == (x - y) % W
<1>1. a = W * p + x /\ p \in Int /\ x \in 0 .. W - 1
    BY Rest
<1>2. b = W * q + y /\ q \in Int /\ y \in 0 .. W - 1
    BY Rest
<1>3. x - y = W * k + m /\ k \in Int /\ m \in 0 .. W - 1
    <2>1. x - y \in Int
       BY <1>1, <1>2
    <2> HIDE DEF x, y
    <2> QED BY <2>1, Rest
<1> HIDE DEF p, x, q, y, k, m
<1>4. p - q + k \in Int /\ W * (p - q + k) = W * p - W * q + W * k
    BY <1>1, <1>2, <1>3
<1>5. W * (p - q + k) + m = W * 0 + (a - b)
    BY <1>1, <1>2, <1>3, <1>4
<1>6. a - b \in 0 .. W - 1
    OBVIOUS
<1>7. m = a - b
    BY <1>3, <1>4, <1>5, <1>6, SameRest
<1> QED BY <1>7 DEF m, x, y

LEMMA ParsedType ==
    ASSUME NEW r \in [Host!Counters -> Nat]
    PROVE  Host!parsed(r) \in Figures
<1>1. {"user", "sys", "idle", "iowait"} = Host!Counters
    BY DEF Host!Counters
<1>2. r["user"] \in Nat /\ r["sys"] \in Nat /\ r["idle"] \in Nat /\ r["iowait"] \in Nat
    BY <1>1
<1>3. Width \in Nat /\ Width > 0
    BY CollectorsAssumption
<1>4. \A n \in Nat : n % Width \in Int
    BY <1>3
<1> QED BY <1>2, <1>4 DEF Host!parsed, Figures

LEMMA HostInit == Host!Init => HostInv
<1> SUFFICES ASSUME Host!Init PROVE HostInv
    OBVIOUS
<1> USE CollectorsAssumption DEF Host!Init
<1>1. Host!zero \in [Host!Counters -> Nat]
    BY DEF Host!zero
<1>2. Host!parsed(Host!zero) \in Figures
    BY <1>1, ParsedType
<1>3. HostTypes
    <2>1. ran \in [Host!Counters -> Nat]
        BY <1>1 DEF Host!Counters, Host!zero
    <2>2. prevRan \in [Host!Counters -> Nat] /\ ticks \in 0 .. MaxTicks /\ hostPrev \in Figures
        BY <1>1, <1>2
    <2>3. havePrev \in BOOLEAN
        OBVIOUS
    <2>4. hostAt \in [Callers -> {"idle", "copy", "compute", "store", "storing"}]
          /\ sample \in [Callers -> [Host!Counters -> Nat]] /\ base \in [Callers -> Figures]
        BY <1>1, <1>2
    <2>5. solo \in [Callers -> BOOLEAN]
        OBVIOUS
    <2> QED BY <2>1, <2>2, <2>3, <2>4, <2>5 DEF HostTypes
<1>4. HostMoments /\ HostSolo /\ HostPrev
    BY DEF HostMoments, HostSolo, HostPrev
<1> QED BY <1>3, <1>4 DEF HostInv

LEMMA HostSafe == HostInv => Host!SharesAreGrowth
<1> SUFFICES ASSUME HostInv, NEW c \in Callers, hostAt[c] = "store", havePrev, solo[c], clean,
                    sample[c]["iowait"] - prevRan["iowait"] >= 0
             PROVE  LET d == Host!CPUDelta(base[c], Host!parsed(sample[c]))
                        grown(f) == sample[c][f] - prevRan[f]
                    IN  /\ d.user = grown("user") /\ d.sys = grown("sys") /\ d.iowait = grown("iowait")
                        /\ d.user + d.sys + d.iowait <= d.total
    BY DEF Host!SharesAreGrowth
<1> DEFINE s == sample[c]  q == prevRan
           all(r) == r["user"] + r["sys"] + r["idle"] + r["iowait"]
           cur == Host!parsed(s)  p == Host!parsed(q)
<1>1. Width \in Nat /\ Width > 0 /\ MaxTicks < Width /\ ticks <= MaxTicks /\ MaxTicks \in Nat /\ ticks \in Nat
    BY CollectorsAssumption DEF HostInv, HostTypes
<1>2. Host!Counters = {"user", "sys", "idle", "iowait"}
    BY DEF Host!Counters
<1>3. /\ s["user"] \in Nat /\ s["sys"] \in Nat /\ s["idle"] \in Nat /\ s["iowait"] \in Nat
      /\ q["user"] \in Nat /\ q["sys"] \in Nat /\ q["idle"] \in Nat /\ q["iowait"] \in Nat
    BY <1>2 DEF HostInv, HostTypes
<1>4. base[c] = p
    BY DEF HostInv, HostPrev
<1>5. Passed(q, s, ticks) /\ s["iowait"] >= q["iowait"]
    BY <1>3 DEF HostInv, HostMoments
<1> HIDE DEF s, q
<1>6. /\ q["user"] <= s["user"] /\ s["user"] - q["user"] < Width
      /\ q["sys"] <= s["sys"] /\ s["sys"] - q["sys"] < Width
      /\ q["iowait"] <= s["iowait"] /\ s["iowait"] - q["iowait"] < Width
      /\ all(q) <= all(s) /\ all(s) - all(q) < Width /\ all(q) \in Nat /\ all(s) \in Nat
      /\ (s["user"] - q["user"]) + (s["sys"] - q["sys"]) + (s["iowait"] - q["iowait"]) <= all(s) - all(q)
    BY <1>1, <1>3, <1>5 DEF Passed
<1> HIDE DEF all
<1>7. /\ ((s["user"] % Width) - (q["user"] % Width)) % Width = s["user"] - q["user"]
      /\ ((s["sys"] % Width) - (q["sys"] % Width)) % Width = s["sys"] - q["sys"]
      /\ ((s["iowait"] % Width) - (q["iowait"] % Width)) % Width = s["iowait"] - q["iowait"]
      /\ ((all(s) % Width) - (all(q) % Width)) % Width = all(s) - all(q)
    <2>1. \A x, y \in Nat : y <= x /\ x - y < Width => ((x % Width) - (y % Width)) % Width = x - y
        BY <1>1, Growth
    <2>2. ((s["user"] % Width) - (q["user"] % Width)) % Width = s["user"] - q["user"]
        BY <1>3, <1>6, <2>1
    <2>3. ((s["sys"] % Width) - (q["sys"] % Width)) % Width = s["sys"] - q["sys"]
        BY <1>3, <1>6, <2>1
    <2>4. ((s["iowait"] % Width) - (q["iowait"] % Width)) % Width = s["iowait"] - q["iowait"]
        BY <1>3, <1>6, <2>1
    <2>5. ((all(s) % Width) - (all(q) % Width)) % Width = all(s) - all(q)
        BY <1>6, <2>1
    <2> QED BY <2>2, <2>3, <2>4, <2>5
<1>8. cur = [user |-> s["user"] % Width, sys |-> s["sys"] % Width, iowait |-> s["iowait"] % Width,
             total |-> all(s) % Width]
      /\ p = [user |-> q["user"] % Width, sys |-> q["sys"] % Width, iowait |-> q["iowait"] % Width,
              total |-> all(q) % Width]
    BY DEF Host!parsed, all
<1> HIDE DEF cur, p
<1>9. CASE cur.total # p.total
    <2>1. LET d == Host!CPUDelta(p, cur)
          IN  /\ d.user = (cur.user - p.user) % Width /\ d.sys = (cur.sys - p.sys) % Width
              /\ d.iowait = (cur.iowait - p.iowait) % Width /\ d.total = (cur.total - p.total) % Width
        BY <1>8, <1>9 DEF Host!CPUDelta, Host!minus
    <2> QED BY <1>4, <1>6, <1>7, <1>8, <2>1 DEF s, q, cur
<1>10. CASE cur.total = p.total
    <2>1. (all(s) % Width) - (all(q) % Width) = 0
        <3>1. all(s) % Width \in Int
            BY <1>1, <1>6
        <3> QED BY <1>8, <1>10, <3>1
    <2>2. 0 % Width = 0
        BY <1>1
    <2>3. all(s) - all(q) = 0
        BY <1>7, <2>1, <2>2
    <2>4. s["user"] - q["user"] = 0 /\ s["sys"] - q["sys"] = 0 /\ s["iowait"] - q["iowait"] = 0
        BY <1>3, <1>6, <2>3
    <2>5. LET d == Host!CPUDelta(p, cur)
          IN  d.user = 0 /\ d.sys = 0 /\ d.iowait = 0 /\ d.total = 0
        BY <1>10, <2>2 DEF Host!CPUDelta, Host!parsed, Host!zero, Host!Counters
    <2> QED BY <1>4, <2>4, <2>5 DEF s, q, cur
<1> QED BY <1>9, <1>10

(* Time only passes. *)
LEMMA PassedOn ==
    ASSUME NEW a \in [Host!Counters -> Nat], NEW b \in [Host!Counters -> Nat],
           NEW c \in [Host!Counters -> Nat], NEW n \in Nat, Passed(a, b, n),
           \/ \E f \in Host!Counters : c = [b EXCEPT ![f] = @ + 1]
           \/ c = [b EXCEPT !["iowait"] = @ - 1]
    PROVE  Passed(a, c, n + 1)
<1>1. Host!Counters = {"user", "sys", "idle", "iowait"}
    BY DEF Host!Counters
<1>2. /\ a["user"] \in Nat /\ a["sys"] \in Nat /\ a["idle"] \in Nat /\ a["iowait"] \in Nat
      /\ b["user"] \in Nat /\ b["sys"] \in Nat /\ b["idle"] \in Nat /\ b["iowait"] \in Nat
      /\ c["user"] \in Nat /\ c["sys"] \in Nat /\ c["idle"] \in Nat /\ c["iowait"] \in Nat
    BY <1>1
<1>3. \/ c["user"] = b["user"] + 1 /\ c["sys"] = b["sys"] /\ c["idle"] = b["idle"] /\ c["iowait"] = b["iowait"]
      \/ c["user"] = b["user"] /\ c["sys"] = b["sys"] + 1 /\ c["idle"] = b["idle"] /\ c["iowait"] = b["iowait"]
      \/ c["user"] = b["user"] /\ c["sys"] = b["sys"] /\ c["idle"] = b["idle"] + 1 /\ c["iowait"] = b["iowait"]
      \/ c["user"] = b["user"] /\ c["sys"] = b["sys"] /\ c["idle"] = b["idle"] /\ c["iowait"] = b["iowait"] + 1
      \/ c["user"] = b["user"] /\ c["sys"] = b["sys"] /\ c["idle"] = b["idle"] /\ c["iowait"] = b["iowait"] - 1
    BY <1>1
<1> QED BY <1>2, <1>3 DEF Passed

LEMMA PassedLonger ==
    ASSUME NEW a \in [Host!Counters -> Nat], NEW b \in [Host!Counters -> Nat], NEW n \in Nat
    PROVE  /\ Passed(a, b, n) => Passed(a, b, n + 1)
           /\ Passed(a, a, n)
<1>1. {"user", "sys", "idle", "iowait"} = Host!Counters
    BY DEF Host!Counters
<1>2. /\ a["user"] \in Nat /\ a["sys"] \in Nat /\ a["idle"] \in Nat /\ a["iowait"] \in Nat
      /\ b["user"] \in Nat /\ b["sys"] \in Nat /\ b["idle"] \in Nat /\ b["iowait"] \in Nat
    BY <1>1
<1> QED BY <1>2 DEF Passed

LEMMA HostKernel == HostInv /\ Host!Kernel => HostInv'
<1> SUFFICES ASSUME HostInv, Host!Kernel PROVE HostInv'
    OBVIOUS
<1> USE CollectorsAssumption DEF HostInv
<1>1. /\ ticks < MaxTicks /\ ticks' = ticks + 1
      /\ UNCHANGED <<hostPrev, havePrev, clean, prevRan, hostAt, sample, base, solo>>
    BY DEF Host!Kernel, Host!prevVars
<1>2. ran' \in [Host!Counters -> Nat]
    <2>1. "iowait" \in Host!Counters
        BY DEF Host!Counters
    <2> QED BY <2>1 DEF Host!Kernel, HostTypes
<1>3. \/ \E f \in Host!Counters : ran' = [ran EXCEPT ![f] = @ + 1]
      \/ ran' = [ran EXCEPT !["iowait"] = @ - 1]
    BY DEF Host!Kernel
<1>4. ticks \in Nat /\ ran \in [Host!Counters -> Nat] /\ prevRan \in [Host!Counters -> Nat]
      /\ \A c \in Callers : sample[c] \in [Host!Counters -> Nat]
    BY DEF HostTypes
<1>5. \A a \in [Host!Counters -> Nat] : Passed(a, ran, ticks) => Passed(a, ran', ticks + 1)
    BY <1>2, <1>3, <1>4, PassedOn
<1>6. HostTypes'
    BY <1>1, <1>2 DEF HostTypes
<1>7. HostMoments'
    <2>1. havePrev => Passed(prevRan, ran', ticks + 1)
        BY <1>4, <1>5 DEF HostMoments
    <2>2. ASSUME NEW c \in Callers, hostAt[c] # "idle"
          PROVE  /\ Passed(sample[c], ran', ticks + 1)
                 /\ solo[c] /\ havePrev => Passed(prevRan, sample[c], ticks + 1)
        BY <1>4, <1>5, <2>2, PassedLonger DEF HostMoments
    <2> QED BY <1>1, <2>1, <2>2 DEF HostMoments
<1>8. HostSolo' /\ HostPrev'
    BY <1>1 DEF HostSolo, HostPrev
<1> QED BY <1>6, <1>7, <1>8

LEMMA HostReads == ASSUME HostInv, NEW c \in Callers, Host!ReadStat(c) PROVE HostInv'
<1> USE CollectorsAssumption DEF HostInv
<1> DEFINE others == {d \in Callers \ {c} : hostAt[d] # "idle"}
<1>1. /\ hostAt[c] = "idle"
      /\ hostAt' = [hostAt EXCEPT ![c] = IF havePrev THEN "copy" ELSE "store"]
      /\ sample' = [sample EXCEPT ![c] = ran]
      /\ solo' = [d \in Callers |-> IF d = c THEN others = {} ELSE solo[d] /\ d \notin others]
      /\ UNCHANGED <<ran, ticks, hostPrev, havePrev, clean, prevRan, base>>
    BY DEF Host!ReadStat, Host!kernelVars, Host!prevVars
<1>2. /\ hostAt'[c] = (IF havePrev THEN "copy" ELSE "store") /\ hostAt'[c] \in {"copy", "store"}
      /\ sample'[c] = ran
      /\ \A d \in Callers \ {c} : hostAt'[d] = hostAt[d] /\ sample'[d] = sample[d]
    BY <1>1 DEF HostTypes
<1>3. solo' \in [Callers -> BOOLEAN]
    <2>1. \A d \in Callers : (IF d = c THEN others = {} ELSE solo[d] /\ d \notin others) \in BOOLEAN
        BY Zenon
    <2> QED BY ONLY <1>1, <2>1, Zenon
<1>4. /\ solo'[c] => \A d \in Callers \ {c} : hostAt[d] = "idle"
      /\ \A d \in Callers \ {c} : solo'[d] => solo[d] /\ hostAt[d] = "idle"
    <2>1. solo'[c] => others = {}
        BY <1>1
    <2>2. \A d \in Callers \ {c} : solo'[d] => solo[d] /\ d \notin others
        BY <1>1
    <2> QED BY <2>1, <2>2
<1> HIDE DEF others
<1>5. HostTypes'
    BY <1>1, <1>3 DEF HostTypes
<1>6. HostMoments'
    <2>1. Passed(ran, ran, ticks)
        <3>1. ran \in [Host!Counters -> Nat] /\ ticks \in Nat
            BY DEF HostTypes
        <3> QED BY ONLY <3>1, PassedLonger
    <2>2. ASSUME NEW d \in Callers, hostAt'[d] # "idle"
          PROVE  /\ Passed(sample'[d], ran, ticks)
                 /\ solo'[d] /\ havePrev => Passed(prevRan, sample'[d], ticks)
        BY <1>2, <1>4, <2>1, <2>2 DEF HostMoments
    <2> QED BY <1>1, <2>2 DEF HostMoments
<1>7. HostSolo'
    BY <1>2, <1>4 DEF HostSolo
<1>8. HostPrev'
    <2>1. (\A d \in Callers : hostAt'[d] # "storing") => \A d \in Callers : hostAt[d] # "storing"
        BY <1>1, <1>2
    <2> QED BY <1>1, <1>2, <1>4, <2>1 DEF HostPrev
<1> QED BY <1>5, <1>6, <1>7, <1>8

LEMMA HostCopies ==
    ASSUME HostInv, NEW c \in Callers, Host!CopyTotal(c) \/ Host!CopyRest(c)
    PROVE  HostInv'
<1> USE CollectorsAssumption DEF HostInv
<1>1. /\ UNCHANGED <<ran, ticks, hostPrev, havePrev, clean, prevRan, sample, solo>>
      /\ hostAt' \in [Callers -> {"idle", "copy", "compute", "store", "storing"}]
      /\ hostAt[c] \notin {"idle", "storing"} /\ hostAt'[c] \in {"compute", "store"}
      /\ \A d \in Callers \ {c} : hostAt'[d] = hostAt[d]
    BY DEF Host!CopyTotal, Host!CopyRest, Host!kernelVars, Host!prevVars, HostTypes
<1>2. hostPrev \in Figures /\ base[c] \in Figures /\ base \in [Callers -> Figures]
    BY DEF HostTypes
<1>3. base' \in [Callers -> Figures] /\ \A d \in Callers \ {c} : base'[d] = base[d]
    <2>1. CASE Host!CopyTotal(c)
        <3>1. [base[c] EXCEPT !.total = hostPrev.total] \in Figures
            BY <1>2 DEF Figures
        <3>2. base' = [base EXCEPT ![c] = [base[c] EXCEPT !.total = hostPrev.total]]
            BY <2>1, <1>2 DEF Host!CopyTotal
        <3> QED BY <1>2, <3>1, <3>2
    <2>2. CASE Host!CopyRest(c)
        <3>1. [hostPrev EXCEPT !.total = base[c].total] \in Figures
            BY <1>2 DEF Figures
        <3>2. base' = [base EXCEPT ![c] = [hostPrev EXCEPT !.total = base[c].total]]
            BY <2>2 DEF Host!CopyRest
        <3> QED BY <1>2, <3>1, <3>2
    <2> QED BY <2>1, <2>2
<1>4. HostTypes'
    BY <1>1, <1>3 DEF HostTypes
<1>5. HostMoments' /\ HostSolo'
    BY <1>1 DEF HostMoments, HostSolo
<1>6. HostPrev'
    <2>1. (\A d \in Callers : hostAt'[d] # "storing") => \A d \in Callers : hostAt[d] # "storing"
        BY <1>1
    <2>2. ASSUME solo[c], clean, havePrev
          PROVE  hostPrev = Host!parsed(prevRan)
        <3>1. \A d \in Callers : hostAt[d] # "storing"
            BY <1>1, <2>2 DEF HostSolo
        <3> QED BY <2>2, <3>1 DEF HostPrev
    <2>3. ASSUME solo[c], clean, havePrev
          PROVE  /\ hostAt'[c] = "compute" => base'[c].total = Host!parsed(prevRan).total
                 /\ hostAt'[c] = "store" => base'[c] = Host!parsed(prevRan)
        <3>1. CASE Host!CopyTotal(c)
            <4>1. hostAt'[c] = "compute" /\ base'[c].total = hostPrev.total
                BY <1>2, <3>1 DEF Host!CopyTotal, HostTypes, Figures
            <4> QED BY <2>2, <2>3, <4>1
        <3>2. CASE Host!CopyRest(c)
            <4>1. /\ hostAt[c] = "compute" /\ hostAt'[c] = "store"
                  /\ base'[c] = [hostPrev EXCEPT !.total = base[c].total]
                BY <1>2, <3>2 DEF Host!CopyRest, HostTypes
            <4>2. base[c].total = hostPrev.total
                BY <2>2, <2>3, <4>1 DEF HostPrev
            <4>3. [hostPrev EXCEPT !.total = hostPrev.total] = hostPrev
                BY <1>2 DEF Figures
            <4> QED BY <2>2, <2>3, <4>1, <4>2, <4>3
        <3> QED BY <3>1, <3>2
    <2> QED BY <1>1, <1>3, <2>1, <2>3 DEF HostPrev
<1> QED BY <1>4, <1>5, <1>6

LEMMA HostStoresTotal == ASSUME HostInv, NEW c \in Callers, Host!StoreTotal(c) PROVE HostInv'
<1> USE CollectorsAssumption DEF HostInv
<1>1. /\ UNCHANGED <<ran, ticks, havePrev, clean, prevRan, sample, base, solo>>
      /\ hostAt[c] = "store" /\ hostAt' = [hostAt EXCEPT ![c] = "storing"]
      /\ hostPrev' = [hostPrev EXCEPT !.total = Host!parsed(sample[c]).total]
    BY DEF Host!StoreTotal, Host!kernelVars, Host!stored
<1>2. /\ hostAt'[c] = "storing" /\ \A d \in Callers \ {c} : hostAt'[d] = hostAt[d]
      /\ hostAt' \in [Callers -> {"idle", "copy", "compute", "store", "storing"}]
    BY <1>1 DEF HostTypes
<1>3. hostPrev' \in Figures /\ hostPrev'.total = Host!parsed(sample[c]).total
    <2>1. Host!parsed(sample[c]) \in Figures /\ hostPrev \in Figures
        BY ParsedType DEF HostTypes
    <2> QED BY <1>1, <2>1 DEF Figures
<1>4. HostTypes'
    BY <1>1, <1>2, <1>3 DEF HostTypes
<1>5. HostMoments' /\ HostSolo'
    BY <1>1, <1>2 DEF HostMoments, HostSolo
<1>6. HostPrev'
    <2>1. \A d \in Callers \ {c} : solo[d] => hostAt'[d] = "idle"
        BY <1>1, <1>2 DEF HostSolo
    <2> QED BY <1>1, <1>2, <1>3, <2>1 DEF HostPrev
<1> QED BY <1>4, <1>5, <1>6

LEMMA HostStoresRest == ASSUME HostInv, NEW c \in Callers, Host!StoreRest(c) PROVE HostInv'
<1> USE CollectorsAssumption DEF HostInv
<1>1. /\ UNCHANGED <<ran, ticks, solo>> /\ havePrev' = TRUE
      /\ hostAt[c] = "storing" /\ hostAt' = [hostAt EXCEPT ![c] = "idle"]
      /\ hostPrev' = [Host!parsed(sample[c]) EXCEPT !.total = hostPrev.total]
      /\ clean' = solo[c] /\ prevRan' = sample[c]
      /\ base' = [base EXCEPT ![c] = Host!parsed(Host!zero)]
      /\ sample' = [sample EXCEPT ![c] = Host!zero]
    BY DEF Host!StoreRest, Host!kernelVars, Host!stored
<1>2. /\ hostAt'[c] = "idle" /\ \A d \in Callers \ {c} : hostAt'[d] = hostAt[d]
      /\ \A d \in Callers \ {c} : sample'[d] = sample[d] /\ base'[d] = base[d]
      /\ hostAt' \in [Callers -> {"idle", "copy", "compute", "store", "storing"}]
    BY <1>1 DEF HostTypes
<1>3. Host!parsed(sample[c]) \in Figures /\ hostPrev \in Figures /\ hostPrev' \in Figures
    <2>1. Host!parsed(sample[c]) \in Figures /\ hostPrev \in Figures
        BY ParsedType DEF HostTypes
    <2> QED BY <1>1, <2>1 DEF Figures
<1>4. \A d \in Callers \ {c} : solo[d] => hostAt'[d] = "idle"
    BY <1>1, <1>2 DEF HostSolo
<1>5. HostTypes'
    <2>1. Host!zero \in [Host!Counters -> Nat]
        BY DEF Host!zero
    <2>2. Host!parsed(Host!zero) \in Figures
        BY <2>1, ParsedType
    <2>3. sample' \in [Callers -> [Host!Counters -> Nat]] /\ base' \in [Callers -> Figures]
          /\ prevRan' \in [Host!Counters -> Nat]
        BY <1>1, <2>1, <2>2 DEF HostTypes
    <2> QED BY <1>1, <1>2, <1>3, <2>3 DEF HostTypes
<1>6. HostMoments'
    BY <1>1, <1>2, <1>4 DEF HostMoments
<1>7. HostSolo'
    BY <1>1, <1>2 DEF HostSolo
<1>8. HostPrev'
    <2>1. solo[c] => hostPrev' = Host!parsed(sample[c])
        <3> SUFFICES ASSUME solo[c] PROVE hostPrev' = Host!parsed(sample[c])
            OBVIOUS
        <3>1. hostPrev.total = Host!parsed(sample[c]).total
            BY <1>1 DEF HostPrev
        <3>2. [Host!parsed(sample[c]) EXCEPT !.total = Host!parsed(sample[c]).total] = Host!parsed(sample[c])
            BY <1>3 DEF Figures
        <3> QED BY <1>1, <3>1, <3>2
    <2>2. clean' => hostPrev' = Host!parsed(prevRan')
        BY <1>1, <2>1 DEF Host!parsed
    <2> QED BY <1>1, <1>2, <1>4, <2>2 DEF HostPrev
<1> QED BY <1>5, <1>6, <1>7, <1>8

(* SharesAreGrowth: for any number of callers, and over a wrap of every     *)
(* counter, the collector's struct without a lock (host/collector_linux.go) *)
(* gives a call that had it for itself the growth since the last such one.  *)
THEOREM SharesOfGrowth == Spec => []SharesAreGrowth
<1> DEFINE Inv == focus = "host" => HostInv
<1>1. Init => Inv
    BY HostFocus, HostInit
<1>2. HostInv /\ UNCHANGED hostVars => HostInv'
    <2> SUFFICES ASSUME HostInv, UNCHANGED hostVars PROVE HostInv'
        OBVIOUS
    <2> USE DEF hostVars, HostInv
    <2>1. HostTypes' /\ HostMoments'
        BY DEF HostTypes, HostMoments
    <2>2. HostSolo' /\ HostPrev'
        BY DEF HostSolo, HostPrev
    <2> QED BY <2>1, <2>2
<1>3. Inv /\ [Next]_vars => Inv'
    BY <1>2, HostFocus, HostKernel, HostReads, HostCopies, HostStoresTotal, HostStoresRest
       DEF Host!Next
<1>4. Inv => SharesAreGrowth
    BY HostSafe DEF SharesAreGrowth
<1> QED BY <1>1, <1>3, <1>4, PTL DEF Spec
=============================================================================
