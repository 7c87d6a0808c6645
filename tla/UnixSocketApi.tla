----------------------------- MODULE UnixSocketApi -----------------------------
(***************************************************************************)
(* The local API: the agent's server on a unix socket                      *)
(* (internal/api/unixsock) and its clients (internal/api/client), over     *)
(* restarts, kills and a second agent on the same path.  A life is one     *)
(* process of the agent with its socket.  Closing a listener unlinks its   *)
(* path by name, whoever's socket is there; a killed process leaves its    *)
(* socket behind.  Clients keep their connection between requests.         *)
(***************************************************************************)
EXTENDS Naturals

CONSTANTS
    Clients,
    MaxLives,         \* bound: processes started
    MaxSnapshots      \* bound: snapshots each of them publishes

Lives == 1 .. MaxLives

VARIABLES
    born,             \* lives begun so far
    state,            \* of each life
    path,             \* the life whose socket the path names, 0 for none
    published,        \* each life's latest snapshot, 0 before the first
    conn,             \* the life each client is connected to, 0 for none
    request,          \* "none", "waiting" or "answered"
    since,            \* history: what was published when the request began
    answer,           \* what the handler answered
    overlapped        \* history: two agents have run at the same time

vars == <<born, state, path, published, conn, request, since, answer, overlapped>>
clientVars == <<conn, request, since, answer>>

Starting == {"remove", "listen", "chmod"}
Running == Starting \union {"serving", "draining", "unlink"}

Init ==
    /\ born = 0 /\ overlapped = FALSE
    /\ state = [l \in Lives |-> "unborn"]
    /\ path = 0 /\ published = [l \in Lives |-> 0]
    /\ conn = [c \in Clients |-> 0]
    /\ request = [c \in Clients |-> "none"]
    /\ since = [c \in Clients |-> 0]
    /\ answer = [c \in Clients |-> 0]

becomes(l, s) ==
    /\ state' = [state EXCEPT ![l] = s]
    /\ UNCHANGED <<born, published, overlapped, clientVars>>

Start(l) ==
    /\ l = born + 1 /\ born' = l
    /\ state' = [state EXCEPT ![l] = "remove"]
    /\ overlapped' = (overlapped \/ \E k \in Lives : state[k] \in Running)
    /\ UNCHANGED <<path, published, clientVars>>

(* faulty: a socket left behind is not removed *)
removed_Not == path

removed == 0

(* mkdir or unlink may fail. *)
RemoveStale(l) ==
    /\ state[l] = "remove"
    /\ \/ becomes(l, "failed") /\ UNCHANGED path
       \/ becomes(l, "listen") /\ path' = removed

(* "blocked": the address is in use. *)
Listen(l) ==
    /\ state[l] = "listen"
    /\ \/ path = 0 /\ path' = l /\ becomes(l, "chmod")
       \/ path # 0 /\ becomes(l, "blocked") /\ UNCHANGED path
       \/ becomes(l, "failed") /\ UNCHANGED path

(* Connections wait in the listener's queue until Serve takes them. *)
Chmod(l) ==
    /\ state[l] = "chmod"
    /\ \/ path # 0 /\ becomes(l, "serving") /\ UNCHANGED path
       \/ becomes(l, "failed") /\ path' = 0

Publish(l) ==
    /\ state[l] = "serving" /\ published[l] < MaxSnapshots
    /\ published' = [published EXCEPT ![l] = @ + 1]
    /\ UNCHANGED <<born, state, path, overlapped, clientVars>>

(* http.Server.Shutdown closes the listener, waits for the requests under   *)
(* way, for as long as the caller's context allows, and ends with an error  *)
(* after that.                                                              *)
Shutdown(l) == state[l] = "serving" /\ becomes(l, "draining") /\ path' = 0

Drained(l) ==
    /\ state[l] = "draining"
    /\ \/ /\ \A c \in Clients : conn[c] # l \/ request[c] = "none"
          /\ becomes(l, "unlink")
       \/ becomes(l, "failed")
    /\ UNCHANGED path

RemoveSocket(l) == state[l] = "unlink" /\ becomes(l, "down") /\ path' = 0

Kill(l) == state[l] \in Running /\ becomes(l, "killed") /\ UNCHANGED path

-----------------------------------------------------------------------------
(* The kept connection while its server keeps it, else a new one.           *)
target(c) == IF conn[c] # 0 /\ state[conn[c]] = "serving" THEN conn[c] ELSE path

accepts(l) == l # 0 /\ state[l] \in {"chmod", "serving"}

Get(c) ==
    /\ request[c] = "none" /\ accepts(target(c))
    /\ conn' = [conn EXCEPT ![c] = target(c)]
    /\ request' = [request EXCEPT ![c] = "waiting"]
    /\ since' = [since EXCEPT ![c] = published[target(c)]]
    /\ UNCHANGED <<born, state, path, published, answer, overlapped>>

(* faulty: the snapshot is answered without asking whether there is one *)
respond_Always(l) == [ok |-> TRUE, snapshot |-> published[l]]

respond(l) == [ok |-> published[l] # 0, snapshot |-> published[l]]

handleSnapshot(c) ==
    /\ request[c] = "waiting" /\ state[conn[c]] \in {"serving", "draining"}
    /\ answer' = [answer EXCEPT ![c] = respond(conn[c])]
    /\ request' = [request EXCEPT ![c] = "answered"]
    /\ UNCHANGED <<born, state, path, published, conn, since, overlapped>>

(* FetchSnapshot returns: with the answer, or with an error, because nobody *)
(* listens, the connection broke or the client's timeout has passed.        *)
FetchSnapshot(c) ==
    /\ \/ request[c] = "answered" /\ UNCHANGED conn
       \/ request[c] \in {"waiting", "answered"} /\ conn' = [conn EXCEPT ![c] = 0]
    /\ request' = [request EXCEPT ![c] = "none"]
    /\ since' = [since EXCEPT ![c] = 0]
    /\ answer' = [answer EXCEPT ![c] = 0]
    /\ UNCHANGED <<born, state, path, published, overlapped>>

Next ==
    \/ \E l \in Lives : \/ Start(l) \/ RemoveStale(l) \/ Listen(l) \/ Chmod(l) \/ Publish(l)
                        \/ Shutdown(l) \/ Drained(l) \/ RemoveSocket(l) \/ Kill(l)
    \/ \E c \in Clients : Get(c) \/ handleSnapshot(c) \/ FetchSnapshot(c)

Spec == Init /\ [][Next]_vars

-----------------------------------------------------------------------------
(* As long as agents run one after the other, whatever the end of the one   *)
(* before, none is kept from starting by a socket that was left behind, and *)
(* while one serves the path leads to it.  (A second agent takes the path,  *)
(* and the shutdown of the first then removes it: overlapped.)              *)
AgentIsReachable ==
    ~overlapped => \A l \in Lives :
        /\ state[l] # "blocked"
        /\ state[l] \in {"chmod", "serving"} => path = l
        /\ state[l] = "down" /\ born = l => path = 0

(* A snapshot a client gets, also over a kept connection to an agent that   *)
(* shuts down, is one that was published and not older than the request;    *)
(* only an agent that had none when asked answers that it has none.         *)
AnswersAreCurrent ==
    \A c \in Clients : request[c] = "answered" =>
        /\ answer[c].ok => answer[c].snapshot # 0
        /\ ~answer[c].ok => since[c] = 0
        /\ answer[c].snapshot \in since[c] .. published[conn[c]]
=============================================================================
