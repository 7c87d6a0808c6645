--------------------------- MODULE MC_HealthCache ---------------------------
(* TLC's instance of HealthCache: two overlapping samples (the TUI fetches  *)
(* on every tick without waiting for the previous fetch).                   *)
EXTENDS HealthCache

CONSTANTS c1, c2

TwoCallers == {c1, c2}

VARIABLE overlapped   \* history: two samples have been in cachedHealth at once

MCInit == Init /\ overlapped = FALSE

MCNext ==
    /\ Next
    /\ overlapped' = (overlapped \/ \E c, d \in Callers :
                                      c # d /\ phase'[c] = "surface" /\ phase'[d] = "surface")

mcVars == <<vars, overlapped>>

MCSpec == MCInit /\ [][MCNext]_mcVars /\ \A c \in Callers : WF_vars(SurfaceError(c))

(* As long as samples follow one another, as the agent's do, none pairs     *)
(* signals with the error of an older refresh.                              *)
ErrorNewerUnlessOverlapped == ~overlapped => ErrorNewerThanSignals
=============================================================================
