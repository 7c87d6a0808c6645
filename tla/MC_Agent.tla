------------------------------- MODULE MC_Agent -------------------------------
(* TLC's instance of Agent: one client is enough, clients do not interact.  *)
EXTENDS Agent
=============================================================================
