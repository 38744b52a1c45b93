------------------------------ MODULE Replays ------------------------------
(***************************************************************************)
(* A replay and the store that its worlds, pool and report are kept in.    *)
(* Each has its own variables: a replay is played outside of any session,  *)
(* over a world that was loaded before it.                                 *)
(***************************************************************************)
EXTENDS ReplayRun, ReplayStore

\* What holds of replays and of what they are played from, in every state: those of
\* one replay, and that a sealed world whose runs stand can be loaded.
ReplaysSafe == ReplaySafe /\ ReplayStoreTypeOK /\ SealedLoads
=============================================================================
