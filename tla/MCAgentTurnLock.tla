--------------------------- MODULE MCAgentTurnLock ---------------------------
(* A few turns on a few transcripts, for TLC. *)
EXTENDS AgentTurnLock, TLC

\* Clients of a kind, ids and lock objects are interchangeable.
Symmetry == UNION {Permutations(Chats), Permutations(Relays), Permutations(Ids),
                   Permutations(Locks)}
=============================================================================
