---------------------------- MODULE MCSyncServer ----------------------------
(* Small instances of SyncServer: mutations of one account, interchangeable. *)
EXTENDS SyncServer, TLC

CONSTANT o1

OneOwner == [m \in Mutations |-> o1]

Interchangeable == Permutations(Mutations) \cup Permutations(Workers)
=============================================================================
