---------------------------- MODULE MCSyncClient ----------------------------
(* Small instances of SyncClient: devices of one account. *)
EXTENDS SyncClient, TLC

CONSTANTS o1, d1, d2, m1, m2

OneOwner == [m \in Mutations |-> o1]

OneAccount == [d \in Devices |-> o1]

(* All mutations but m1 are of the second device. *)
MostlySecond == [m \in Mutations |-> IF m = m1 THEN d1 ELSE d2]

Interchangeable == Permutations(Records) \cup Permutations(Mutations \ {m1})
=============================================================================
