------------------------- MODULE MCAccountLifecycle -------------------------
(* Small instances of AccountLifecycle. *)
EXTENDS AccountLifecycle, TLC

CONSTANTS s1, s2, d1, d2, a1

(* The first account was migrated. *)
Migrated == [s \in Subjects |-> IF s = s1 THEN a1 ELSE NoAccount]

(* A device for each of two identities. *)
OneDeviceEach == [d \in Devices |-> IF d = d1 THEN s1 ELSE s2]

Interchangeable == Permutations(Requests)
=============================================================================
