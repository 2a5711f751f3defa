----------------------------- MODULE MCSyncMerge -----------------------------
(***************************************************************************)
(* The merge of SyncMerge.tla over every ancestor, server and client       *)
(* payload of a small payload space: one step merges one arriving payload. *)
(***************************************************************************)
EXTENDS SyncMerge

CONSTANTS fa, fb  \* property names

(* Honoured orders, one that names no property, one that is too long. *)
SomeOrders == {<<fa>>, <<fb, fa>>, <<"elsewhere">>, <<fb, fa, fb>>}

VARIABLES ancestor, server, client, merged, pending

mergeVars == <<ancestor, server, client, merged, pending>>

MergeInit ==
  /\ ancestor \in Payload \cup {None}
  /\ server \in Payload \cup {None}
  /\ client \in Payload \cup {None}
  /\ merged = None
  /\ pending = TRUE

Merge ==
  /\ pending
  /\ merged' = defaultThreeWayMerge(ancestor, server, client)
  /\ pending' = FALSE
  /\ UNCHANGED <<ancestor, server, client>>

MergeSpec == MergeInit /\ [][Merge]_mergeVars

-----------------------------------------------------------------------------
(* The merge looked at single properties. *)
Fieldwise ==
  ~pending /\ server # None /\ client # None /\ preferredPayload(server, client) = None

Base == IF ancestor = None THEN Empty ELSE ancestor

(***************************************************************************)
(* What the server holds under a property the client left alone survives,  *)
(* also when the client sends the ancestor's old value along (semantics.md *)
(* lines 30-31: a client's value counts where the client changed it).      *)
(***************************************************************************)
ServerChangesSurvive ==
  Fieldwise =>
    /\ \A f \in Fields : client.data[f] = Base.data[f] => merged.data[f] = server.data[f]
    /\ client.order = Base.order => merged.order = server.order

(* A value the client gave a property is in the result, whether or not the *)
(* server changed that property too ("the arriving client value wins").    *)
ClientValuesWin ==
  Fieldwise => \A f \in Fields :
    client.data[f] \notin {Absent, Base.data[f]} => merged.data[f] = client.data[f]

(* Neither side's change is lost in the other's. *)
BothSidesSurvive == ServerChangesSurvive /\ ClientValuesWin

(***************************************************************************)
(* Products that "need an order independent of arrival" include an order:  *)
(* two payloads with the same honoured order merge to the same complete    *)
(* payload whichever arrives first, the one that is greater at the first   *)
(* listed property where they differ.  Written with the position of that   *)
(* property rather than with Outranks.                                     *)
(***************************************************************************)
FirstDifference(order) ==
  CHOOSE k \in 1..(Len(order) + 1) :
    /\ \A j \in 1..(k - 1) : server.data[order[j]] = client.data[order[j]]
    /\ k <= Len(order) => server.data[order[k]] # client.data[order[k]]

AllNumbers(p, order) ==
  \A k \in DOMAIN order : order[k] \in Fields /\ p.data[order[k]] \in Numbers

ConflictOrderIgnoresArrival ==
  (/\ ~pending /\ server # None /\ client # None
   /\ client.order = server.order
   /\ client.order # Absent /\ Len(client.order) <= MaxConflictOrder
   /\ AllNumbers(server, client.order) /\ AllNumbers(client, client.order))
  => LET k == FirstDifference(client.order)
     IN  k <= Len(client.order) =>
           /\ merged = IF client.data[client.order[k]] > server.data[client.order[k]]
                       THEN client ELSE server
           /\ merged = defaultThreeWayMerge(ancestor, client, server)

(***************************************************************************)
(* "Ordinary properties changed only by the client replace the ancestor    *)
(* value" (protocol/semantics.md line 30), read for a property the client  *)
(* removed: it should be gone from the result.                             *)
(***************************************************************************)
ClientOnlyChangesReplace ==
  Fieldwise => \A f \in Fields :
    server.data[f] = Base.data[f] => merged.data[f] = client.data[f]

=============================================================================
