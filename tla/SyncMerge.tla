------------------------------ MODULE SyncMerge ------------------------------
(***************************************************************************)
(* The payload algebra of the sync protocol: the three-way merge a server  *)
(* applies when a mutation arrives on a base revision that is no longer    *)
(* current (packages/server/src/domain/sync.ts).                           *)
(*                                                                         *)
(* A payload is a JSON object.  Two parts of it matter to the merge: its   *)
(* ordinary properties, and the reserved property "_sync" that may hold a  *)
(* conflict order (a list of property names).  A property value is its JSON *)
(* text (jsonEquals compares texts), opaque except that the code asks      *)
(* whether it is a number and compares numbers.                            *)
(***************************************************************************)
EXTENDS Integers, Sequences

CONSTANTS
  Fields,            \* names of the ordinary properties
  Values,            \* what a property may hold
  Numbers,           \* the values that are JSON numbers
  Orders,            \* conflict orders a payload may carry
  MaxConflictOrder,  \* the longest order the server honours (8 in the code)
  Absent,            \* the property is not in the object (undefined)
  None               \* the JavaScript null: no object

ASSUME NumbersAssumption == Numbers \subseteq Values \cap Int
ASSUME AbsentAssumption  == Absent \notin Values /\ Absent \notin Orders
ASSUME OrdersAssumption  ==
  \A order \in Orders : Len(order) \in Nat /\ DOMAIN order = 1..Len(order)
ASSUME LimitAssumption   == MaxConflictOrder \in Nat

Payload == [data : [Fields -> Values \cup {Absent}], order : Orders \cup {Absent}]

ASSUME NoneAssumption == None \notin Payload

(* {} : the object an absent ancestor stands for. *)
Empty == [data |-> [f \in Fields |-> Absent], order |-> Absent]

(***************************************************************************)
(* preferredPayload.  An order names properties to compare; a name that is *)
(* no property of the object, or holds no number in both, ends the         *)
(* comparison undecided.                                                   *)
(***************************************************************************)
HonouredOrder(order) == order # Absent /\ Len(order) \in 1..MaxConflictOrder

Numeric(p, f) == f \in Fields /\ p.data[f] \in Numbers

Comparable(p, q, f) == Numeric(p, f) /\ Numeric(q, f)

(* Mutant of Outranks: the last listed property decides. *)
OutranksAtLast(p, q, order) ==
  LET k == Len(order)
  IN  /\ Comparable(p, q, order[k])
      /\ p.data[order[k]] > q.data[order[k]]

(* p is greater than q at the first listed property where they differ. *)
Outranks(p, q, order) ==
  \E k \in 1..Len(order) :
    /\ \A j \in 1..(k - 1) : /\ Comparable(p, q, order[j])
                             /\ p.data[order[j]] = q.data[order[j]]
    /\ Comparable(p, q, order[k])
    /\ p.data[order[k]] > q.data[order[k]]

preferredPayload(server, client) ==
  CASE HonouredOrder(client.order) /\ Outranks(client, server, client.order) -> client
    [] HonouredOrder(client.order) /\ Outranks(server, client, client.order) -> server
    [] OTHER -> None

(* Mutant of mergeProperty: whatever the client holds replaces the server's. *)
KeepClient(ancestor, server, client) == IF client # Absent THEN client ELSE server

(***************************************************************************)
(* One property of the merge: the loop visits the keys of the client       *)
(* object only, so a property the client does not hold keeps the server's  *)
(* value.                                                                  *)
(***************************************************************************)
mergeProperty(ancestor, server, client) ==
  LET clientChanged == client # ancestor
      serverChanged == server # ancestor
  IN  IF /\ client # Absent
         /\ clientChanged
         /\ ~serverChanged \/ client # server
      THEN client
      ELSE server

mergeFields(ancestor, server, client) ==
  [data  |-> [f \in Fields |->
                mergeProperty(ancestor.data[f], server.data[f], client.data[f])],
   order |-> mergeProperty(ancestor.order, server.order, client.order)]

defaultThreeWayMerge(ancestor, server, client) ==
  IF client = None THEN None
  ELSE IF server = None THEN client
  ELSE IF preferredPayload(server, client) # None
       THEN preferredPayload(server, client)
       ELSE mergeFields(IF ancestor = None THEN Empty ELSE ancestor, server, client)

=============================================================================
