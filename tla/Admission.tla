----------------------------- MODULE Admission -----------------------------
(***************************************************************************)
(* What the proxy's listeners promise together, whatever protocol each of  *)
(* them speaks: at most Limit clients are inside at once over all doors, a *)
(* client at an open door is turned away only while the house is full, and *)
(* a full house never keeps anyone waiting at a door.                      *)
(***************************************************************************)
EXTENDS Integers, FiniteSets

CONSTANTS Clients, Doors, Limit

VARIABLES
  open,       \* the open doors
  asking,     \* asking[d]: clients at door d
  inside      \* clients let in

avars == <<open, asking, inside>>

AtDoors == UNION {asking[d] : d \in Doors}

AInit == open = {} /\ asking = [d \in Doors |-> {}] /\ inside = {}

OpenDoor(d) ==
  /\ d \notin open
  /\ open' = open \cup {d}
  /\ UNCHANGED <<asking, inside>>

\* A door that closes sends those in front of it away.
CloseDoor(d) ==
  /\ d \in open
  /\ open' = open \ {d}
  /\ asking' = [asking EXCEPT ![d] = {}]
  /\ UNCHANGED inside

Ask(d, c) ==
  /\ d \in open /\ c \notin AtDoors \cup inside
  /\ asking' = [asking EXCEPT ![d] = @ \cup {c}]
  /\ UNCHANGED <<open, inside>>

Admit(d, c) ==
  /\ c \in asking[d] /\ Cardinality(inside) < Limit
  /\ asking' = [asking EXCEPT ![d] = @ \ {c}]
  /\ inside' = inside \cup {c}
  /\ UNCHANGED open

TurnAway(d, c) ==
  /\ c \in asking[d] /\ Cardinality(inside) = Limit
  /\ asking' = [asking EXCEPT ![d] = @ \ {c}]
  /\ UNCHANGED <<open, inside>>

Leave(c) ==
  /\ c \in inside
  /\ inside' = inside \ {c}
  /\ UNCHANGED <<open, asking>>

Answer(d, c) == Admit(d, c) \/ TurnAway(d, c)

ANext ==
  \/ \E d \in Doors : OpenDoor(d) \/ CloseDoor(d)
  \/ \E d \in Doors, c \in Clients : Ask(d, c) \/ Answer(d, c)
  \/ \E c \in Clients : Leave(c)

ASafety == AInit /\ [][ANext]_avars

ASpec == /\ ASafety
         /\ \A d \in Doors, c \in Clients : WF_avars(Answer(d, c))
=============================================================================
