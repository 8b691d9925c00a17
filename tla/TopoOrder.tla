------------------------------ MODULE TopoOrder ------------------------------
(***************************************************************************)
(* What a topological sort of an event graph promises, and no more: nodes  *)
(* are handed out one by one, each at most once, a node only after every   *)
(* node its edges point to, and the sort may give up (an error) at any     *)
(* moment but may only claim success when no further node is available.    *)
(* LexTopoSort is shown to implement this specification.                   *)
(***************************************************************************)
EXTENDS Sequences, Functions

VARIABLES
  graph,     \* node -> the set of nodes its edges point to
  sorted,    \* the nodes handed out so far, in order
  outcome    \* "running", "ok" (finished) or "error" (gave up)

vars == <<graph, sorted, outcome>>

\* The nodes that may be handed out next.
Available == {n \in DOMAIN graph \ Range(sorted) : graph[n] \subseteq Range(sorted)}

Init ==
  /\ sorted = <<>>
  /\ outcome = "running"

Emit(n) ==
  /\ outcome = "running"
  /\ n \in Available
  /\ sorted' = Append(sorted, n)
  /\ UNCHANGED <<graph, outcome>>

Finish ==
  /\ outcome = "running"
  /\ Available = {}
  /\ outcome' = "ok"
  /\ UNCHANGED <<graph, sorted>>

GiveUp ==
  /\ outcome = "running"
  /\ outcome' = "error"
  /\ UNCHANGED <<graph, sorted>>

Next ==
  \/ \E n \in DOMAIN graph : Emit(n)
  \/ Finish
  \/ GiveUp

Spec == Init /\ [][Next]_vars
=============================================================================
