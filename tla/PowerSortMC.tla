----------------------------- MODULE PowerSortMC -----------------------------
(***************************************************************************)
(* A small instance of PowerSort: three events, each naming at most the    *)
(* two others as auth events, in either order (auth cycles included); the  *)
(* only sender has level 50, level 0 by default, or unreadable levels.     *)
(***************************************************************************)
EXTENDS PowerSort

MCAuthEvents == {s \in UNION {[1 .. n -> EventId] : n \in 0 .. 2} : IsInjective(s)}

MCContent ==
  {[well_formed |-> TRUE, users |-> <<>>, users_default |-> 0],
   [well_formed |-> TRUE, users |-> [u \in User |-> 50], users_default |-> 0],
   [well_formed |-> FALSE, users |-> <<>>, users_default |-> 0]}

MCNoContent == CHOOSE c \in MCContent : ~c.well_formed

MCEvent ==
  {e \in [kind : {"power_levels", "control", "other"}, sender : User,
          auth_events : MCAuthEvents, origin_server_ts : Timestamp, content : MCContent] :
     e.kind # "power_levels" => e.content = MCNoContent}

(* No event is its own auth event; auth events are the older or the newer  *)
(* ids, or any, cycles included, if nothing but the shape of the graph     *)
(* varies; and at most one event that the server has is outside the full   *)
(* conflicted set.                                                         *)
Names(e) == Range(store[e].auth_events)

MCInit ==
  /\ InitPS
  /\ \A e \in DOMAIN store : e \notin Names(e)
  /\ \/ \A e \in DOMAIN store : \A a \in Names(e) : a < e
     \/ \A e \in DOMAIN store : \A a \in Names(e) : a > e
     \/ \A e \in DOMAIN store : store[e].kind = "control"
  /\ Cardinality(DOMAIN store \ auth_diff) <= 1

MCSpec == MCInit /\ [][NextPS]_allVars /\ WF_allVars(NextPS)
=============================================================================
