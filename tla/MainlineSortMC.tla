--------------------------- MODULE MainlineSortMC ---------------------------
(***************************************************************************)
(* Small instances of MainlineSort: any three events that name at most two *)
(* others as auth events, and any four that name at most one.              *)
(***************************************************************************)
EXTENDS MainlineSort

MCAuthEvents(ids, max) == {s \in UNION {[1 .. n -> ids] : n \in 0 .. max} : IsInjective(s)}

MCEvents(ids, max) ==
  [power_levels : BOOLEAN, auth_events : MCAuthEvents(ids, max), origin_server_ts : 1 .. 2]

MCEvent == MCEvents(EventId, 2)

(* Only event 1 may be sent late; otherwise the ids break ties.            *)
MCStores ==
  {st \in [1 .. 3 -> MCEvents(1 .. 3, 2)] \cup UNION {[k -> MCEvents(1 .. 4, 1)] : k \in {1 .. 4, 1 .. 3}} :
     \A e \in DOMAIN st : e # 1 => st[e].origin_server_ts = 1}

MCInit == store \in MCStores /\ Init

MCSpec == MCInit /\ [][Next]_vars /\ WF_vars(Next)
=============================================================================
