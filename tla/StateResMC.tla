----------------------------- MODULE StateResMC -----------------------------
(***************************************************************************)
(* Small instances of StateRes: two forks over three events, of which one  *)
(* may be unknown and one may be no state event or have unreadable power   *)
(* levels.  The auth chains are the ones of the forks.                     *)
(***************************************************************************)
EXTENDS StateRes

CONSTANT Member    \* the key of an m.room.member event

MCEvent ==
  {ev \in [key : Key \cup {NoKey}, power : BOOLEAN, levels_readable : BOOLEAN,
           auth_events : SUBSET EventId] :
     (ev.key = PowerLevels => ev.power) /\ (ev.key = NoKey => ~ev.power)}

Plain(ev) == ev.key # NoKey /\ ev.levels_readable

(* Events name earlier events; only event 2 may be out of the ordinary.    *)
MCEventsAt(id) ==
  {ev \in MCEvent :
     /\ ev.auth_events \subseteq 1 .. (id - 1)
     /\ id # 2 => Plain(ev)}

(* The events reachable from the ids along auth events.                    *)
MCAuthChain(st, ids) ==
  {e \in EventId :
     \A S \in SUBSET EventId :
       /\ \A x \in (ids \cup S) \cap DOMAIN st : st[x].auth_events \subseteq S
       => e \in S}

MCStateSets(st) ==
  {m \in PartialMap(Key, EventId) : \A k \in DOMAIN m : m[k] \in DOMAIN st => st[m[k]].key = k}

MCInit ==
  /\ \E e1 \in MCEventsAt(1), e2 \in MCEventsAt(2), e3 \in MCEventsAt(3), missing \in {0, 1} :
       store = [e \in EventId \ {missing} |-> <<e1, e2, e3>>[e]]
  /\ \E a, b \in MCStateSets(store) :
       /\ state_sets = <<a, b>>
       /\ auth_chain_sets = <<MCAuthChain(store, Range(a)), MCAuthChain(store, Range(b))>>
  /\ version_known \in BOOLEAN
  /\ clean = <<>> /\ all_conflicted = {} /\ control = {} /\ queue = <<>>
  /\ checked = <<>> /\ resolved = <<>> /\ pc = "start"

MCSpec == MCInit /\ [][Next]_vars
=============================================================================
