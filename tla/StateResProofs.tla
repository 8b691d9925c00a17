--------------------------- MODULE StateResProofs ---------------------------
(***************************************************************************)
(* Proofs about StateRes: the types, and what resolve does with agreed and *)
(* conflicted state, for any number of events, keys and forks.             *)
(***************************************************************************)
EXTENDS StateRes, FiniteSetTheorems, TLAPS

InputOK ==
  /\ DOMAIN store \subseteq EventId
  /\ \A e \in DOMAIN store : store[e] \in Event
  /\ state_sets \in Seq(PartialMap(Key, EventId))

(* After the separation `clean` is the state all forks agree on.           *)
CleanIsAgreed ==
  pc \notin {"start"} => clean = [k \in Agreed |-> state_sets[1][k]]

CheckedIds == {checked[i].id : i \in DOMAIN checked}

(* The power events are checked in the first pass, the others in the       *)
(* second, and none is waiting that has been checked.                      *)
QueueOK ==
  /\ IsInjective(queue)
  /\ Range(queue) \cap CheckedIds = {}
  /\ pc = "start" => queue = <<>> /\ checked = <<>> /\ all_conflicted = {}
  /\ pc = "control" => CheckedIds \cup Range(queue) = control
  /\ pc = "rest" => control \cap Range(queue) = {}
  /\ pc \in {"control", "rest"} => \A e \in all_conflicted : store[e].power => e \in control
  /\ pc = "rest" => \A e \in all_conflicted : ChainKnown(e) => e \in CheckedIds \cup Range(queue)

(* What resolved_state holds comes from the agreed state or was allowed    *)
(* last for its key.                                                       *)
ResolvedOK ==
  pc \in {"control", "rest"} =>
    /\ \A k \in DOMAIN resolved \ Agreed : IsLastAllowed(resolved[k], k)
    /\ \A i \in DOMAIN checked : checked[i].allowed => store[checked[i].id].key \in DOMAIN resolved

InvSR ==
  /\ InputOK
  /\ TypeOK
  /\ CleanIsAgreed
  /\ QueueOK
  /\ ResolvedOK
  /\ UnconflictedStateKept
  /\ LastAllowedWins
  /\ EachCheckedOnce

-----------------------------------------------------------------------------
(* The inputs never change, nor does what is computed from them alone.     *)
LEMMA InputUnchanged ==
  UNCHANGED inputs => Agreed' = Agreed /\ (InputOK <=> InputOK')
                      /\ \A e : ChainKnown(e) <=> ChainKnown(e)'
  BY DEF inputs, Agreed, Keys, InputOK, ChainKnown

(* No action changes the inputs of resolve.                                *)
LEMMA InputsKept == Next => UNCHANGED inputs
  BY DEF Next, NoConflict, SortControl, Check, CheckFails, SortRest, SortRestFails, Finish, inputs

(* A map from keys to event ids is a state map.                            *)
LEMMA IsStateMap ==
  ASSUME NEW ks \in SUBSET Key, NEW f \in [ks -> EventId]
  PROVE  f \in PartialMap(Key, EventId)
  BY DEF PartialMap

(* What a state map is, as a function.                                      *)
LEMMA StateMapIs ==
  ASSUME NEW f \in PartialMap(Key, EventId)
  PROVE  DOMAIN f \subseteq Key /\ f \in [DOMAIN f -> EventId]
  BY DEF PartialMap

(* What separate returns as unconflicted is a map from keys to event ids.  *)
LEMMA AgreedIsStateMap ==
  InputOK => [k \in Agreed |-> state_sets[1][k]] \in PartialMap(Key, EventId)
<1> SUFFICES ASSUME InputOK PROVE [k \in Agreed |-> state_sets[1][k]] \in PartialMap(Key, EventId)
  OBVIOUS
<1>1. \A i \in DOMAIN state_sets :
        DOMAIN state_sets[i] \subseteq Key /\ state_sets[i] \in [DOMAIN state_sets[i] -> EventId]
  BY StateMapIs DEF InputOK
<1>2. Agreed \subseteq Key
  BY <1>1 DEF Agreed, Keys
<1>3. \A k \in Agreed : state_sets[1][k] \in EventId
  <2> TAKE k \in Agreed
  <2>1. PICK i \in DOMAIN state_sets : k \in DOMAIN state_sets[i]
    BY DEF Agreed, Keys
  <2>2. 1 \in DOMAIN state_sets
    BY <2>1 DEF InputOK
  <2>3. k \in DOMAIN state_sets[1]
    BY <2>2 DEF Agreed
  <2> QED BY <1>1, <2>2, <2>3
<1> QED BY <1>2, <1>3, IsStateMap

(* An order of a finite set is a sequence of its elements, each once.      *)
LEMMA OrdersAreSeqs ==
  ASSUME NEW S, IsFiniteSet(S), NEW s \in Orders(S)
  PROVE  s \in Seq(S) /\ Range(s) = S /\ IsInjective(s)
<1>1. Cardinality(S) \in Nat
  BY FS_CardinalityType
<1> QED BY <1>1 DEF Orders

(* There are finitely many events.                                         *)
LEMMA SubsetsAreFinite ==
  ASSUME NEW S \in SUBSET EventId
  PROVE  IsFiniteSet(S)
  BY EventIdAssumption, FS_Subset

(* Power events are among those that the first pass checks.                *)
LEMMA ControlHasPowerEvents ==
  ASSUME NEW conflicted
  PROVE  /\ ControlEvents(conflicted) \subseteq conflicted
         /\ \A e \in conflicted : store[e].power => e \in ControlEvents(conflicted)
  BY DEF ControlEvents, AuthClosed

-----------------------------------------------------------------------------
(* Every action keeps the types.                                           *)
LEMMA TypeStep == InvSR /\ Next => TypeOK'
<1> SUFFICES ASSUME InvSR, Next PROVE TypeOK'
  OBVIOUS
<1> USE DEF InvSR
<1>0. UNCHANGED inputs
  BY InputsKept
<1>1. CASE NoConflict
  <2>1. clean' \in PartialMap(Key, EventId)
    BY <1>1, AgreedIsStateMap DEF NoConflict, Separated
  <2> QED BY <1>1, <2>1 DEF NoConflict, TypeOK, inputs
<1>2. CASE SortControl
  <2>1. clean' \in PartialMap(Key, EventId)
    BY <1>2, AgreedIsStateMap DEF SortControl, Separated
  <2>2. all_conflicted' \subseteq DOMAIN store
    BY <1>2 DEF SortControl, FullConflictedSet
  <2>3. control' \subseteq all_conflicted'
    BY <1>2, ControlHasPowerEvents DEF SortControl
  <2>4. queue' \in Seq(all_conflicted')
    <3>1. CASE queue' = <<>>
      BY <3>1
    <3>2. CASE queue' \in Orders(control')
      <4>1. IsFiniteSet(control')
        BY <2>2, <2>3, SubsetsAreFinite DEF InputOK
      <4>2. queue' \in Seq(control')
        BY <3>2, <4>1, OrdersAreSeqs
      <4> QED BY <4>2, <2>3
    <3> QED BY <1>2, <3>1, <3>2 DEF SortControl, PowerOrders
  <2>5. checked' = <<>>
    BY <1>2 DEF SortControl, QueueOK
  <2>6. resolved' \in PartialMap(Key, EventId) /\ pc' \in {"control", "error"}
    BY <1>2, <2>1 DEF SortControl
  <2> QED BY <1>0, <2>1, <2>2, <2>3, <2>4, <2>5, <2>6 DEF TypeOK, inputs
<1>3. ASSUME NEW allowed \in BOOLEAN, Check(allowed) PROVE TypeOK'
  <2> DEFINE e == Head(queue)
  <2>1. e \in all_conflicted /\ queue' \in Seq(all_conflicted)
    BY <1>3 DEF Check, TypeOK
  <2>2. store[e].key \in Key /\ e \in EventId
    BY <1>3, <2>1, EventAssumption DEF Check, TypeOK, NoStateEvent, InputOK
  <2>3. DOMAIN resolved \subseteq Key /\ resolved \in [DOMAIN resolved -> EventId]
    BY StateMapIs DEF TypeOK
  <2>4. Insert(resolved, e) \in PartialMap(Key, EventId)
    <3>1. Insert(resolved, e) \in [DOMAIN resolved \cup {store[e].key} -> EventId]
      BY <2>2, <2>3 DEF Insert
    <3> QED BY <3>1, <2>2, <2>3, IsStateMap
  <2>5. resolved' \in PartialMap(Key, EventId)
    BY <1>3, <2>4 DEF Check, InsertIfAllowed, TypeOK
  <2>6. checked' \in Seq([id : all_conflicted, allowed : BOOLEAN])
    BY <1>3, <2>1 DEF Check, TypeOK
  <2> QED BY <1>3, <2>1, <2>5, <2>6 DEF Check, TypeOK, inputs
<1>4. CASE CheckFails
  BY <1>4 DEF CheckFails, TypeOK, inputs
<1>5. CASE SortRest
  <2>1. PICK T \in SUBSET EventsToResolve : queue' \in Orders(T)
    BY <1>5 DEF SortRest
  <2>2. T \subseteq all_conflicted
    BY DEF EventsToResolve
  <2>3. IsFiniteSet(T)
    BY <2>2, SubsetsAreFinite DEF TypeOK, InputOK
  <2>4. queue' \in Seq(all_conflicted)
    BY <2>1, <2>2, <2>3, OrdersAreSeqs
  <2> QED BY <1>5, <2>4 DEF SortRest, TypeOK, inputs
<1>6. CASE SortRestFails
  BY <1>6 DEF SortRestFails, TypeOK, inputs
<1>7. CASE Finish
  <2>1. DOMAIN resolved \subseteq Key /\ resolved \in [DOMAIN resolved -> EventId]
    BY StateMapIs DEF TypeOK
  <2>2. DOMAIN clean \subseteq Key /\ clean \in [DOMAIN clean -> EventId]
    BY StateMapIs DEF TypeOK
  <2>3. Extended \in [DOMAIN resolved \cup DOMAIN clean -> EventId]
    BY <2>1, <2>2 DEF Extended
  <2>4. Extended \in PartialMap(Key, EventId)
    BY <2>1, <2>2, <2>3, IsStateMap
  <2> QED BY <1>7, <2>4 DEF Finish, TypeOK, inputs
<1> QED BY <1>1, <1>2, <1>3, <1>4, <1>5, <1>6, <1>7 DEF Next

(* `clean` is set once, to what all forks agree on.                        *)
LEMMA CleanStep == InvSR /\ Next => CleanIsAgreed'
<1> SUFFICES ASSUME InvSR, Next PROVE CleanIsAgreed'
  OBVIOUS
<1>1. Agreed' = Agreed /\ state_sets' = state_sets
  BY InputsKept, InputUnchanged DEF inputs
<1>2. CASE NoConflict \/ SortControl
  BY <1>1, <1>2 DEF NoConflict, SortControl, Separated, CleanIsAgreed
<1>3. CASE pc # "start" /\ UNCHANGED clean
  BY <1>1, <1>3 DEF InvSR, CleanIsAgreed
<1> QED BY <1>2, <1>3 DEF Next, Check, CheckFails, SortRest, SortRestFails, Finish

(* Taking the head off a sequence without duplicates.                      *)
LEMMA HeadAndTail ==
  ASSUME NEW S, NEW s \in Seq(S), s # <<>>
  PROVE  /\ Range(s) = Range(Tail(s)) \cup {Head(s)}
         /\ IsInjective(s) => IsInjective(Tail(s)) /\ Head(s) \notin Range(Tail(s))
<1>1. Tail(s) \in Seq(S) /\ Len(Tail(s)) = Len(s) - 1 /\ Len(s) >= 1
  OBVIOUS
<1>2. \A i \in DOMAIN Tail(s) : i + 1 \in DOMAIN s /\ Tail(s)[i] = s[i + 1] /\ i # 0
  OBVIOUS
<1>3. \A i \in DOMAIN s : i = 1 \/ (i - 1 \in DOMAIN Tail(s) /\ s[i] = Tail(s)[i - 1])
  OBVIOUS
<1>4. Range(s) = Range(Tail(s)) \cup {Head(s)}
  <2>1. Range(s) \subseteq Range(Tail(s)) \cup {Head(s)}
    <3>1. Head(s) = s[1]
      OBVIOUS
    <3> QED BY <1>3, <3>1 DEF Range
  <2>2. Range(Tail(s)) \subseteq Range(s)
    BY <1>2 DEF Range
  <2>3. Head(s) \in Range(s)
    BY <1>1 DEF Range
  <2> QED BY <2>1, <2>2, <2>3
<1>5. ASSUME IsInjective(s) PROVE IsInjective(Tail(s)) /\ Head(s) \notin Range(Tail(s))
  <2>1. \A a, b \in DOMAIN s : s[a] = s[b] => a = b
    BY <1>5 DEF IsInjective
  <2>2. DOMAIN Tail(s) = 1 .. (Len(s) - 1) /\ DOMAIN s = 1 .. Len(s) /\ Head(s) = s[1]
    BY <1>1
  <2>3. IsInjective(Tail(s))
    BY <1>2, <2>1, <2>2 DEF IsInjective
  <2>4. Head(s) \notin Range(Tail(s))
    BY <1>1, <1>2, <2>1, <2>2 DEF Range
  <2> QED BY <2>3, <2>4
<1> QED BY <1>4, <1>5

(* What the log of checked events looks like after one more.               *)
LEMMA LogAppend ==
  ASSUME NEW S, NEW log \in Seq(S), NEW x
  PROVE  /\ Len(Append(log, x)) = Len(log) + 1
         /\ DOMAIN Append(log, x) = DOMAIN log \cup {Len(log) + 1}
         /\ Append(log, x)[Len(log) + 1] = x
         /\ \A i \in DOMAIN log : Append(log, x)[i] = log[i] /\ i <= Len(log)
         /\ Len(log) \in Nat /\ DOMAIN log = 1 .. Len(log)
  OBVIOUS

(* A check adds the event at the head of the queue to the log.             *)
LEMMA CheckedGrows ==
  ASSUME TypeOK, NEW allowed \in BOOLEAN, Check(allowed)
  PROVE  CheckedIds' = CheckedIds \cup {Head(queue)}
<1>1. checked' = Append(checked, [id |-> Head(queue), allowed |-> allowed])
  BY DEF Check
<1>2. /\ DOMAIN checked' = DOMAIN checked \cup {Len(checked) + 1}
      /\ checked'[Len(checked) + 1].id = Head(queue)
      /\ \A i \in DOMAIN checked : checked'[i] = checked[i]
  BY <1>1, LogAppend DEF TypeOK
<1> QED BY <1>2 DEF CheckedIds

(* Every action keeps the queue and the log apart.                         *)
LEMMA QueueStep == InvSR /\ Next => QueueOK'
<1> SUFFICES ASSUME InvSR, Next PROVE QueueOK'
  OBVIOUS
<1> USE DEF InvSR
<1>0. store' = store /\ \A e : ChainKnown(e) <=> ChainKnown(e)'
  BY InputsKept, InputUnchanged DEF inputs
<1>1. CASE NoConflict
  BY <1>1 DEF NoConflict, QueueOK, CheckedIds
<1>2. CASE SortControl
  <2>1. CheckedIds' = {}
    BY <1>2 DEF SortControl, QueueOK, CheckedIds
  <2>2. CASE queue' = <<>> /\ pc' = "error"
    BY <2>1, <2>2 DEF QueueOK, IsInjective, Range
  <2>3. CASE queue' \in Orders(control') /\ pc' = "control"
    <3>1. control' \subseteq all_conflicted' /\ all_conflicted' \subseteq DOMAIN store
      BY <1>2, ControlHasPowerEvents DEF SortControl, FullConflictedSet
    <3>2. IsFiniteSet(control')
      BY <3>1, SubsetsAreFinite DEF InputOK
    <3>3. Range(queue') = control' /\ IsInjective(queue')
      BY <2>3, <3>2, OrdersAreSeqs
    <3>4. \A e \in all_conflicted' : store[e].power => e \in control'
      BY <1>2, ControlHasPowerEvents DEF SortControl
    <3>5. Range(queue)' = Range(queue') /\ IsInjective(queue)' = IsInjective(queue')
      BY DEF Range, IsInjective
    <3> QED BY <1>0, <2>1, <2>3, <3>3, <3>4, <3>5 DEF QueueOK
  <2> QED BY <1>2, <2>2, <2>3 DEF SortControl, PowerOrders
<1>3. ASSUME NEW allowed \in BOOLEAN, Check(allowed) PROVE QueueOK'
  <2>1. CheckedIds' = CheckedIds \cup {Head(queue)}
    BY <1>3, CheckedGrows
  <2>2. queue' = Tail(queue) /\ queue \in Seq(all_conflicted) /\ queue # <<>> /\ pc' = pc
        /\ pc \in {"control", "rest"}
        /\ all_conflicted' = all_conflicted /\ control' = control
    BY <1>3 DEF Check, TypeOK
  <2>3. Range(queue) = Range(queue') \cup {Head(queue)}
        /\ IsInjective(queue') /\ Head(queue) \notin Range(queue')
    BY <2>2, HeadAndTail DEF QueueOK
  <2> QED BY <1>0, <2>1, <2>2, <2>3 DEF QueueOK
<1>4. CASE CheckFails \/ SortRestFails \/ Finish
  <2>1. UNCHANGED <<queue, checked, control, all_conflicted>> /\ pc' \in {"error", "done"}
    BY <1>4 DEF CheckFails, SortRestFails, Finish
  <2> QED BY <2>1 DEF QueueOK, CheckedIds
<1>5. CASE SortRest
  <2>1. PICK T \in SUBSET EventsToResolve :
          queue' \in Orders(T) /\ \A e \in EventsToResolve \ T : ~ChainKnown(e)
    BY <1>5 DEF SortRest
  <2>2. IsFiniteSet(T)
    BY SubsetsAreFinite DEF EventsToResolve, TypeOK, InputOK
  <2>3. Range(queue') = T /\ IsInjective(queue')
    BY <2>1, <2>2, OrdersAreSeqs
  <2>4. Range(queue) = {}
    BY <1>5 DEF SortRest, Range
  <2>5. CheckedIds = control /\ CheckedIds' = CheckedIds /\ pc' = "rest"
        /\ all_conflicted' = all_conflicted /\ control' = control
    BY <1>5, <2>4 DEF SortRest, QueueOK, CheckedIds
  <2>6. \A e \in all_conflicted : ChainKnown(e) => e \in control \cup T
    BY <2>1 DEF EventsToResolve
  <2>7. T \cap control = {} /\ \A e \in all_conflicted : store[e].power => e \in control
    BY <1>5 DEF EventsToResolve, SortRest, QueueOK
  <2>8. Range(queue)' = T /\ IsInjective(queue)'
    BY <2>3 DEF Range, IsInjective
  <2> QED BY <1>0, <2>5, <2>6, <2>7, <2>8 DEF QueueOK
<1> QED BY <1>1, <1>2, <1>3, <1>4, <1>5 DEF Next

-----------------------------------------------------------------------------
(* The event that was allowed last for a key stays that until another      *)
(* event with this key is allowed.                                         *)
LEMMA LastAllowedStep ==
  ASSUME TypeOK, NEW allowed \in BOOLEAN, Check(allowed), store' = store, NEW k
  PROVE  /\ \A e : IsLastAllowed(e, k) /\ ~(allowed /\ store[Head(queue)].key = k)
                    => IsLastAllowed(e, k)'
         /\ \A e : e = Head(queue) /\ allowed /\ store[e].key = k => IsLastAllowed(e, k)'
<1> DEFINE n == Len(checked)
           x == [id |-> Head(queue), allowed |-> allowed]
<1>1. checked' = Append(checked, x)
  BY DEF Check
<1>2. /\ Len(checked') = n + 1
      /\ DOMAIN checked' = DOMAIN checked \cup {n + 1}
      /\ checked'[n + 1] = x
      /\ \A i \in DOMAIN checked : checked'[i] = checked[i] /\ i <= n
      /\ n \in Nat /\ DOMAIN checked = 1 .. n
  BY <1>1, LogAppend DEF TypeOK
<1>3. ASSUME NEW e, IsLastAllowed(e, k), ~(allowed /\ store[Head(queue)].key = k)
      PROVE  IsLastAllowed(e, k)'
  <2>1. PICK i \in DOMAIN checked :
          /\ checked[i] = [id |-> e, allowed |-> TRUE]
          /\ store[e].key = k
          /\ \A j \in (i + 1) .. n : checked[j].allowed => store[checked[j].id].key # k
    BY <1>3 DEF IsLastAllowed
  <2>2. ASSUME NEW j \in (i + 1) .. (n + 1), checked'[j].allowed
        PROVE  store[checked'[j].id].key # k
    <3>1. CASE j = n + 1
      BY <1>2, <1>3, <2>2, <3>1
    <3>2. CASE j # n + 1
      BY <1>2, <2>1, <2>2, <3>2
    <3> QED BY <3>1, <3>2
  <2>3. i \in DOMAIN checked' /\ checked'[i] = [id |-> e, allowed |-> TRUE]
    BY <1>2, <2>1
  <2> QED BY <1>2, <2>1, <2>2, <2>3 DEF IsLastAllowed
<1>4. ASSUME NEW e, e = Head(queue), allowed, store[e].key = k PROVE IsLastAllowed(e, k)'
  <2>1. checked'[n + 1] = [id |-> e, allowed |-> TRUE] /\ n + 1 \in DOMAIN checked'
    BY <1>2, <1>4
  <2>2. \A j \in (n + 1 + 1) .. (n + 1) : FALSE
    BY <1>2
  <2> QED BY <1>2, <1>4, <2>1, <2>2 DEF IsLastAllowed
<1> QED BY <1>3, <1>4

(* Every action keeps resolved_state explained by the log.                 *)
LEMMA ResolvedStep == InvSR /\ Next => ResolvedOK'
<1> SUFFICES ASSUME InvSR, Next PROVE ResolvedOK'
  OBVIOUS
<1> USE DEF InvSR
<1>0. store' = store /\ Agreed' = Agreed
  BY InputsKept, InputUnchanged DEF inputs
<1>1. CASE NoConflict \/ CheckFails \/ SortRestFails \/ Finish
  BY <1>1 DEF NoConflict, CheckFails, SortRestFails, Finish, ResolvedOK
<1>2. CASE SortControl
  <2>1. DOMAIN resolved' = Agreed /\ checked' = <<>>
    BY <1>2 DEF SortControl, Separated, QueueOK
  <2> QED BY <1>0, <2>1 DEF ResolvedOK
<1>3. ASSUME NEW allowed \in BOOLEAN, Check(allowed) PROVE ResolvedOK'
  <2> DEFINE e == Head(queue)
             n == Len(checked)
  <2>1. /\ pc \in {"control", "rest"} /\ pc' = pc
        /\ resolved' = IF allowed THEN Insert(resolved, e) ELSE resolved
        /\ checked' = Append(checked, [id |-> e, allowed |-> allowed])
    BY <1>3 DEF Check, InsertIfAllowed
  <2>2. ASSUME NEW k \in DOMAIN resolved' \ Agreed, NEW w, w = resolved'[k]
        PROVE  IsLastAllowed(w, k)'
    <3>1. CASE allowed /\ store[e].key = k
      <4>1. w = e
        BY <2>1, <2>2, <3>1 DEF Insert
      <4> QED BY <1>0, <1>3, <3>1, <4>1, LastAllowedStep
    <3>2. CASE ~(allowed /\ store[e].key = k)
      <4>1. k \in DOMAIN resolved /\ w = resolved[k]
        BY <2>1, <2>2, <3>2 DEF Insert
      <4>2. IsLastAllowed(w, k)
        BY <2>1, <2>2, <4>1 DEF ResolvedOK
      <4> QED BY <1>0, <1>3, <3>2, <4>1, <4>2, LastAllowedStep
    <3> QED BY <3>1, <3>2
  <2>3. ASSUME NEW i \in DOMAIN checked', checked'[i].allowed
        PROVE  store[checked'[i].id].key \in DOMAIN resolved'
    <3>1. /\ DOMAIN checked' = DOMAIN checked \cup {n + 1}
          /\ checked'[n + 1] = [id |-> e, allowed |-> allowed]
          /\ \A j \in DOMAIN checked : checked'[j] = checked[j]
      BY <2>1, LogAppend DEF TypeOK
    <3>2. DOMAIN resolved \subseteq DOMAIN resolved'
          /\ (allowed => store[e].key \in DOMAIN resolved')
      BY <2>1 DEF Insert
    <3> QED BY <2>1, <2>3, <3>1, <3>2 DEF ResolvedOK
  <2>4. (\A k \in DOMAIN resolved \ Agreed : IsLastAllowed(resolved[k], k))'
    BY <1>0, <2>2 DEF IsLastAllowed
  <2> QED BY <1>0, <2>3, <2>4 DEF ResolvedOK
<1>4. CASE SortRest
  BY <1>0, <1>4 DEF SortRest, ResolvedOK, IsLastAllowed
<1> QED BY <1>1, <1>2, <1>3, <1>4 DEF Next

(* The two ways to end with Ok: nothing conflicts, or the agreed state is  *)
(* put on top.                                                             *)
LEMMA UnconflictedStep == InvSR /\ Next => UnconflictedStateKept'
<1> SUFFICES ASSUME InvSR, Next, pc' = "done" PROVE UnconflictedStateKept'
  BY DEF UnconflictedStateKept
<1>0. Agreed' = Agreed /\ state_sets' = state_sets
  BY InputsKept, InputUnchanged DEF inputs
<1>1. CASE NoConflict
  BY <1>0, <1>1 DEF NoConflict, Separated, UnconflictedStateKept
<1>2. CASE Finish
  BY <1>0, <1>2 DEF Finish, Extended, UnconflictedStateKept, InvSR, CleanIsAgreed
<1> QED BY <1>1, <1>2 DEF Next, SortControl, Check, CheckFails, SortRest, SortRestFails

(* At the end, conflicted keys still hold what was allowed last.           *)
LEMMA LastAllowedWinsStep == InvSR /\ Next => LastAllowedWins'
<1> SUFFICES ASSUME InvSR, Next, pc' = "done" PROVE LastAllowedWins'
  BY DEF LastAllowedWins
<1>0. Agreed' = Agreed /\ store' = store
  BY InputsKept, InputUnchanged DEF inputs
<1>1. CASE NoConflict
  <2>1. DOMAIN resolved' = Agreed /\ checked' = <<>>
    BY <1>1 DEF NoConflict, Separated, InvSR, QueueOK
  <2> QED BY <1>0, <2>1 DEF LastAllowedWins
<1>2. CASE Finish
  <2>1. pc = "rest" /\ checked' = checked /\ resolved' = Extended
    BY <1>2 DEF Finish
  <2>2. DOMAIN clean = Agreed
    BY <2>1 DEF InvSR, CleanIsAgreed
  <2>3. \A k \in DOMAIN resolved' \ Agreed : k \in DOMAIN resolved /\ resolved'[k] = resolved[k]
    BY <2>1, <2>2 DEF Extended
  <2>4. DOMAIN resolved \subseteq DOMAIN resolved'
    BY <2>1 DEF Extended
  <2>5. (\A k \in DOMAIN resolved \ Agreed : IsLastAllowed(resolved[k], k))'
    BY <1>0, <2>1, <2>3 DEF InvSR, ResolvedOK, IsLastAllowed
  <2>6. \A i \in DOMAIN checked : checked[i].allowed => store[checked[i].id].key \in DOMAIN resolved'
    BY <2>1, <2>4 DEF InvSR, ResolvedOK
  <2> QED BY <1>0, <2>1, <2>5, <2>6 DEF LastAllowedWins
<1> QED BY <1>1, <1>2 DEF Next, SortControl, Check, CheckFails, SortRest, SortRestFails

(* A check never meets an event again, and the end leaves none behind.     *)
LEMMA CheckedOnceStep == InvSR /\ Next => EachCheckedOnce'
<1> SUFFICES ASSUME InvSR, Next PROVE EachCheckedOnce'
  OBVIOUS
<1> USE DEF InvSR
<1>0. \A e : ChainKnown(e) <=> ChainKnown(e)'
  BY InputsKept, InputUnchanged
<1>1. ASSUME NEW allowed \in BOOLEAN, Check(allowed) PROVE EachCheckedOnce'
  <2> DEFINE n == Len(checked)
  <2>1. checked' = Append(checked, [id |-> Head(queue), allowed |-> allowed]) /\ pc' # "done"
    BY <1>1 DEF Check
  <2>2. /\ DOMAIN checked' = DOMAIN checked \cup {n + 1}
        /\ checked'[n + 1].id = Head(queue)
        /\ \A i \in DOMAIN checked : checked'[i] = checked[i]
    BY <2>1, LogAppend DEF TypeOK
  <2>3. Head(queue) \in Range(queue)
    BY <1>1, HeadAndTail DEF Check, TypeOK
  <2>4. \A i \in DOMAIN checked : checked[i].id # Head(queue)
    BY <2>3 DEF QueueOK, CheckedIds
  <2> QED BY <2>1, <2>2, <2>4 DEF EachCheckedOnce
<1>2. CASE Finish
  <2>1. Range(queue) = {}
    BY <1>2 DEF Finish, Range
  <2>2. \A e \in all_conflicted : ChainKnown(e) => \E i \in DOMAIN checked : checked[i].id = e
    BY <1>2, <2>1 DEF Finish, QueueOK, CheckedIds
  <2> QED BY <1>0, <1>2, <2>2 DEF Finish, EachCheckedOnce
<1>3. CASE pc' # "done" /\ UNCHANGED checked
  BY <1>3 DEF EachCheckedOnce
<1>4. CASE NoConflict
  <2>1. checked' = <<>> /\ all_conflicted' = {}
    BY <1>4 DEF NoConflict, QueueOK
  <2> QED BY <2>1 DEF EachCheckedOnce
<1> QED BY <1>1, <1>2, <1>3, <1>4 DEF Next, SortControl, CheckFails, SortRest, SortRestFails

-----------------------------------------------------------------------------
(* The inductive invariant holds when resolve is called, ...               *)
LEMMA ResolveStart == Init => InvSR
<1> SUFFICES ASSUME Init PROVE InvSR
  OBVIOUS
<1>1. InputOK
  BY DEF Init, InputOK
<1>2. clean \in PartialMap(Key, EventId) /\ resolved \in PartialMap(Key, EventId)
  <2>1. <<>> \in [{} -> EventId]
    OBVIOUS
  <2> QED BY <2>1, IsStateMap DEF Init
<1>3. TypeOK
  BY <1>2 DEF Init, TypeOK
<1>4. QueueOK
  BY DEF Init, QueueOK, CheckedIds, Range, IsInjective
<1> QED BY <1>1, <1>3, <1>4
       DEF Init, InvSR, CleanIsAgreed, ResolvedOK, UnconflictedStateKept, LastAllowedWins, EachCheckedOnce

(* ... every step keeps it ...                                             *)
LEMMA ResolveStep == InvSR /\ [Next]_vars => InvSR'
<1> SUFFICES ASSUME InvSR, [Next]_vars PROVE InvSR'
  OBVIOUS
<1>1. CASE Next
  <2>1. InputOK'
    BY <1>1, InputsKept, InputUnchanged DEF InvSR
  <2> QED BY <1>1, <2>1, TypeStep, CleanStep, QueueStep, ResolvedStep, UnconflictedStep,
             LastAllowedWinsStep, CheckedOnceStep DEF InvSR
<1>2. CASE UNCHANGED vars
  <2>1. Agreed' = Agreed /\ (InputOK <=> InputOK') /\ \A e : ChainKnown(e) <=> ChainKnown(e)'
    BY <1>2, InputUnchanged DEF vars
  <2>2. UNCHANGED <<store, state_sets, clean, all_conflicted, control, queue, checked, resolved, pc>>
    BY <1>2 DEF vars, inputs
  <2>3. TypeOK' /\ CleanIsAgreed' /\ UnconflictedStateKept'
    BY <2>1, <2>2 DEF InvSR, TypeOK, CleanIsAgreed, UnconflictedStateKept
  <2>4. QueueOK'
    BY <2>1, <2>2 DEF InvSR, QueueOK, CheckedIds
  <2>5. ResolvedOK' /\ LastAllowedWins'
    BY <2>1, <2>2 DEF InvSR, ResolvedOK, LastAllowedWins, IsLastAllowed
  <2>6. EachCheckedOnce'
    BY <2>1, <2>2 DEF InvSR, EachCheckedOnce
  <2> QED BY <2>1, <2>3, <2>4, <2>5, <2>6 DEF InvSR
<1> QED BY <1>1, <1>2

(* ... and so it always holds.                                             *)
THEOREM ResolveInvariant == Spec => []InvSR
  BY ResolveStart, ResolveStep, PTL DEF Spec

(* resolve keeps its types: what it checks is in the conflicted set and    *)
(* can be fetched, and what it returns maps keys to event ids.             *)
THEOREM ResolveTypeCorrect == Spec => []TypeOK
  BY ResolveInvariant, PTL DEF InvSR

(* What all forks agree on is returned unchanged, for any number of forks. *)
THEOREM AgreedStateSurvives == Spec => []UnconflictedStateKept
  BY ResolveInvariant, PTL DEF InvSR

(* A conflicted key goes to the event that was allowed last for it, and    *)
(* nothing else enters the result.                                         *)
THEOREM ConflictsGoToLastAllowed == Spec => []LastAllowedWins
  BY ResolveInvariant, PTL DEF InvSR

(* No event is decided twice, and none with a known auth chain is lost     *)
(* between the two passes.                                                 *)
THEOREM NoEventDecidedTwice == Spec => []EachCheckedOnce
  BY ResolveInvariant, PTL DEF InvSR

(* A step of the second pass leaves the power levels alone.                *)
LEMMA SettledStep ==
  InvSR /\ Next /\ pc = "rest" /\ pc' = "rest" => PowerLevelsOf(resolved') = PowerLevelsOf(resolved)
<1> SUFFICES ASSUME InvSR, Next, pc = "rest", pc' = "rest"
             PROVE  PowerLevelsOf(resolved') = PowerLevelsOf(resolved)
  OBVIOUS
<1>1. PICK allowed \in BOOLEAN : Check(allowed)
  BY DEF Next, NoConflict, SortControl, CheckFails, SortRest, SortRestFails, Finish
<1>2. Head(queue) \in all_conflicted /\ Head(queue) \in Range(queue)
  BY <1>1, HeadAndTail DEF Check, InvSR, TypeOK
<1>3. store[Head(queue)] \in Event /\ ~store[Head(queue)].power
  BY <1>2 DEF InvSR, QueueOK, TypeOK, InputOK
<1>4. store[Head(queue)].key # PowerLevels
  BY <1>3, PowerAssumption
<1> QED BY <1>1, <1>4 DEF Check, InsertIfAllowed, Insert, PowerLevelsOf

(* The power levels do not change once the mainline is built from them.    *)
THEOREM PowerLevelsStaySettled == Spec => PowerLevelsSettled
<1>1. InvSR /\ [Next]_vars =>
        [pc = "rest" /\ pc' = "rest" => PowerLevelsOf(resolved') = PowerLevelsOf(resolved)]_vars
  BY SettledStep
<1> QED BY <1>1, ResolveInvariant, PTL DEF Spec, PowerLevelsSettled
=============================================================================
