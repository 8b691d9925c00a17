------------------------- MODULE MainlineSortProofs -------------------------
(***************************************************************************)
(* Proofs about MainlineSort: the mainline, the depths and the order that  *)
(* mainline_sort returns, for any store without a cycle, whatever cannot   *)
(* be fetched.                                                             *)
(***************************************************************************)
EXTENDS MainlineSort, FiniteSetTheorems, TLAPS

(* A walk that began at e has come to f: it has gone on from every event   *)
(* of it but f, none of them on the mainline.                              *)
Walked(e, f) ==
  /\ f \in Visited(e)
  /\ \E W \in SUBSET DOMAIN store :
       /\ e \in W /\ f \in W
       /\ \A g \in W \ {f} : GoesOn(g) /\ Parent(g) \in W

(* The depth d of event e: its walk meets one event of the mainline, or    *)
(* none.                                                                   *)
HasDepth(e, d) ==
  \/ \E m \in Range(mainline) : Nearest(e) = {m} /\ d = MainlineDepth(m)
  \/ Nearest(e) = {} /\ d = 0

LostOver(e) == Nearest(e) = {} /\ \E f \in Visited(e) : Fails(f)

(* What a phase of mainline_sort has not begun is still empty.             *)
Phases ==
  /\ pc = "start" => mainline = <<>>
  /\ pc \in {"start", "mainline", "error"} =>
       DOMAIN order_map = {} /\ ev_id = NoEvent
  /\ pc # "done" => sorted = <<>>
  /\ ev_id = NoEvent <=> event = NoEvent

(* The mainline goes on with the parent of its last event; only that one   *)
(* may be an event that cannot be walked on from, and then there is an     *)
(* error.                                                                  *)
ChainGoesOn ==
  /\ pc = "mainline" => IF mainline = <<>> THEN pl = resolved
                        ELSE pl = Parent(mainline[Len(mainline)])
  /\ \A i \in DOMAIN mainline :
       pc # "error" \/ i < Len(mainline) => mainline[i] \in DOMAIN store /\ ~Fails(mainline[i])

(* No event is on the mainline twice.                                      *)
NoRepeat == \A i, j \in DOMAIN mainline : mainline[i] = mainline[j] => i = j

(* The events that have been looked at have their depth, or were left out  *)
(* because of one that cannot be fetched.                                  *)
Accounted ==
  /\ ev_id # NoEvent => Walked(ev_id, event)
  /\ \A e \in DOMAIN order_map : HasDepth(e, order_map[e])
  /\ pc \in {"depths", "done"} =>
       \A e \in to_sort : e \in todo \/ e = ev_id \/ e \in DOMAIN order_map \/ LostOver(e)

InOrder ==
  /\ pc = "done" => todo = {} /\ ev_id = NoEvent /\ Range(sorted) = DOMAIN order_map
  /\ \A i, j \in DOMAIN sorted : i < j => Precedes(sorted[i], sorted[j])

(* The inductive invariant.                                                *)
MainlineInv ==
  /\ TypeOK
  /\ Acyclic
  /\ Phases
  /\ MainlineIsChain
  /\ ChainGoesOn
  /\ NoRepeat
  /\ Accounted
  /\ InOrder
  /\ FailsOnlyIfMissing

-----------------------------------------------------------------------------
(* The event a walk goes on to.                                            *)
LEMMA ParentKnown ==
  ASSUME StoreType, NEW e \in DOMAIN store
  PROVE  /\ Parent(e) # NoEvent => Parent(e) \in Range(store[e].auth_events) \cap EventId
         /\ Parent(e) # NoEvent /\ ~Fails(e) => Parent(e) \in DOMAIN store
  <1>1. PICK known \in SUBSET EventId : store \in [known -> Event]
    BY DEF StoreType
  <1>2. store[e].auth_events \in Seq(EventId)
    BY <1>1, EventAssumption
  <1>3. StopsWith(e) \subseteq Range(store[e].auth_events) \cap EventId
    BY <1>2 DEF StopsWith, StopsAt, Range
  <1>4. Parent(e) # NoEvent => Parent(e) \in StopsWith(e)
    BY DEF Parent
  <1>5. QED
    BY <1>3, <1>4 DEF Fails

(* Only ids name events.                                                   *)
LEMMA StoreIds ==
  ASSUME StoreType
  PROVE  DOMAIN store \subseteq EventId /\ NoEvent \notin DOMAIN store
  BY NoEventAssumption DEF StoreType

(* A walk begins where it is.                                              *)
LEMMA WalkBegins ==
  ASSUME StoreType, NEW e \in DOMAIN store
  PROVE  Walked(e, e)
  <1>1. e \in Visited(e)
    BY StoreIds DEF Visited
  <1>2. {e} \in SUBSET DOMAIN store /\ \A g \in {e} \ {e} : GoesOn(g) /\ Parent(g) \in {e}
    OBVIOUS
  <1>3. QED
    BY <1>1, <1>2 DEF Walked

(* It may take one more step from an event it goes on from.                *)
LEMMA WalkGoesOn ==
  ASSUME StoreType, NEW e, NEW f, Walked(e, f), GoesOn(f)
  PROVE  Walked(e, Parent(f))
  <1>1. f \in DOMAIN store /\ Parent(f) \in DOMAIN store
    BY ParentKnown DEF GoesOn
  <1>2. Parent(f) \in Visited(e)
    BY <1>1, StoreIds DEF Walked, Visited, ClosedWalk
  <1>3. PICK W \in SUBSET DOMAIN store :
          /\ e \in W /\ f \in W
          /\ \A g \in W \ {f} : GoesOn(g) /\ Parent(g) \in W
    BY DEF Walked
  <1>4. /\ W \cup {Parent(f)} \in SUBSET DOMAIN store
        /\ e \in W \cup {Parent(f)} /\ Parent(f) \in W \cup {Parent(f)}
        /\ \A g \in (W \cup {Parent(f)}) \ {Parent(f)} : GoesOn(g) /\ Parent(g) \in W \cup {Parent(f)}
    BY <1>1, <1>3
  <1>5. QED
    BY <1>2, <1>4 DEF Walked

(* Where the walk stops decides which event of the mainline it meets.      *)
LEMMA WalkEnds ==
  ASSUME StoreType, NEW e, NEW f, Walked(e, f), ~GoesOn(f)
  PROVE  Nearest(e) = {f} \cap Range(mainline)
  <1>1. PICK W \in SUBSET DOMAIN store :
          /\ e \in W /\ f \in W
          /\ \A g \in W \ {f} : GoesOn(g) /\ Parent(g) \in W
    BY DEF Walked
  <1>2. ClosedWalk(W) /\ W \in SUBSET EventId
    BY <1>1, StoreIds DEF ClosedWalk
  <1>3. Visited(e) \subseteq W
    BY <1>1, <1>2 DEF Visited
  <1>4. \A g \in W \ {f} : g \notin Range(mainline)
    BY <1>1 DEF GoesOn
  <1>5. f \in Visited(e)
    BY DEF Walked
  <1>6. QED
    BY <1>3, <1>4, <1>5 DEF Nearest

(* A chain of power levels events does not come back to one of its own.    *)
LEMMA ChainIsNew ==
  ASSUME StoreType, Acyclic, mainline \in Seq(EventId), mainline # <<>>,
         \A i \in DOMAIN mainline : mainline[i] \in DOMAIN store,
         \A i \in 1 .. (Len(mainline) - 1) : mainline[i + 1] = Parent(mainline[i]),
         NEW k \in DOMAIN mainline, Parent(mainline[Len(mainline)]) = mainline[k]
  PROVE  FALSE
  <1> DEFINE S == {mainline[i] : i \in k .. Len(mainline)}
  <1>1. k \in 1 .. Len(mainline) /\ Len(mainline) \in Nat /\ DOMAIN mainline = 1 .. Len(mainline)
    OBVIOUS
  <1>2. \A i \in k .. Len(mainline) :
          mainline[i] \in DOMAIN store /\ Parent(mainline[i]) \in S /\ mainline[i] \in EventId
    <2> SUFFICES ASSUME NEW i \in k .. Len(mainline)
                 PROVE  mainline[i] \in DOMAIN store /\ Parent(mainline[i]) \in S /\ mainline[i] \in EventId
      OBVIOUS
    <2>1. i \in DOMAIN mainline
      BY <1>1
    <2>2. CASE i = Len(mainline)
      BY <1>1, <2>1, <2>2
    <2>3. CASE i # Len(mainline)
      <3> \A n \in Nat : \A a \in 1 .. n : \A b \in a .. n :
            b # n => b \in 1 .. (n - 1) /\ b + 1 \in a .. n
        OBVIOUS
      <3>1. i \in 1 .. (Len(mainline) - 1) /\ i + 1 \in k .. Len(mainline)
        BY <1>1, <2>3
      <3>2. Parent(mainline[i]) = mainline[i + 1]
        BY <3>1
      <3>3. mainline[i + 1] \in S
        BY <3>1
      <3>4. QED
        BY <2>1, <3>2, <3>3
    <2>4. QED
      BY <2>2, <2>3
  <1>3. S \in SUBSET DOMAIN store /\ mainline[k] \in S
    BY <1>1, <1>2
  <1>4. \A e \in S : e \in DOMAIN store /\ Parent(e) \in S /\ Parent(e) \in EventId
    BY <1>2
  <1>5. \A e \in S : Range(store[e].auth_events) \cap S # {}
    BY <1>4, ParentKnown, NoEventAssumption
  <1>6. QED
    BY <1>3, <1>5 DEF Acyclic

-----------------------------------------------------------------------------
(* What a walk visits and which event it meets depend on the store and on  *)
(* the mainline only.                                                      *)
LEMMA WalksStay ==
  ASSUME UNCHANGED <<store, mainline>>
  PROVE  /\ \A e : Fails(e)' = Fails(e) /\ Parent(e)' = Parent(e)
         /\ \A e : Visited(e)' = Visited(e) /\ Nearest(e)' = Nearest(e)
         /\ \A e, f : Walked(e, f)' = Walked(e, f)
         /\ \A e, d : HasDepth(e, d)' = HasDepth(e, d)
         /\ \A e : LostOver(e)' = LostOver(e)
  <1>1. \A e : Fails(e)' = Fails(e) /\ Parent(e)' = Parent(e)
    BY DEF Fails, Parent, StopsWith, StopsAt, Stops
  <1>2. \A e : GoesOn(e)' = GoesOn(e)
    BY <1>1 DEF GoesOn
  <1>3. \A e : Visited(e)' = Visited(e)
    BY <1>1, <1>2 DEF Visited, ClosedWalk
  <1>4. \A e : Nearest(e)' = Nearest(e)
    BY <1>3 DEF Nearest
  <1>5. \A e, f : Walked(e, f)' = Walked(e, f)
    BY <1>1, <1>2, <1>3 DEF Walked
  <1>6. \A e, d : HasDepth(e, d)' = HasDepth(e, d)
    BY <1>4 DEF HasDepth, MainlineDepth
  <1>7. \A e : LostOver(e)' = LostOver(e)
    BY <1>1, <1>3, <1>4 DEF LostOver
  <1>8. QED
    BY <1>1, <1>3, <1>4, <1>5, <1>6, <1>7

(* The depth of an event of the mainline counts from the oldest.           *)
LEMMA DepthAt ==
  ASSUME TypeOK, NoRepeat, NEW i \in DOMAIN mainline
  PROVE  MainlineDepth(mainline[i]) = Len(mainline) - i /\ MainlineDepth(mainline[i]) \in Nat
  <1>1. Len(mainline) \in Nat /\ DOMAIN mainline = 1 .. Len(mainline)
    BY DEF TypeOK
  <1>2. (CHOOSE j \in DOMAIN mainline : mainline[j] = mainline[i]) = i
    BY DEF NoRepeat
  <1>3. MainlineDepth(mainline[i]) = Len(mainline) - i
    BY <1>2 DEF MainlineDepth
  <1>4. \A n \in Nat : \A j \in 1 .. n : n - j \in Nat
    OBVIOUS
  <1>5. QED
    BY <1>1, <1>3, <1>4

(* Nothing has happened before the function starts.                        *)
LEMMA InvInit == Init => MainlineInv
  <1> SUFFICES ASSUME Init PROVE MainlineInv
    OBVIOUS
  <1>1. TypeOK
    <2>1. DOMAIN order_map = {} /\ sorted \in Seq(to_sort) /\ mainline \in Seq(EventId)
      BY DEF Init
    <2>2. QED
      BY <2>1 DEF Init, TypeOK
  <1>2. Phases /\ MainlineIsChain
    BY DEF Init, Phases, MainlineIsChain
  <1>3. ChainGoesOn /\ NoRepeat
    BY DEF Init, ChainGoesOn, NoRepeat
  <1>4. Accounted /\ InOrder
    BY DEF Init, Accounted, InOrder
  <1>5. QED
    BY <1>1, <1>2, <1>3, <1>4 DEF Init, MainlineInv, FailsOnlyIfMissing

(* While a walk is under way it is for an event of to_sort.                *)
LEMMA WalkHasEvent ==
  ASSUME MainlineInv, event \in EventId
  PROVE  ev_id \in to_sort /\ ev_id # NoEvent
  BY NoEventAssumption DEF MainlineInv, Phases, TypeOK

(* Noting a depth keeps the types.                                         *)
LEMMA NoteDepthTyped ==
  ASSUME MainlineInv, NEW d \in Nat, NoteDepth(d), event \in EventId
  PROVE  TypeOK'
  <1>1. TypeOK /\ ev_id \in to_sort
    BY WalkHasEvent DEF MainlineInv
  <1>2. /\ DOMAIN order_map' = DOMAIN order_map \cup {ev_id}
        /\ \A e \in DOMAIN order_map' :
             order_map'[e] = IF e = ev_id THEN d ELSE order_map[e]
    BY DEF NoteDepth
  <1>3. /\ DOMAIN order_map' \subseteq to_sort
        /\ \A e \in DOMAIN order_map' : order_map'[e] \in Nat
    BY <1>1, <1>2 DEF TypeOK
  <1>4. QED
    BY <1>1, <1>3 DEF NoteDepth, TypeOK, StoreType, inputs

(* order_map is finite.                                                    *)
LEMMA MapFinite ==
  ASSUME TypeOK
  PROVE  IsFiniteSet(DOMAIN order_map) /\ Cardinality(DOMAIN order_map) \in Nat
  <1>1. DOMAIN order_map \subseteq EventId
    BY StoreIds DEF TypeOK
  <1>2. QED
    BY <1>1, EventIdAssumption, FS_Subset, FS_CardinalityType

(* Each step keeps the types.                                              *)
LEMMA TypeStep ==
  ASSUME MainlineInv, [Next]_vars
  PROVE  TypeOK'
  <1> USE DEF TypeOK, inputs, StoreType
  <1>t. TypeOK /\ NoRepeat
    BY DEF MainlineInv
  <1> USE <1>t
  <1>1. CASE Bail
    BY <1>1 DEF Bail
  <1>2. CASE Begin
    BY <1>2 DEF Begin
  <1>3. CASE Extend
    BY <1>3, ParentKnown DEF Extend
  <1>4. CASE MainlineComplete
    BY <1>4 DEF MainlineComplete
  <1>5. ASSUME NEW e \in todo, NextEvent(e) PROVE TypeOK'
    BY <1>5 DEF NextEvent
  <1>6. CASE MeetsMainline
    <2>1. MainlineDepth(event) \in Nat
      BY <1>6, DepthAt DEF MeetsMainline, Range
    <2>2. event \in EventId
      BY <1>6 DEF MeetsMainline, Range
    <2>3. QED
      BY <1>6, <2>1, <2>2, NoteDepthTyped DEF MeetsMainline
  <1>7. CASE FollowParent
    BY <1>7, ParentKnown DEF FollowParent
  <1>8. CASE NoPowerLevels
    BY <1>8, StoreIds, NoteDepthTyped DEF NoPowerLevels
  <1>9. CASE LeaveOut
    BY <1>9 DEF LeaveOut
  <1>10. CASE Return
    <2>1. PICK s \in [1 .. Cardinality(DOMAIN order_map) -> DOMAIN order_map] : sorted' = s
      BY <1>10 DEF Return
    <2>2. \A n \in Nat : [1 .. n -> DOMAIN order_map] \subseteq Seq(to_sort)
      OBVIOUS
    <2>3. sorted' \in Seq(to_sort)
      BY <2>1, <2>2, MapFinite
    <2>4. QED
      BY <1>10, <2>3 DEF Return
  <1>11. CASE UNCHANGED vars
    BY <1>11 DEF vars
  <1>12. QED
    BY <1>1, <1>2, <1>3, <1>4, <1>5, <1>6, <1>7, <1>8, <1>9, <1>10, <1>11 DEF Next

(* A depth is noted for the event whose walk has ended.                    *)
LEMMA DepthNoted ==
  ASSUME MainlineInv, NEW d \in Nat, NoteDepth(d), TypeOK', event \in EventId,
         pc = "depths", HasDepth(ev_id, d)
  PROVE  MainlineInv'
  <1>t. TypeOK /\ StoreType /\ ev_id \in to_sort /\ ev_id # NoEvent
    BY WalkHasEvent DEF MainlineInv, TypeOK
  <1>i. /\ Acyclic /\ Phases /\ MainlineIsChain /\ ChainGoesOn /\ NoRepeat
        /\ Accounted /\ InOrder /\ FailsOnlyIfMissing
    BY DEF MainlineInv
  <1>s. UNCHANGED <<store, mainline>>
    BY DEF NoteDepth, inputs
  <1>1. Acyclic'
    BY <1>i DEF Acyclic, NoteDepth, inputs
  <1>2. Phases' /\ NoRepeat' /\ FailsOnlyIfMissing'
    BY <1>i DEF NoteDepth, inputs, Phases, NoRepeat, FailsOnlyIfMissing
  <1>3. MainlineIsChain' /\ ChainGoesOn'
    BY <1>i, <1>s, WalksStay DEF NoteDepth, inputs, MainlineIsChain, ChainGoesOn
  <1>4. /\ DOMAIN order_map' = DOMAIN order_map \cup {ev_id}
        /\ \A e \in DOMAIN order_map' :
             order_map'[e] = IF e = ev_id THEN d ELSE order_map[e]
    BY DEF NoteDepth
  <1>5. \A e \in DOMAIN order_map' : HasDepth(e, order_map'[e])
    BY <1>i, <1>4 DEF Accounted
  <1>6. \A e \in DOMAIN order_map' : HasDepth(e, order_map[e])'
    BY <1>s, <1>5, WalksStay
  <1>7. \A e \in to_sort : e \in todo \/ e \in DOMAIN order_map' \/ LostOver(e)
    BY <1>i, <1>4 DEF Accounted
  <1>8. Accounted'
    BY <1>s, <1>6, <1>7, WalksStay DEF NoteDepth, inputs, Accounted
  <1>9. InOrder'
    BY <1>i DEF NoteDepth, inputs, Phases, InOrder
  <1>10. QED
    BY <1>1, <1>2, <1>3, <1>8, <1>9 DEF MainlineInv

(* The key orders strictly.                                                *)
LEMMA PrecedesStrict ==
  ASSUME TypeOK, NEW a \in DOMAIN order_map, NEW b \in DOMAIN order_map, Precedes(a, b)
  PROVE  a # b /\ order_map[a] <= order_map[b]
  <1>1. /\ order_map[a] \in Nat /\ order_map[b] \in Nat
        /\ a \in DOMAIN store /\ a \in EventId
    BY StoreIds DEF TypeOK
  <1>2. a \in Int /\ store[a].origin_server_ts \in Int
    BY <1>1, EventIdAssumption, EventAssumption DEF TypeOK, StoreType
  <1>3. QED
    BY <1>1, <1>2 DEF Precedes

(* A strictly ordered vector as long as the map holds all its events.      *)
LEMMA SortedIsComplete ==
  ASSUME TypeOK, NEW s \in [1 .. Cardinality(DOMAIN order_map) -> DOMAIN order_map],
         \A i, j \in DOMAIN s : i < j => Precedes(s[i], s[j])
  PROVE  Range(s) = DOMAIN order_map
  <1> DEFINE D == DOMAIN order_map
             n == Cardinality(D)
  <1>1. IsFiniteSet(D) /\ n \in Nat
    BY MapFinite
  <1>2. s \in [1 .. n -> D]
    OBVIOUS
  <1>3. \A i, j \in 1 .. n : i # j => s[i] # s[j]
    <2> SUFFICES ASSUME NEW i \in 1 .. n, NEW j \in 1 .. n, i # j PROVE s[i] # s[j]
      OBVIOUS
    <2>1. i < j \/ j < i
      BY <1>1
    <2>2. Precedes(s[i], s[j]) \/ Precedes(s[j], s[i])
      BY <1>2, <2>1
    <2>3. QED
      BY <1>2, <2>2, PrecedesStrict
  <1>4. ASSUME NEW d \in D \ Range(s) PROVE FALSE
    <2>1. IsFiniteSet(D \ {d}) /\ Cardinality(D \ {d}) = n - 1
      BY <1>1, <1>4, FS_RemoveElement
    <2>2. IsFiniteSet(1 .. n) /\ Cardinality(1 .. n) = n
      BY <1>1, FS_Interval
    <2>3. s \in [1 .. n -> D \ {d}]
      BY <1>2, <1>4 DEF Range
    <2>4. Cardinality(D \ {d}) < Cardinality(1 .. n)
      BY <1>1, <2>1, <2>2
    <2>5. \E i, j \in 1 .. n : i # j /\ s[i] = s[j]
      BY <2>1, <2>2, <2>3, <2>4, FS_PigeonHole
    <2>6. QED
      BY <1>3, <2>5
  <1>5. QED
    BY <1>2, <1>4 DEF Range

(* Each step keeps the invariant.                                          *)
LEMMA InvStep == MainlineInv /\ [Next]_vars => MainlineInv'
  <1> SUFFICES ASSUME MainlineInv, [Next]_vars PROVE MainlineInv'
    OBVIOUS
  <1>t. TypeOK /\ TypeOK' /\ StoreType
    BY TypeStep DEF MainlineInv, TypeOK
  <1>i. /\ Acyclic /\ Phases /\ MainlineIsChain /\ ChainGoesOn /\ NoRepeat
        /\ Accounted /\ InOrder /\ FailsOnlyIfMissing
    BY DEF MainlineInv
  <1>a. UNCHANGED inputs => Acyclic'
    BY <1>i DEF Acyclic, inputs
  <1>1. CASE Bail
    <2>1. Phases' /\ NoRepeat' /\ FailsOnlyIfMissing'
      BY <1>1, <1>i DEF Bail, inputs, Phases, NoRepeat, FailsOnlyIfMissing
    <2>2. MainlineIsChain' /\ ChainGoesOn'
      BY <1>1, <1>i DEF Bail, Phases, MainlineIsChain, ChainGoesOn
    <2>3. Accounted' /\ InOrder'
      BY <1>1, <1>i, <1>t DEF Bail, inputs, Phases, Accounted, InOrder, TypeOK, Range
    <2>4. QED
      BY <1>1, <1>t, <1>a, <2>1, <2>2, <2>3 DEF MainlineInv, Bail
  <1>2. CASE Begin
    <2>1. Phases' /\ NoRepeat' /\ FailsOnlyIfMissing'
      BY <1>2, <1>i DEF Begin, inputs, Phases, NoRepeat, FailsOnlyIfMissing
    <2>2. MainlineIsChain' /\ ChainGoesOn'
      BY <1>2, <1>i DEF Begin, inputs, Phases, MainlineIsChain, ChainGoesOn
    <2>3. Accounted' /\ InOrder'
      BY <1>2, <1>i, <1>t DEF Begin, inputs, Phases, Accounted, InOrder
    <2>4. QED
      BY <1>2, <1>t, <1>a, <2>1, <2>2, <2>3 DEF MainlineInv, Begin
  <1>3. CASE Extend
    <2> DEFINE n == Len(mainline)
    <2>0. /\ n \in Nat /\ DOMAIN mainline = 1 .. n /\ (mainline = <<>> <=> n = 0)
          /\ Len(mainline') = n + 1 /\ DOMAIN mainline' = 1 .. (n + 1)
          /\ mainline'[n + 1] = pl /\ \A i \in 1 .. n : mainline'[i] = mainline[i]
      BY <1>3, <1>t DEF Extend, TypeOK
    <2>p. /\ pl # NoEvent /\ pl \in EventId /\ pc = "mainline"
          /\ \A i \in 1 .. n : mainline[i] \in DOMAIN store /\ ~Fails(mainline[i])
          /\ n = 0 => pl = resolved
          /\ n # 0 => pl = Parent(mainline[n])
      BY <1>3, <1>t, <1>i, <2>0 DEF Extend, TypeOK, ChainGoesOn
    <2>f. \A e : Fails(e)' = Fails(e) /\ Parent(e)' = Parent(e)
      BY <1>3 DEF Extend, inputs, Fails, Parent, StopsWith, StopsAt, Stops
    <2> HIDE DEF n
    <2>1. Phases'
      BY <1>3, <1>i DEF Extend, Phases
    <2>2. \A i \in 1 .. n : mainline[i] # pl
      <3> SUFFICES ASSUME NEW k \in 1 .. n, mainline[k] = pl PROVE FALSE
        OBVIOUS
      <3>1. n # 0 /\ Parent(mainline[n]) = mainline[k]
        BY <2>0, <2>p
      <3>2. /\ mainline # <<>> /\ k \in DOMAIN mainline
            /\ Parent(mainline[Len(mainline)]) = mainline[k]
        BY <2>0, <3>1 DEF n
      <3>3. \A i \in DOMAIN mainline : mainline[i] \in DOMAIN store
        BY <2>0, <2>p
      <3>4. \A i \in 1 .. (Len(mainline) - 1) : mainline[i + 1] = Parent(mainline[i])
        BY <1>i DEF MainlineIsChain
      <3>5. QED
        BY <1>t, <1>i, <3>2, <3>3, <3>4, ChainIsNew DEF TypeOK
    <2>3. NoRepeat'
      BY <2>0, <2>2, <1>i DEF NoRepeat
    <2>4. MainlineIsChain'
      <3>1. mainline'[1] = resolved
        BY <1>i, <2>0, <2>p DEF MainlineIsChain
      <3>2. \A i \in 1 .. n : mainline'[i + 1] = Parent(mainline'[i])
        <4>1. \A i \in 1 .. (n - 1) : mainline[i + 1] = Parent(mainline[i])
          BY <1>i DEF MainlineIsChain, n
        <4>2. \A i \in 1 .. n : i = n \/ (i \in 1 .. (n - 1) /\ i + 1 \in 1 .. n)
          BY <2>0
        <4>3. QED
          BY <2>0, <2>p, <4>1, <4>2
      <3>3. \A i \in 1 .. (Len(mainline') - 1) : mainline'[i + 1] = Parent(mainline[i])'
        BY <2>0, <2>f, <3>2
      <3>4. QED
        BY <1>3, <2>0, <2>p, <3>1, <3>3 DEF MainlineIsChain, Extend, inputs
    <2>5. ChainGoesOn'
      <3>1. pc' = "mainline" => pl' = Parent(mainline'[n + 1]) /\ pl \in DOMAIN store /\ ~Fails(pl)
        BY <1>3, <2>0, <2>p DEF Extend
      <3>2. \A i \in 1 .. (n + 1) :
              pc' # "error" \/ i < n + 1 => mainline'[i] \in DOMAIN store /\ ~Fails(mainline'[i])
        <4>1. \A i \in 1 .. (n + 1) : i = n + 1 \/ (i \in 1 .. n /\ i < n + 1)
          BY <2>0
        <4>2. pc' \in {"mainline", "error"}
          BY <1>3 DEF Extend
        <4>3. QED
          BY <2>0, <2>p, <3>1, <4>1, <4>2
      <3>3. mainline' # <<>>
        BY <2>0
      <3>4. QED
        BY <1>3, <2>0, <2>f, <3>1, <3>2, <3>3 DEF ChainGoesOn, Extend, inputs
    <2>6. FailsOnlyIfMissing'
      <3>1. pc' = "error" => pl \notin DOMAIN store \/ Fails(pl)
        BY <1>3, <2>p DEF Extend
      <3>2. QED
        BY <1>3, <2>0, <2>f, <3>1 DEF FailsOnlyIfMissing, Extend, inputs
    <2>7. Accounted' /\ InOrder'
      BY <1>3, <1>i DEF Extend, inputs, Phases, Accounted, InOrder
    <2>8. QED
      BY <1>3, <1>t, <1>a, <2>1, <2>3, <2>4, <2>5, <2>6, <2>7 DEF MainlineInv, Extend
  <1>4. CASE MainlineComplete
    <2>s. UNCHANGED <<store, mainline>>
      BY <1>4 DEF MainlineComplete, inputs
    <2>1. Phases' /\ NoRepeat' /\ FailsOnlyIfMissing'
      BY <1>4, <1>i DEF MainlineComplete, inputs, Phases, NoRepeat, FailsOnlyIfMissing
    <2>2. MainlineIsChain' /\ ChainGoesOn'
      BY <1>4, <1>i, <2>s, WalksStay DEF MainlineComplete, inputs, MainlineIsChain, ChainGoesOn
    <2>3. Accounted' /\ InOrder'
      BY <1>4, <1>i DEF MainlineComplete, inputs, Phases, Accounted, InOrder
    <2>4. QED
      BY <1>4, <1>t, <1>a, <2>1, <2>2, <2>3 DEF MainlineInv, MainlineComplete
  <1>5. ASSUME NEW e \in todo, NextEvent(e) PROVE MainlineInv'
    <2>s. UNCHANGED <<store, mainline>> /\ e \in DOMAIN store /\ e # NoEvent
      BY <1>5, <1>t, StoreIds DEF NextEvent, inputs, TypeOK
    <2>1. Phases' /\ NoRepeat' /\ FailsOnlyIfMissing'
      BY <1>5, <1>i, <2>s DEF NextEvent, inputs, Phases, NoRepeat, FailsOnlyIfMissing
    <2>2. MainlineIsChain' /\ ChainGoesOn'
      BY <1>5, <1>i, <2>s, WalksStay DEF NextEvent, inputs, MainlineIsChain, ChainGoesOn
    <2>3. Walked(e, e)
      BY <1>t, <2>s, WalkBegins
    <2>4. Accounted'
      <3>1. ev_id' = e /\ Walked(ev_id, event)'
        BY <1>5, <2>s, <2>3, WalksStay DEF NextEvent
      <3>2. \A f \in DOMAIN order_map' : HasDepth(f, order_map[f])'
        BY <1>5, <1>i, <2>s, WalksStay DEF NextEvent, Accounted
      <3>3. \A f \in to_sort : f \in todo' \/ f = e \/ f \in DOMAIN order_map \/ LostOver(f)
        BY <1>5, <1>i, <1>t, <2>s, StoreIds DEF NextEvent, Accounted, TypeOK
      <3>4. \A f \in to_sort' : f \in todo' \/ f = ev_id' \/ f \in DOMAIN order_map' \/ LostOver(f)'
        BY <1>5, <2>s, <3>1, <3>3, WalksStay DEF NextEvent, inputs
      <3>5. QED
        BY <3>1, <3>2, <3>4 DEF Accounted
    <2>5. InOrder'
      BY <1>5, <1>i DEF NextEvent, inputs, Phases, InOrder
    <2>6. QED
      BY <1>5, <1>t, <1>a, <2>1, <2>2, <2>4, <2>5 DEF MainlineInv, NextEvent
  <1>6. CASE MeetsMainline
    <2>0. event \in EventId /\ \E i \in DOMAIN mainline : event = mainline[i]
      BY <1>6, <1>t DEF MeetsMainline, TypeOK, Range
    <2>1. ~GoesOn(event) /\ Walked(ev_id, event)
      BY <1>6, <1>i, <2>0, WalkHasEvent DEF MeetsMainline, GoesOn, Accounted
    <2>2. Nearest(ev_id) = {event}
      BY <1>6, <1>t, <2>1, WalkEnds DEF MeetsMainline
    <2>3. HasDepth(ev_id, MainlineDepth(event))
      BY <1>6, <2>2 DEF HasDepth, MeetsMainline
    <2>4. QED
      BY <1>6, <1>t, <1>i, <2>0, <2>3, DepthAt, DepthNoted DEF MeetsMainline
  <1>7. CASE FollowParent
    <2>s. UNCHANGED <<store, mainline>>
      BY <1>7 DEF FollowParent, inputs
    <2>1. Phases' /\ NoRepeat' /\ FailsOnlyIfMissing'
      BY <1>7, <1>i, <1>t, StoreIds DEF FollowParent, inputs, Phases, NoRepeat, FailsOnlyIfMissing
    <2>2. MainlineIsChain' /\ ChainGoesOn'
      BY <1>7, <1>i, <2>s, WalksStay DEF FollowParent, inputs, MainlineIsChain, ChainGoesOn
    <2>3. Walked(ev_id, event) /\ GoesOn(event)
      BY <1>7, <1>t, <1>i, StoreIds, WalkHasEvent DEF FollowParent, GoesOn, Accounted
    <2>4. Walked(ev_id, Parent(event))
      BY <1>t, <2>3, WalkGoesOn
    <2>5. Accounted'
      BY <1>7, <1>i, <2>s, <2>4, WalksStay DEF FollowParent, inputs, Accounted
    <2>6. InOrder'
      BY <1>7, <1>i DEF FollowParent, inputs, Phases, InOrder
    <2>7. QED
      BY <1>7, <1>t, <1>a, <2>1, <2>2, <2>5, <2>6 DEF MainlineInv, FollowParent
  <1>8. CASE NoPowerLevels
    <2>1. /\ ~GoesOn(event) /\ Walked(ev_id, event) /\ event \in EventId
      BY <1>8, <1>t, <1>i, StoreIds, WalkHasEvent DEF NoPowerLevels, GoesOn, Accounted
    <2>2. Nearest(ev_id) = {}
      BY <1>8, <1>t, <2>1, WalkEnds DEF NoPowerLevels
    <2>3. HasDepth(ev_id, 0)
      BY <2>2 DEF HasDepth
    <2>4. QED
      BY <1>8, <1>t, <2>1, <2>3, DepthNoted DEF NoPowerLevels
  <1>9. CASE LeaveOut
    <2>s. UNCHANGED <<store, mainline>>
      BY <1>9 DEF LeaveOut, inputs
    <2>1. Phases' /\ NoRepeat' /\ FailsOnlyIfMissing'
      BY <1>9, <1>i DEF LeaveOut, inputs, Phases, NoRepeat, FailsOnlyIfMissing
    <2>2. MainlineIsChain' /\ ChainGoesOn'
      BY <1>9, <1>i, <2>s, WalksStay DEF LeaveOut, inputs, MainlineIsChain, ChainGoesOn
    <2>3. ~GoesOn(event) /\ Walked(ev_id, event)
      BY <1>9, <1>t, <1>i, StoreIds, WalkHasEvent DEF LeaveOut, GoesOn, Accounted
    <2>4. LostOver(ev_id)
      BY <1>9, <1>t, <2>3, WalkEnds DEF LeaveOut, LostOver, Walked
    <2>5. Accounted'
      BY <1>9, <1>i, <2>s, <2>4, WalksStay DEF LeaveOut, inputs, Accounted
    <2>6. InOrder'
      BY <1>9, <1>i DEF LeaveOut, inputs, Phases, InOrder
    <2>7. QED
      BY <1>9, <1>t, <1>a, <2>1, <2>2, <2>5, <2>6 DEF MainlineInv, LeaveOut
  <1>10. CASE Return
    <2> DEFINE n == Cardinality(DOMAIN order_map)
    <2>s. UNCHANGED <<store, mainline>>
      BY <1>10 DEF Return, inputs
    <2>1. Phases' /\ NoRepeat' /\ FailsOnlyIfMissing'
      BY <1>10, <1>i DEF Return, inputs, Phases, NoRepeat, FailsOnlyIfMissing
    <2>2. MainlineIsChain' /\ ChainGoesOn'
      BY <1>10, <1>i, <2>s, WalksStay DEF Return, inputs, MainlineIsChain, ChainGoesOn
    <2>3. Accounted'
      BY <1>10, <1>i, <2>s, WalksStay DEF Return, inputs, Accounted
    <2>4. PICK s \in [1 .. n -> DOMAIN order_map] :
            /\ \A i, j \in DOMAIN s : i < j => Precedes(s[i], s[j])
            /\ sorted' = s
      BY <1>10 DEF Return
    <2>5. IsFiniteSet(DOMAIN order_map) /\ n \in Nat
      BY <1>t, MapFinite
    <2>6. Range(s) = DOMAIN order_map
      BY <1>t, <2>4, <2>5, SortedIsComplete
    <2>7. \A a, b : Precedes(a, b)' = Precedes(a, b)
      BY <1>10 DEF Return, inputs, Precedes
    <2>8. InOrder'
      BY <1>10, <1>i, <2>4, <2>6, <2>7 DEF Return, inputs, InOrder
    <2>9. QED
      BY <1>10, <1>t, <1>a, <2>1, <2>2, <2>3, <2>8 DEF MainlineInv, Return
  <1>11. CASE UNCHANGED vars
    <2>s. UNCHANGED <<store, mainline>>
      BY <1>11 DEF vars
    <2>1. Phases' /\ NoRepeat' /\ InOrder'
      BY <1>11, <1>i DEF vars, Phases, NoRepeat, InOrder, Precedes
    <2>2. MainlineIsChain' /\ ChainGoesOn' /\ FailsOnlyIfMissing'
      BY <1>11, <1>i, <2>s, WalksStay DEF vars, MainlineIsChain, ChainGoesOn, FailsOnlyIfMissing
    <2>3. Accounted'
      BY <1>11, <1>i, <2>s, WalksStay DEF vars, Accounted
    <2>4. QED
      BY <1>11, <1>t, <1>a, <2>1, <2>2, <2>3 DEF MainlineInv, vars, inputs
  <1>12. QED
    BY <1>1, <1>2, <1>3, <1>4, <1>5, <1>6, <1>7, <1>8, <1>9, <1>10, <1>11 DEF Next

-----------------------------------------------------------------------------
(* How mainline_sort has come this far, in any state of any call.          *)
THEOREM MainlineInvariant == Spec => []MainlineInv
  BY InvInit, InvStep, PTL DEF Spec

(* The mainline is the unbroken chain of power levels events from the      *)
(* resolved one, and get_mainline_depth answers with the depth of the      *)
(* nearest event of it, in whatever order the events are walked.           *)
THEOREM DepthsStayRight == Spec => []DepthsAreRight
  <1>1. MainlineInv => DepthsAreRight
    <2> SUFFICES ASSUME MainlineInv, NEW e \in DOMAIN order_map
                 PROVE  \/ \E m \in Nearest(e) : order_map[e] = MainlineDepth(m)
                        \/ Nearest(e) = {} /\ order_map[e] = 0
      BY DEF DepthsAreRight, DepthIsNearest, MainlineInv
    <2>1. HasDepth(e, order_map[e])
      BY DEF MainlineInv, Accounted
    <2>2. QED
      BY <2>1 DEF HasDepth
  <1>2. QED
    BY <1>1, MainlineInvariant, PTL

(* mainline_sort loses an event, or fails, only over an event that cannot  *)
(* be fetched.                                                             *)
THEOREM NothingElseIsLost == Spec => []LossOnlyIfMissing
  <1>1. MainlineInv => LossOnlyIfMissing
    <2> SUFFICES ASSUME MainlineInv, pc = "done", NEW e \in to_sort \ Range(sorted)
                 PROVE  LostOver(e)
      BY DEF LossOnlyIfMissing, LeftOutOnlyIfMissing, LostOver, MainlineInv
    <2>1. todo = {} /\ ev_id = NoEvent /\ Range(sorted) = DOMAIN order_map
      BY DEF MainlineInv, InOrder
    <2>2. e # NoEvent
      BY StoreIds DEF MainlineInv, TypeOK
    <2>3. QED
      BY <2>1, <2>2 DEF MainlineInv, Accounted
  <1>2. QED
    BY <1>1, MainlineInvariant, PTL

(* The returned vector holds the events under older power levels first:    *)
(* mainline_map counts from the oldest, and no event is on the mainline    *)
(* twice because auth events form no cycle.                                *)
THEOREM OlderLevelsAreFirst == Spec => []OlderLevelsFirst
  <1>1. MainlineInv => OlderLevelsFirst
    <2> SUFFICES ASSUME MainlineInv,
                        NEW i \in DOMAIN sorted, NEW j \in DOMAIN sorted, i < j,
                        NEW m \in DOMAIN mainline, NEW n \in DOMAIN mainline,
                        mainline[m] \in Nearest(sorted[i]), mainline[n] \in Nearest(sorted[j])
                 PROVE  m >= n
      BY DEF OlderLevelsFirst
    <2>1. TypeOK /\ NoRepeat
      BY DEF MainlineInv
    <2>2. Range(sorted) = DOMAIN order_map
      BY DEF MainlineInv, InOrder, Phases
    <2>3. sorted[i] \in DOMAIN order_map /\ sorted[j] \in DOMAIN order_map
      BY <2>2 DEF Range
    <2>4. order_map[sorted[i]] <= order_map[sorted[j]]
      BY <2>1, <2>3, PrecedesStrict DEF MainlineInv, InOrder
    <2>5. /\ order_map[sorted[i]] = MainlineDepth(mainline[m])
          /\ order_map[sorted[j]] = MainlineDepth(mainline[n])
      BY <2>3 DEF MainlineInv, Accounted, HasDepth
    <2>6. Len(mainline) - m <= Len(mainline) - n
      BY <2>1, <2>4, <2>5, DepthAt
    <2>7. Len(mainline) \in Nat /\ m \in Nat /\ n \in Nat
      BY <2>1 DEF TypeOK
    <2>8. QED
      BY <2>6, <2>7
  <1>2. QED
    BY <1>1, MainlineInvariant, PTL
=============================================================================
