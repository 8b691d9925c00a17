-------------------------- MODULE ResolveAuthProofs --------------------------
(***************************************************************************)
(* Theorems about ResolveAuth: what resolving two forks under the real     *)
(* authorization rules guarantees for any users, any history and any       *)
(* events that are sent on the forks, in any number.                       *)
(***************************************************************************)
EXTENDS ResolveAuth, FiniteSetTheorems, WellFoundedInduction, TLAPS

-----------------------------------------------------------------------------
(* The invariant of the room.  Past(i) are the events that fork i has seen *)
(* as far as resolve can tell: its state, its auth chains, the history.    *)
ChainSet(i) == UNION {events[e].chain : e \in Range(forks[i])}

Past(i) == ChainSet(i) \cup Range(forks[i]) \cup {h \in DOMAIN events : h <= Len(History)}

RoomShape ==
  /\ \E S : events \in Seq(S)
  /\ DOMAIN forks = 1 .. 2
  /\ \A i \in 1 .. 2 : last[i] \in 0 .. Len(events)
  /\ \A i \in 1 .. 2 : \A k \in DOMAIN forks[i] :
       forks[i][k] \in DOMAIN events /\ KeyOf(events[forks[i][k]]) = k

(* The forks are one until the history is complete, and share no event     *)
(* that comes later; ids never run out.                                    *)
Forked ==
  /\ Len(events) < Len(History) => forks[1] = forks[2]
  /\ Len(events) <= Len(History) => last[1] = Len(events)
  /\ last[2] <= Len(History) => last[1] = Len(events)
  /\ last[1] <= Len(History) + MaxSent[1]
  /\ Len(events) <= Len(History) + MaxSent[1] + MaxSent[2]
  /\ \A k \in DOMAIN forks[1], l \in DOMAIN forks[2] :
       forks[1][k] = forks[2][l] => forks[1][k] <= Len(History)

ChainsClosed ==
  \A e \in DOMAIN events :
    /\ events[e].auth \subseteq events[e].chain
    /\ events[e].chain \subseteq 1 .. (e - 1)
    /\ \A a \in events[e].chain : events[a].chain \subseteq events[e].chain

(* Every event was allowed in the state it names.                          *)
OwnState(e) == [k \in DOMAIN OwnAuth(e) |-> events[OwnAuth(e)[k]]]

Accepted ==
  \A e \in DOMAIN events :
    /\ events[e].sender \in User /\ events[e].content # NoLevels
    /\ events[e].prev \subseteq 1 .. (e - 1)
    /\ \A a, b \in events[e].auth : KeyOf(events[a]) = KeyOf(events[b]) => a = b
    /\ \A a \in events[e].auth : KeyOf(events[a]) \in AuthTypes(events[e])
    /\ Verdict(StateRec(OwnState(e)), events[e], PrevRec(events[e].prev)) = "allow"

(* The state of a fork holds the newest event it has seen for each key ... *)
Newest ==
  \A i \in 1 .. 2 : \A x \in Past(i) :
    KeyOf(events[x]) \in DOMAIN forks[i] /\ x <= forks[i][KeyOf(events[x])]

(* ... and an event on a fork names it, or a newer one.                    *)
NamesNewest ==
  \A e, h \in DOMAIN events :
    h <= Len(History) /\ Len(History) < e /\ KeyOf(events[h]) \in AuthTypes(events[e]) =>
      \E a \in events[e].auth : KeyOf(events[a]) = KeyOf(events[h]) /\ h <= a

(* Power levels and member events descend from all earlier ones of their   *)
(* key, as auth_types_for_event selects it for them.                       *)
Rooted == {Levels} \cup {Member(u) : u \in User}

Descent ==
  \A i \in 1 .. 2 : \A x \in Past(i) : KeyOf(events[x]) \in Rooted =>
    LET y == forks[i][KeyOf(events[x])] IN x = y \/ x \in events[y].chain

RoomInv == RoomShape /\ Forked /\ ChainsClosed /\ Accepted /\ Newest /\ NamesNewest /\ Descent

-----------------------------------------------------------------------------
(* The invariant of resolve.                                               *)
ResolveShape ==
  /\ pc \in {"start", "control", "rest", "done", "error"}
  /\ pc = "start" => all_conflicted = {} /\ control = {}
  /\ pc # "start" => clean = [k \in Res!Agreed |-> forks[1][k]] /\ Res!Agreed \subseteq DOMAIN resolved
  /\ all_conflicted \in {{}, Res!FullConflictedSet}
  /\ control = Res!ControlEvents(all_conflicted)
  /\ queue \in Seq(all_conflicted)
  /\ pc = "control" => Range(queue) \subseteq control
  /\ pc = "rest" => Range(queue) \cap control = {}

(* What is resolved comes from the conflicted set or is agreed upon.       *)
Sourced ==
  pc # "start" =>
    \A k \in DOMAIN resolved :
      \/ resolved[k] \in all_conflicted /\ KeyOf(events[resolved[k]]) = k
      \/ k \in Res!Agreed /\ resolved[k] = forks[1][k]

FirstPass ==
  pc = "control" => \A k \in DOMAIN resolved \ Res!Agreed : resolved[k] \in control

(* The second pass decides under the result of the first.                  *)
NotRemoved(ev) ==
  Member(ev.sender) \in DOMAIN resolved /\ RemovedByAnother(events[resolved[Member(ev.sender)]]) =>
    \/ NotAsked(ev)
    \/ ev.type = "member" /\ (RedeemsInvite(ev) \/ AfterCreate(PrevRec(ev.prev)))

Covered(ev) ==
  Levels \in DOMAIN resolved =>
    LET st == [StateRec([k \in {Levels} |-> events[resolved[Levels]]]) EXCEPT !.creator = NoKey]
    IN ev.type = "member" \/ NotAsked(ev) \/ UserLevel(st, ev.sender) >= SendLevel(st, ev)

SecondPass ==
  pc \in {"rest", "done"} =>
    \A k \in DOMAIN resolved \ Res!Agreed :
      resolved[k] \notin control =>
        NotRemoved(events[resolved[k]]) /\ Covered(events[resolved[k]])

(* Resolve fails over users that cannot be read in the power levels, when  *)
(* it sorts, or over an event that auth_check cannot judge.                *)
Failed ==
  pc = "error" =>
    \/ \E e \in control : e \in DOMAIN events /\ ~LevelsReadable(events[e])
    \/ queue # <<>> /\ Answer(Head(queue)) \in {"error", "panic"}

(* A power levels event that can be read as a whole has readable users.    *)
UsersRead ==
  \A e \in DOMAIN events :
    events[e].type = "power_levels" => (events[e].content.valid => events[e].content.users_valid)

(* The first pass takes an event after the conflicted events it names.     *)
WaitInOrder ==
  pc = "control" =>
    /\ \A i, j \in DOMAIN queue : i <= j => queue[j] \notin events[queue[i]].auth
    /\ \A e \in control : events[e].auth \cap Range(queue) # {} => e \in Range(queue)

(* A removal that nobody disputes gets its way when its turn comes, and    *)
(* keeps it.                                                               *)
Stands(e) ==
  LET k == Member(events[e].state_key) IN k \in DOMAIN resolved /\ resolved[k] = e

RemovalsStand ==
  \A e \in Removals : Undisputed(e) =>
    /\ pc = "control" => e \in Range(queue) \/ Stands(e)
    /\ pc \in {"rest", "done"} => Stands(e)

ResolveInv ==
  ResolveShape /\ Sourced /\ FirstPass /\ SecondPass /\ Failed /\ WaitInOrder /\ RemovalsStand

-----------------------------------------------------------------------------
(* Sending an event.                                                       *)

(* The new event comes last; the others stay what they are.                *)
LEMMA Appended ==
  ASSUME NEW S, NEW s \in Seq(S), NEW x
  PROVE  /\ Append(s, x) \in Seq(S \cup {x})
         /\ Len(s) \in Nat /\ DOMAIN s = 1 .. Len(s)
         /\ Len(Append(s, x)) = Len(s) + 1 /\ DOMAIN Append(s, x) = 1 .. (Len(s) + 1)
         /\ Append(s, x)[Len(s) + 1] = x
         /\ \A e \in DOMAIN s : Append(s, x)[e] = s[e] /\ e # Len(s) + 1 /\ e \in 1 .. (Len(s) + 1)
  <1>1. s \in Seq(S \cup {x})
    OBVIOUS
  <1>2. QED
    BY <1>1

(* The event that Send puts into the room.                                 *)
Sent(f, ev) ==
  LET own  == AuthTypes(ev) \cap DOMAIN forks[f]
      auth == {forks[f][k] : k \in own}
  IN [type |-> ev.type, sender |-> ev.sender, state_key |-> ev.state_key,
      content |-> ev.content, auth |-> auth, prev |-> {last[f]} \ {0},
      chain |-> auth \cup UNION {events[a].chain : a \in auth}]

(* What a step that sends does, once the fork it reads is chosen: both     *)
(* forks are the same if it extends both.                                  *)
Sends(S, f, ev) ==
  /\ f \in S /\ S \subseteq 1 .. 2
  /\ ev \in Menu \cup Range(History)
  /\ pc = "start"
  /\ Verdict(StateRec([k \in AuthTypes(ev) \cap DOMAIN forks[f] |-> events[forks[f][k]]]),
             Sent(f, ev), PrevRec(Sent(f, ev).prev)) = "allow"
  /\ events' = Append(events, Sent(f, ev))
  /\ forks' = [i \in 1 .. 2 |-> IF i \in S THEN Put(forks[i], KeyOf(ev), Len(events) + 1) ELSE forks[i]]
  /\ last' = [i \in 1 .. 2 |-> IF i \in S THEN Len(events) + 1 ELSE last[i]]
  /\ UNCHANGED resolution
  /\ \A i \in S : forks[i] = forks[f]
  /\ S = {1, 2} <=> Len(events) < Len(History)
  /\ S # {1, 2} => \/ S = {1} /\ last[1] < Len(History) + MaxSent[1] /\ last[2] = Len(History)
                   \/ S = {2} /\ Len(History) <= last[1] /\ Len(events) < last[1] + MaxSent[2]

(* Every event that is sent is sent on a fork, or on both before they part. *)
LEMMA SendsOf ==
  ASSUME RoomInv, SendHistory \/ (\E ev \in Menu : SendOnFirst(ev)) \/ (\E ev \in Menu : SendOnSecond(ev))
  PROVE  \E S, f, ev : Sends(S, f, ev)
  <1>h. Len(History) \in Nat /\ DOMAIN History = 1 .. Len(History)
    BY HistoryAssumption
  <1>l. /\ Len(events) \in Nat
        /\ \A i \in 1 .. 2 : last[i] \in 0 .. Len(events)
        /\ Len(events) < Len(History) => forks[1] = forks[2]
    BY Appended DEF RoomInv, RoomShape, Forked
  <1>1. CASE SendHistory
    <2> DEFINE S == {1, 2}
               f == CHOOSE i \in S : TRUE
               ev == History[Len(events) + 1]
    <2>1. f \in S /\ Len(events) < Len(History) /\ Send(S, ev)
      BY <1>1 DEF SendHistory
    <2>2. ev \in Range(History)
      BY <1>h, <1>l, <2>1 DEF Range
    <2>3. \A i \in S : forks[i] = forks[f]
      BY <1>l, <2>1
    <2>4. Sends(S, f, ev)
      BY <2>1, <2>2, <2>3 DEF Send, Sends, Sent
    <2>5. QED
      BY <2>4
  <1>2. ASSUME NEW ev \in Menu, SendOnFirst(ev) PROVE \E S, f, e : Sends(S, f, e)
    <2> DEFINE S == {1}
               f == CHOOSE i \in S : TRUE
    <2>1. f = 1 /\ Send(S, ev)
      BY <1>2 DEF SendOnFirst
    <2>2. ~(Len(events) < Len(History)) /\ last[1] < Len(History) + MaxSent[1] /\ last[2] = Len(History)
      BY <1>2, <1>h, <1>l DEF SendOnFirst
    <2>3. S # {1, 2} /\ S = {1} /\ S \subseteq 1 .. 2
      OBVIOUS
    <2>4. Sends(S, f, ev)
      BY <2>1, <2>2, <2>3 DEF Send, Sends, Sent
    <2>5. QED
      BY <2>4
  <1>3. ASSUME NEW ev \in Menu, SendOnSecond(ev) PROVE \E S, f, e : Sends(S, f, e)
    <2> DEFINE S == {2}
               f == CHOOSE i \in S : TRUE
    <2>1. f = 2 /\ Send(S, ev)
      BY <1>3 DEF SendOnSecond
    <2>2. ~(Len(events) < Len(History)) /\ Len(History) <= last[1] /\ Len(events) < last[1] + MaxSent[2]
      BY <1>3, <1>h, <1>l DEF SendOnSecond
    <2>3. S # {1, 2} /\ S = {2} /\ S \subseteq 1 .. 2
      OBVIOUS
    <2>4. Sends(S, f, ev)
      BY <2>1, <2>2, <2>3 DEF Send, Sends, Sent
    <2>5. QED
      BY <2>4
  <1>4. QED
    BY <1>1, <1>2, <1>3

(* The new event and the state it leaves behind.                           *)
LEMMA SentFacts ==
  ASSUME RoomInv, NEW S, NEW f, NEW ev, Sends(S, f, ev), NEW id, id = Len(events) + 1
  PROVE  /\ Len(events) \in Nat /\ DOMAIN events = 1 .. Len(events)
         /\ Len(events') = id /\ DOMAIN events' = 1 .. id /\ \E T : events' \in Seq(T)
         /\ events'[id] = Sent(f, ev)
         /\ \A e \in DOMAIN events : events'[e] = events[e] /\ e < id /\ e \in DOMAIN events'
         /\ DOMAIN forks' = 1 .. 2 /\ f \in 1 .. 2
         /\ \A i \in S : i \in 1 .. 2 /\ forks'[i] = Put(forks[f], KeyOf(ev), id)
         /\ \A i \in (1 .. 2) \ S : forks'[i] = forks[i] /\ Len(History) < id
  <1>1. PICK T : events \in Seq(T)
    BY DEF RoomInv, RoomShape
  <1>2. events' = Append(events, Sent(f, ev)) /\ f \in 1 .. 2 /\ S \subseteq 1 .. 2
    BY DEF Sends
  <1>3. /\ Len(events) \in Nat /\ DOMAIN events = 1 .. Len(events)
        /\ Len(events') = id /\ DOMAIN events' = 1 .. id /\ events' \in Seq(T \cup {Sent(f, ev)})
        /\ events'[id] = Sent(f, ev)
        /\ \A e \in DOMAIN events : events'[e] = events[e] /\ e < id /\ e \in DOMAIN events'
    BY <1>1, <1>2, Appended
  <1>4. DOMAIN forks' = 1 .. 2
    BY DEF Sends
  <1>5. \A i \in S : i \in 1 .. 2 /\ forks'[i] = Put(forks[f], KeyOf(ev), id)
    BY <1>2 DEF Sends
  <1>6. ASSUME NEW i \in (1 .. 2) \ S PROVE forks'[i] = forks[i] /\ Len(History) < id
    <2>1. forks'[i] = forks[i] /\ S # {1, 2}
      BY <1>6 DEF Sends
    <2>2. ~(Len(events) < Len(History))
      BY <2>1 DEF Sends
    <2>3. QED
      BY <1>3, <2>1, <2>2, HistoryAssumption
  <1>7. QED
    BY <1>2, <1>3, <1>4, <1>5, <1>6

(* Its fields.                                                             *)
LEMMA SentFields ==
  ASSUME NEW f, NEW ev
  PROVE  /\ Sent(f, ev).type = ev.type /\ Sent(f, ev).sender = ev.sender
         /\ Sent(f, ev).state_key = ev.state_key /\ Sent(f, ev).content = ev.content
         /\ Sent(f, ev).auth = {forks[f][k] : k \in AuthTypes(ev) \cap DOMAIN forks[f]}
         /\ Sent(f, ev).prev = {last[f]} \ {0}
         /\ Sent(f, ev).chain = Sent(f, ev).auth \cup UNION {events[a].chain : a \in Sent(f, ev).auth}
         /\ KeyOf(Sent(f, ev)) = KeyOf(ev) /\ AuthTypes(Sent(f, ev)) = AuthTypes(ev)
  <1>1. /\ Sent(f, ev).type = ev.type /\ Sent(f, ev).sender = ev.sender
        /\ Sent(f, ev).state_key = ev.state_key /\ Sent(f, ev).content = ev.content
        /\ Sent(f, ev).auth = {forks[f][k] : k \in AuthTypes(ev) \cap DOMAIN forks[f]}
        /\ Sent(f, ev).prev = {last[f]} \ {0}
        /\ Sent(f, ev).chain = Sent(f, ev).auth \cup UNION {events[a].chain : a \in Sent(f, ev).auth}
    BY DEF Sent
  <1>2. KeyOf(Sent(f, ev)) = KeyOf(ev) /\ AuthTypes(Sent(f, ev)) = AuthTypes(ev)
    BY <1>1 DEF KeyOf, AuthTypes
  <1>3. QED
    BY <1>1, <1>2

(* Inserting into a map.                                                   *)
LEMMA PutIs ==
  ASSUME NEW state, NEW k, NEW e
  PROVE  /\ DOMAIN Put(state, k, e) = DOMAIN state \cup {k}
         /\ Put(state, k, e)[k] = e
         /\ \A x \in DOMAIN state : x # k => Put(state, k, e)[x] = state[x]
         /\ \A x \in DOMAIN Put(state, k, e) : x = k \/ (x \in DOMAIN state /\ Put(state, k, e)[x] = state[x])
         /\ Range(Put(state, k, e)) \subseteq Range(state) \cup {e}
  <1>1. /\ DOMAIN Put(state, k, e) = DOMAIN state \cup {k}
        /\ Put(state, k, e)[k] = e
        /\ \A x \in DOMAIN state : x # k => Put(state, k, e)[x] = state[x]
        /\ \A x \in DOMAIN Put(state, k, e) : x = k \/ (x \in DOMAIN state /\ Put(state, k, e)[x] = state[x])
    BY DEF Put
  <1>2. Range(Put(state, k, e)) \subseteq Range(state) \cup {e}
    BY <1>1 DEF Range
  <1>3. QED
    BY <1>1, <1>2

(* The auth events are what the fork has in its state.                     *)
LEMMA SentAuth ==
  ASSUME RoomInv, NEW S, NEW f, NEW ev, Sends(S, f, ev)
  PROVE  /\ \A a \in Sent(f, ev).auth :
              /\ a \in DOMAIN events /\ a \in Range(forks[f])
              /\ KeyOf(events[a]) \in AuthTypes(ev) \cap DOMAIN forks[f]
              /\ a = forks[f][KeyOf(events[a])]
         /\ \A k \in AuthTypes(ev) \cap DOMAIN forks[f] : forks[f][k] \in Sent(f, ev).auth
         /\ Sent(f, ev).chain \subseteq ChainSet(f) \cup Range(forks[f])
         /\ Sent(f, ev).chain \subseteq DOMAIN events
  <1>0. f \in 1 .. 2
    BY DEF Sends
  <1>1. \A k \in DOMAIN forks[f] : forks[f][k] \in DOMAIN events /\ KeyOf(events[forks[f][k]]) = k
    BY <1>0 DEF RoomInv, RoomShape
  <1>2. \A a \in Sent(f, ev).auth : \E k \in AuthTypes(ev) \cap DOMAIN forks[f] : a = forks[f][k]
    BY SentFields
  <1>3. \A a \in Sent(f, ev).auth :
              /\ a \in DOMAIN events /\ a \in Range(forks[f])
              /\ KeyOf(events[a]) \in AuthTypes(ev) \cap DOMAIN forks[f]
              /\ a = forks[f][KeyOf(events[a])]
    BY <1>1, <1>2 DEF Range
  <1>4. \A k \in AuthTypes(ev) \cap DOMAIN forks[f] : forks[f][k] \in Sent(f, ev).auth
    BY SentFields
  <1>5. Sent(f, ev).chain = Sent(f, ev).auth \cup UNION {events[a].chain : a \in Sent(f, ev).auth}
    BY SentFields
  <1>6. Sent(f, ev).chain \subseteq ChainSet(f) \cup Range(forks[f])
    BY <1>3, <1>5 DEF ChainSet
  <1>7. \A e \in DOMAIN events : events[e].chain \subseteq DOMAIN events
    <2>1. \A e \in DOMAIN events : events[e].chain \subseteq 1 .. (e - 1)
      BY DEF RoomInv, ChainsClosed
    <2>2. Len(events) \in Nat /\ DOMAIN events = 1 .. Len(events)
      BY SentFacts
    <2>3. QED
      BY <2>1, <2>2
  <1>8. Sent(f, ev).chain \subseteq DOMAIN events
    BY <1>3, <1>5, <1>7
  <1>9. QED
    BY <1>3, <1>4, <1>6, <1>8

(* A fork sees the new event if it is sent on it, and nothing else.        *)
LEMMA PastGrows ==
  ASSUME RoomInv, NEW S, NEW f, NEW ev, Sends(S, f, ev), NEW id, id = Len(events) + 1, NEW i \in 1 .. 2
  PROVE  /\ Past(i)' \subseteq Past(i) \cup {id}
         /\ i \notin S => Past(i)' \subseteq Past(i)
         /\ Past(i) \subseteq DOMAIN events
  <1>1. /\ DOMAIN events' = DOMAIN events \cup {id}
        /\ events'[id] = Sent(f, ev)
        /\ \A e \in DOMAIN events : events'[e] = events[e]
    <2>1. /\ Len(events) \in Nat /\ DOMAIN events = 1 .. Len(events) /\ DOMAIN events' = 1 .. id
          /\ events'[id] = Sent(f, ev) /\ \A e \in DOMAIN events : events'[e] = events[e]
      BY SentFacts
    <2>2. \A n \in Nat : 1 .. (n + 1) = (1 .. n) \cup {n + 1}
      OBVIOUS
    <2>3. QED
      BY <2>1, <2>2
  <1> DEFINE H == {h \in DOMAIN events : h <= Len(History)}
             newH == {h \in DOMAIN events' : h <= Len(History)}
  <1>p. Past(i)' = ChainSet(i)' \cup Range(forks'[i]) \cup newH
    BY DEF Past
  <1>q. Past(i) = ChainSet(i) \cup Range(forks[i]) \cup H
    BY DEF Past
  <1>2. \A k \in DOMAIN forks[i] : forks[i][k] \in DOMAIN events
    BY DEF RoomInv, RoomShape
  <1>3. Range(forks[i]) \subseteq DOMAIN events
    BY <1>2 DEF Range
  <1>4. newH \subseteq H \cup {id} /\ H \subseteq DOMAIN events
    BY <1>1
  <1>h. Len(History) < id => newH \subseteq H
    <2>1. id \in Nat /\ Len(History) \in Nat
      BY SentFacts, HistoryAssumption
    <2>2. QED
      BY <1>1, <2>1
  <1> HIDE DEF H, newH
  <1>d. Past(i) \subseteq DOMAIN events
    <2>1. \A e \in DOMAIN events : events[e].chain \subseteq 1 .. (e - 1)
      BY DEF RoomInv, ChainsClosed
    <2>2. Len(events) \in Nat /\ DOMAIN events = 1 .. Len(events)
      BY SentFacts
    <2>3. \A e \in DOMAIN events : events[e].chain \subseteq DOMAIN events
      BY <2>1, <2>2
    <2>4. QED
      BY <1>q, <1>3, <1>4, <2>3 DEF ChainSet
  <1>5. CASE i \in S
    <2>1. forks'[i] = Put(forks[i], KeyOf(ev), id) /\ forks[i] = forks[f]
      BY <1>5 DEF Sends
    <2>2. Range(forks'[i]) \subseteq Range(forks[i]) \cup {id}
      <3>1. Range(Put(forks[i], KeyOf(ev), id)) \subseteq Range(forks[i]) \cup {id}
        BY PutIs
      <3>2. QED
        BY <2>1, <3>1
    <2>3. ChainSet(i)' \subseteq ChainSet(i) \cup Range(forks[i])
      <3>1. ASSUME NEW e \in Range(forks'[i]) PROVE events'[e].chain \subseteq ChainSet(i) \cup Range(forks[i])
        <4>1. CASE e = id
          BY <1>1, <2>1, <4>1, SentAuth DEF ChainSet
        <4>2. CASE e \in Range(forks[i])
          BY <1>1, <1>3, <4>2 DEF ChainSet
        <4>3. QED
          BY <2>2, <3>1, <4>1, <4>2
      <3>2. QED
        BY <3>1 DEF ChainSet
    <2>4. QED
      BY <1>p, <1>q, <1>4, <1>5, <1>d, <2>2, <2>3
  <1>6. CASE i \notin S
    <2>1. forks'[i] = forks[i] /\ Len(History) < id
      BY <1>6, SentFacts
    <2>2. ChainSet(i)' = ChainSet(i) /\ Range(forks'[i]) = Range(forks[i])
      BY <1>1, <1>3, <2>1 DEF ChainSet
    <2>3. QED
      BY <1>p, <1>q, <1>h, <1>6, <1>d, <2>1, <2>2
  <1>8. QED
    BY <1>5, <1>6, <1>d

(* The state of a fork on which it was sent.                               *)
LEMMA SentForks ==
  ASSUME RoomInv, NEW S, NEW f, NEW ev, Sends(S, f, ev), NEW id, id = Len(events) + 1, NEW i \in S
  PROVE  /\ forks[i] = forks[f] /\ i \in 1 .. 2
         /\ DOMAIN forks'[i] = DOMAIN forks[f] \cup {KeyOf(ev)} /\ forks'[i][KeyOf(ev)] = id
         /\ \A x \in DOMAIN forks'[i] :
              x = KeyOf(ev) \/ (x \in DOMAIN forks[f] /\ forks'[i][x] = forks[f][x])
         /\ \A x \in DOMAIN forks[f] : x # KeyOf(ev) => forks'[i][x] = forks[f][x]
  <1> DEFINE P == Put(forks[f], KeyOf(ev), id)
  <1>1. /\ DOMAIN P = DOMAIN forks[f] \cup {KeyOf(ev)} /\ P[KeyOf(ev)] = id
        /\ \A x \in DOMAIN P : x = KeyOf(ev) \/ (x \in DOMAIN forks[f] /\ P[x] = forks[f][x])
        /\ \A x \in DOMAIN forks[f] : x # KeyOf(ev) => P[x] = forks[f][x]
    BY DEF Put
  <1>2. forks'[i] = P
    BY SentFacts
  <1>3. forks[i] = forks[f] /\ i \in 1 .. 2
    BY DEF Sends
  <1> HIDE DEF P
  <1>4. QED
    BY <1>1, <1>2, <1>3

(* The maps stay consistent, and the forks apart.                          *)
LEMMA ShapeStep ==
  ASSUME RoomInv, NEW S, NEW f, NEW ev, Sends(S, f, ev)
  PROVE  RoomShape' /\ Forked'
  <1> DEFINE id == Len(events) + 1
  <1>1. /\ Len(events) \in Nat /\ DOMAIN events = 1 .. Len(events)
        /\ Len(events') = id /\ DOMAIN events' = 1 .. id /\ \E T : events' \in Seq(T)
        /\ events'[id] = Sent(f, ev)
        /\ \A e \in DOMAIN events : events'[e] = events[e] /\ e < id /\ e \in DOMAIN events'
        /\ DOMAIN forks' = 1 .. 2 /\ f \in 1 .. 2
        /\ \A i \in S : i \in 1 .. 2 /\ forks'[i] = Put(forks[f], KeyOf(ev), id)
        /\ \A i \in (1 .. 2) \ S : forks'[i] = forks[i] /\ Len(History) < id
    BY SentFacts
  <1>2. \A i \in 1 .. 2 : last'[i] = (IF i \in S THEN id ELSE last[i]) /\ last[i] \in 0 .. Len(events)
    BY DEF Sends, RoomInv, RoomShape
  <1>3. \A i \in 1 .. 2 : \A k \in DOMAIN forks[i] :
          forks[i][k] \in DOMAIN events /\ KeyOf(events[forks[i][k]]) = k
    BY DEF RoomInv, RoomShape
  <1>h. Len(History) \in Nat /\ MaxSent[1] \in Nat /\ MaxSent[2] \in Nat
    BY HistoryAssumption, BoundAssumption
  <1>p. ASSUME NEW i \in S
        PROVE  /\ DOMAIN forks'[i] = DOMAIN forks[f] \cup {KeyOf(ev)} /\ forks'[i][KeyOf(ev)] = id
               /\ \A x \in DOMAIN forks'[i] :
                    x = KeyOf(ev) \/ (x \in DOMAIN forks[f] /\ forks'[i][x] = forks[f][x])
    BY <1>p, SentForks
  <1>4. ASSUME NEW i \in 1 .. 2, NEW k \in DOMAIN forks'[i]
        PROVE  forks'[i][k] \in DOMAIN events' /\ KeyOf(events'[forks'[i][k]]) = k
    <2>1. CASE i \in S
      <3>2. CASE k = KeyOf(ev)
        <4>1. forks'[i][k] = id
          BY <1>p, <2>1, <3>2
        <4>2. KeyOf(events'[id]) = k
          BY <1>1, <3>2, SentFields
        <4>3. id \in DOMAIN events'
          BY <1>1
        <4>4. QED
          BY <4>1, <4>2, <4>3
      <3>3. CASE k # KeyOf(ev)
        <4>1. k \in DOMAIN forks[f] /\ forks'[i][k] = forks[f][k]
          BY <1>4, <1>p, <2>1, <3>3
        <4>2. forks[f][k] \in DOMAIN events /\ KeyOf(events[forks[f][k]]) = k
          BY <1>1, <1>3, <4>1
        <4>3. QED
          BY <1>1, <4>1, <4>2
      <3>4. QED
        BY <3>2, <3>3
    <2>2. CASE i \notin S
      <3>1. forks'[i] = forks[i] /\ k \in DOMAIN forks[i]
        BY <1>1, <1>4, <2>2
      <3>2. forks[i][k] \in DOMAIN events /\ KeyOf(events[forks[i][k]]) = k
        BY <1>3, <3>1
      <3>3. QED
        BY <1>1, <3>1, <3>2
    <2>3. QED
      BY <2>1, <2>2
  <1>5. RoomShape'
    <2>1. \A i \in 1 .. 2 : last'[i] \in 0 .. Len(events')
      BY <1>1, <1>2
    <2>2. QED
      BY <1>1, <1>4, <2>1 DEF RoomShape
  <1>6. S = {1, 2} \/ S = {1} \/ S = {2}
    BY DEF Sends
  <1>7. Len(events') < Len(History) => forks'[1] = forks'[2]
    <2>1. Len(events') < Len(History) => Len(events) < Len(History)
      BY <1>1, <1>h
    <2>2. Len(events) < Len(History) => S = {1, 2}
      BY DEF Sends
    <2>3. QED
      BY <1>1, <2>1, <2>2
  <1>8. /\ Len(events) < Len(History) <=> S = {1, 2}
        /\ S # {1, 2} => \/ S = {1} /\ last[1] < Len(History) + MaxSent[1] /\ last[2] = Len(History)
                         \/ S = {2} /\ Len(History) <= last[1] /\ Len(events) < last[1] + MaxSent[2]
        /\ Len(events) <= Len(History) => last[1] = Len(events)
        /\ last[2] <= Len(History) => last[1] = Len(events)
        /\ last[1] <= Len(History) + MaxSent[1]
        /\ Len(events) <= Len(History) + MaxSent[1] + MaxSent[2]
    BY DEF Sends, RoomInv, Forked
  <1>9. /\ Len(events') <= Len(History) => last'[1] = Len(events')
        /\ last'[2] <= Len(History) => last'[1] = Len(events')
        /\ last'[1] <= Len(History) + MaxSent[1]
        /\ Len(events') <= Len(History) + MaxSent[1] + MaxSent[2]
    <2>1. CASE S = {1, 2}
      <3>1. last'[1] = id /\ last'[2] = id
        BY <1>2, <2>1
      <3>2. last[1] \in Nat /\ last[2] \in Nat /\ last[1] <= Len(events) /\ last[2] <= Len(events)
        BY <1>1, <1>2
      <3>3. Len(events) < Len(History)
        BY <1>8, <2>1
      <3> HIDE DEF id
      <3>4. id = Len(events) + 1
        BY DEF id
      <3>5. QED
        BY <1>1, <1>8, <1>h, <3>1, <3>2, <3>3, <3>4
    <2>2. CASE S = {1}
      <3>1. last'[1] = id /\ last'[2] = last[2]
        BY <1>2, <2>2
      <3>2. last[1] \in Nat /\ last[2] \in Nat /\ last[1] <= Len(events) /\ last[2] <= Len(events)
        BY <1>1, <1>2
      <3>3. ~(Len(events) < Len(History)) /\ last[1] < Len(History) + MaxSent[1] /\ last[2] = Len(History)
        <4>1. S # {1, 2} /\ S # {2}
          BY <2>2
        <4>2. QED
          BY <1>8, <4>1
      <3> HIDE DEF id
      <3>4. id = Len(events) + 1
        BY DEF id
      <3>5. QED
        BY <1>1, <1>8, <1>h, <3>1, <3>2, <3>3, <3>4, SMTT(20)
    <2>3. CASE S = {2}
      <3>1. last'[1] = last[1] /\ last'[2] = id
        BY <1>2, <2>3
      <3>2. last[1] \in Nat /\ last[2] \in Nat /\ last[1] <= Len(events) /\ last[2] <= Len(events)
        BY <1>1, <1>2
      <3>3. ~(Len(events) < Len(History)) /\ Len(History) <= last[1] /\ Len(events) < last[1] + MaxSent[2]
        <4>1. S # {1, 2} /\ S # {1}
          BY <2>3
        <4>2. QED
          BY <1>8, <4>1
      <3> HIDE DEF id
      <3>4. id = Len(events) + 1
        BY DEF id
      <3>5. QED
        BY <1>1, <1>8, <1>h, <3>1, <3>2, <3>3, <3>4, SMTT(20)
    <2>4. QED
      BY <1>6, <2>1, <2>2, <2>3
  <1>10. ASSUME NEW k \in DOMAIN forks'[1], NEW l \in DOMAIN forks'[2], forks'[1][k] = forks'[2][l]
         PROVE  forks'[1][k] <= Len(History)
    <2>1. \A x \in DOMAIN forks[1], y \in DOMAIN forks[2] : forks[1][x] = forks[2][y] => forks[1][x] <= Len(History)
      BY DEF RoomInv, Forked
    <2>2. ASSUME NEW i \in S
          PROVE  \A x \in DOMAIN forks'[i] :
                   \/ forks'[i][x] = id
                   \/ x \in DOMAIN forks[i] /\ forks'[i][x] = forks[i][x]
      <3>1. forks[i] = forks[f]
        BY <2>2 DEF Sends
      <3>2. QED
        BY <1>p, <3>1
    <2>3. CASE S = {1, 2}
      <3>1. id <= Len(History)
        <4>1. Len(events) < Len(History)
          BY <1>8, <2>3
        <4>2. QED
          BY <1>1, <1>h, <4>1
      <3>2. forks'[1][k] = id \/ (k \in DOMAIN forks[1] /\ forks'[1][k] = forks[1][k])
        BY <2>2, <2>3
      <3>3. forks'[2][l] = id \/ (l \in DOMAIN forks[2] /\ forks'[2][l] = forks[2][l])
        BY <2>2, <2>3
      <3>4. QED
        BY <1>10, <2>1, <3>1, <3>2, <3>3
    <2>4. CASE S = {1}
      <3>1. forks'[2] = forks[2] /\ forks[2][l] \in DOMAIN events
        BY <1>1, <1>3, <1>10, <2>4
      <3>2. forks'[1][k] = id \/ (k \in DOMAIN forks[1] /\ forks'[1][k] = forks[1][k])
        BY <2>2, <2>4
      <3>3. forks[2][l] # id
        BY <1>1, <3>1
      <3>4. QED
        BY <1>10, <2>1, <3>1, <3>2, <3>3
    <2>5. CASE S = {2}
      <3>1. forks'[1] = forks[1] /\ forks[1][k] \in DOMAIN events
        BY <1>1, <1>3, <1>10, <2>5
      <3>2. forks'[2][l] = id \/ (l \in DOMAIN forks[2] /\ forks'[2][l] = forks[2][l])
        BY <2>2, <2>5
      <3>3. forks[1][k] # id
        BY <1>1, <3>1
      <3>4. QED
        BY <1>10, <2>1, <3>1, <3>2, <3>3
    <2>6. QED
      BY <1>6, <2>3, <2>4, <2>5
  <1>11. QED
    BY <1>5, <1>7, <1>9, <1>10 DEF Forked

(* Chains stay closed.                                                     *)
LEMMA ChainsStep ==
  ASSUME RoomInv, NEW S, NEW f, NEW ev, Sends(S, f, ev)
  PROVE  ChainsClosed'
  <1> DEFINE id == Len(events) + 1
             n == Sent(f, ev)
  <1>1. /\ Len(events) \in Nat /\ DOMAIN events = 1 .. Len(events)
        /\ DOMAIN events' = 1 .. id /\ events'[id] = n
        /\ \A e \in DOMAIN events : events'[e] = events[e]
    BY SentFacts
  <1>2. \A e \in DOMAIN events :
          /\ events[e].auth \subseteq events[e].chain
          /\ events[e].chain \subseteq 1 .. (e - 1)
          /\ \A a \in events[e].chain : events[a].chain \subseteq events[e].chain
    BY DEF RoomInv, ChainsClosed
  <1>3. /\ n.auth \subseteq DOMAIN events /\ n.chain \subseteq DOMAIN events
        /\ n.chain = n.auth \cup UNION {events[a].chain : a \in n.auth}
    BY SentAuth, SentFields
  <1> HIDE DEF n
  <1>4. \A a \in n.chain : events[a].chain \subseteq n.chain
    <2>1. \A a \in n.auth : events[a].chain \subseteq n.chain
      BY <1>3
    <2>2. ASSUME NEW b \in n.auth, NEW a \in events[b].chain PROVE events[a].chain \subseteq n.chain
      <3>1. events[a].chain \subseteq events[b].chain
        BY <1>2, <1>3, <2>2
      <3>2. QED
        BY <2>1, <2>2, <3>1
    <2>3. QED
      BY <1>3, <2>1, <2>2
  <1>5. ASSUME NEW e \in DOMAIN events'
        PROVE  /\ events'[e].auth \subseteq events'[e].chain
               /\ events'[e].chain \subseteq 1 .. (e - 1)
               /\ \A a \in events'[e].chain : events'[a].chain \subseteq events'[e].chain
    <2>1. CASE e = id
      <3>1. \A a \in n.chain : events'[a] = events[a]
        BY <1>1, <1>3
      <3>2. n.chain \subseteq 1 .. (id - 1)
        BY <1>1, <1>3
      <3>3. QED
        BY <1>1, <1>3, <1>4, <2>1, <3>1, <3>2
    <2>2. CASE e # id
      <3>1. e \in DOMAIN events
        BY <1>1, <1>5, <2>2
      <3>2. \A a \in events[e].chain : a \in DOMAIN events
        BY <1>1, <1>2, <3>1
      <3>3. QED
        BY <1>1, <1>2, <3>1, <3>2
    <2>3. QED
      BY <2>1, <2>2
  <1>6. QED
    BY <1>5 DEF ChainsClosed

(* The state an event names, key by key.                                   *)
LEMMA OwnAuthIs ==
  ASSUME NEW e, \A a, b \in events[e].auth : KeyOf(events[a]) = KeyOf(events[b]) => a = b
  PROVE  /\ DOMAIN OwnAuth(e) = {KeyOf(events[a]) : a \in events[e].auth}
         /\ \A a \in events[e].auth : OwnAuth(e)[KeyOf(events[a])] = a
         /\ \A k \in DOMAIN OwnAuth(e) : OwnAuth(e)[k] \in events[e].auth /\ KeyOf(events[OwnAuth(e)[k]]) = k
  BY DEF OwnAuth

(* Whether an event follows the m.room.create event stays the same.        *)
LEMMA PrevKept ==
  ASSUME NEW e, events'[e] = events[e], \A p \in events[e].prev : events'[p] = events[p]
  PROVE  PrevRec(events[e].prev)' = PrevRec(events[e].prev)
  <1> DEFINE P == events[e].prev
             first == P # {} /\ \A p \in P : events[p].type = "create" /\ events[p].prev = {}
  <1>1. first' <=> first
    OBVIOUS
  <1>2. PrevRec(events[e].prev) = [first |-> first] /\ PrevRec(events[e].prev)' = [first |-> first']
    BY DEF PrevRec
  <1> HIDE DEF first
  <1>3. QED
    BY <1>1, <1>2

(* An event stays one that was allowed, and the new one is.                *)
LEMMA AcceptedStep ==
  ASSUME RoomInv, NEW S, NEW f, NEW ev, Sends(S, f, ev)
  PROVE  Accepted'
  <1>0. PICK id : id = Len(events) + 1
    OBVIOUS
  <1> DEFINE n == Sent(f, ev)
             own == AuthTypes(ev) \cap DOMAIN forks[f]
             auth(e) == events'[e].auth
  <1>1. /\ Len(events) \in Nat /\ DOMAIN events = 1 .. Len(events)
        /\ DOMAIN events' = 1 .. id /\ events'[id] = n
        /\ \A e \in DOMAIN events : events'[e] = events[e]
        /\ f \in 1 .. 2
    BY <1>0, SentFacts
  <1>2. \A e \in DOMAIN events :
          /\ events[e].sender \in User /\ events[e].content # NoLevels
          /\ events[e].prev \subseteq 1 .. (e - 1)
          /\ \A a, b \in events[e].auth : KeyOf(events[a]) = KeyOf(events[b]) => a = b
          /\ \A a \in events[e].auth : KeyOf(events[a]) \in AuthTypes(events[e])
          /\ Verdict(StateRec(OwnState(e)), events[e], PrevRec(events[e].prev)) = "allow"
    BY DEF RoomInv, Accepted
  <1>3. \A e \in DOMAIN events : events[e].auth \subseteq DOMAIN events
    <2>1. \A e \in DOMAIN events : events[e].auth \subseteq 1 .. (e - 1)
      BY DEF RoomInv, ChainsClosed
    <2>2. QED
      BY <1>1, <2>1
  <1>4. /\ n.sender = ev.sender /\ n.content = ev.content /\ n.prev = {last[f]} \ {0}
        /\ AuthTypes(n) = AuthTypes(ev)
    BY SentFields
  <1>5. \A a \in n.auth : a \in DOMAIN events /\ KeyOf(events[a]) \in own /\ a = forks[f][KeyOf(events[a])]
    BY SentAuth
  <1>6. \A k \in own : forks[f][k] \in n.auth /\ KeyOf(events[forks[f][k]]) = k
    BY <1>1, SentAuth DEF RoomInv, RoomShape
  <1>7. Verdict(StateRec([k \in own |-> events[forks[f][k]]]), n, PrevRec(n.prev)) = "allow"
    BY DEF Sends
  <1> HIDE DEF n, own
  <1>8. ASSUME NEW e \in DOMAIN events
        PROVE  /\ \A a, b \in auth(e) : KeyOf(events'[a]) = KeyOf(events'[b]) => a = b
               /\ \A a \in auth(e) : KeyOf(events'[a]) \in AuthTypes(events'[e])
               /\ events'[e].sender \in User /\ events'[e].content # NoLevels
               /\ events'[e].prev \subseteq 1 .. (e - 1)
               /\ Verdict(StateRec(OwnState(e)'), events'[e], PrevRec(events[e].prev)') = "allow"
    <2>1. events'[e] = events[e] /\ \A a \in auth(e) : events'[a] = events[a]
      BY <1>1, <1>3
    <2>2. /\ \A a, b \in auth(e) : KeyOf(events'[a]) = KeyOf(events'[b]) => a = b
          /\ \A a \in auth(e) : KeyOf(events'[a]) \in AuthTypes(events'[e])
      BY <1>2, <2>1
    <2>3. OwnState(e)' = OwnState(e)
      <3>1. /\ DOMAIN OwnAuth(e)' = {KeyOf(events'[a]) : a \in auth(e)}
            /\ \A a \in auth(e) : OwnAuth(e)'[KeyOf(events'[a])] = a
        BY <2>2 DEF OwnAuth
      <3>2. /\ DOMAIN OwnAuth(e) = {KeyOf(events[a]) : a \in events[e].auth}
            /\ \A a \in events[e].auth : OwnAuth(e)[KeyOf(events[a])] = a
        BY <1>2, OwnAuthIs
      <3>3. DOMAIN OwnAuth(e)' = DOMAIN OwnAuth(e)
        BY <2>1, <3>1, <3>2
      <3>4. \A k \in DOMAIN OwnAuth(e) : OwnAuth(e)'[k] = OwnAuth(e)[k] /\ OwnAuth(e)[k] \in auth(e)
        BY <2>1, <3>1, <3>2
      <3>5. OwnState(e)' = [k \in DOMAIN OwnAuth(e)' |-> events'[OwnAuth(e)'[k]]]
        BY DEF OwnState
      <3>6. OwnState(e) = [k \in DOMAIN OwnAuth(e) |-> events[OwnAuth(e)[k]]]
        BY DEF OwnState
      <3>7. QED
        BY <2>1, <3>3, <3>4, <3>5, <3>6
    <2>4. PrevRec(events[e].prev)' = PrevRec(events[e].prev)
      <3>1. \A p \in events[e].prev : events'[p] = events[p]
        BY <1>1, <1>2
      <3>2. QED
        BY <2>1, <3>1, PrevKept
    <2>5. QED
      BY <1>2, <2>1, <2>2, <2>3, <2>4
  <1>9. /\ \A a, b \in n.auth : KeyOf(events'[a]) = KeyOf(events'[b]) => a = b
        /\ \A a \in n.auth : KeyOf(events'[a]) \in AuthTypes(n)
    BY <1>1, <1>4, <1>5 DEF own
  <1>10. n.sender \in User /\ n.content # NoLevels
    BY <1>4, SentAssumption DEF Sends
  <1>11. n.prev \subseteq 1 .. (id - 1)
    <2>1. last[f] \in 0 .. Len(events)
      BY <1>1 DEF RoomInv, RoomShape
    <2>2. QED
      BY <1>0, <1>1, <1>4, <2>1
  <1>12. OwnState(id)' = [k \in own |-> events[forks[f][k]]]
    <2>1. /\ DOMAIN OwnAuth(id)' = {KeyOf(events'[a]) : a \in n.auth}
          /\ \A a \in n.auth : OwnAuth(id)'[KeyOf(events'[a])] = a
      BY <1>1, <1>9 DEF OwnAuth
    <2>2. \A a \in n.auth : events'[a] = events[a]
      BY <1>1, <1>5
    <2>3. DOMAIN OwnAuth(id)' = own
      <3>1. DOMAIN OwnAuth(id)' \subseteq own
        BY <1>5, <2>1, <2>2
      <3>2. own \subseteq DOMAIN OwnAuth(id)'
        BY <1>6, <2>1, <2>2
      <3>3. QED
        BY <3>1, <3>2
    <2>4. \A k \in own : OwnAuth(id)'[k] = forks[f][k] /\ forks[f][k] \in n.auth
      BY <1>6, <2>1, <2>2
    <2>5. OwnState(id)' = [k \in DOMAIN OwnAuth(id)' |-> events'[OwnAuth(id)'[k]]]
      BY DEF OwnState
    <2>6. QED
      BY <2>2, <2>3, <2>4, <2>5
  <1>13. PrevRec(events[id].prev)' = PrevRec(n.prev)
    <2>1. \A p \in n.prev : events'[p] = events[p]
      BY <1>0, <1>1, <1>11
    <2> DEFINE P == n.prev
               first == P # {} /\ \A p \in P : events[p].type = "create" /\ events[p].prev = {}
               later == P # {} /\ \A p \in P : events'[p].type = "create" /\ events'[p].prev = {}
    <2>2. first <=> later
      BY <2>1
    <2>3. PrevRec(n.prev) = [first |-> first] /\ PrevRec(events[id].prev)' = [first |-> later]
      BY <1>1 DEF PrevRec
    <2> HIDE DEF first, later
    <2>4. QED
      BY <2>2, <2>3
  <1>14. ASSUME NEW e \in DOMAIN events'
         PROVE  /\ \A a, b \in auth(e) : KeyOf(events'[a]) = KeyOf(events'[b]) => a = b
                /\ \A a \in auth(e) : KeyOf(events'[a]) \in AuthTypes(events'[e])
                /\ events'[e].sender \in User /\ events'[e].content # NoLevels
                /\ events'[e].prev \subseteq 1 .. (e - 1)
                /\ Verdict(StateRec(OwnState(e)'), events'[e], PrevRec(events[e].prev)') = "allow"
    <2>1. CASE e = id
      <3>1. Verdict(StateRec(OwnState(id)'), events'[id], PrevRec(events[id].prev)') = "allow"
        BY <1>1, <1>7, <1>12, <1>13
      <3>2. QED
        BY <1>1, <1>9, <1>10, <1>11, <2>1, <3>1
    <2>2. CASE e # id
      <3>1. e \in DOMAIN events
        BY <1>0, <1>1, <1>14, <2>2
      <3>2. QED
        BY <1>8, <3>1
    <2>3. QED
      BY <2>1, <2>2
  <1>15. QED
    BY <1>14 DEF Accepted

(* The state of a fork keeps up with what the fork has seen.               *)
LEMMA NewestStep ==
  ASSUME RoomInv, NEW S, NEW f, NEW ev, Sends(S, f, ev)
  PROVE  Newest'
  <1>0. PICK id : id = Len(events) + 1
    OBVIOUS
  <1>1. /\ Len(events) \in Nat /\ DOMAIN events = 1 .. Len(events)
        /\ events'[id] = Sent(f, ev)
        /\ \A e \in DOMAIN events : events'[e] = events[e] /\ e < id
        /\ f \in 1 .. 2
    BY <1>0, SentFacts
  <1>2. \A i \in 1 .. 2 : \A x \in Past(i) :
          KeyOf(events[x]) \in DOMAIN forks[i] /\ x <= forks[i][KeyOf(events[x])]
    BY DEF RoomInv, Newest
  <1>3. \A i \in 1 .. 2 : /\ Past(i)' \subseteq Past(i) \cup {id}
                          /\ i \notin S => Past(i)' \subseteq Past(i)
                          /\ Past(i) \subseteq DOMAIN events
    BY <1>0, PastGrows
  <1>4. KeyOf(events'[id]) = KeyOf(ev)
    BY <1>1, SentFields
  <1>5. ASSUME NEW i \in 1 .. 2, NEW x \in Past(i)'
        PROVE  KeyOf(events'[x]) \in DOMAIN forks'[i] /\ x <= forks'[i][KeyOf(events'[x])]
    <2>1. CASE i \in S
      <3>1. /\ forks[i] = forks[f]
            /\ DOMAIN forks'[i] = DOMAIN forks[i] \cup {KeyOf(ev)} /\ forks'[i][KeyOf(ev)] = id
            /\ \A k \in DOMAIN forks[i] : k # KeyOf(ev) => forks'[i][k] = forks[i][k]
        BY <1>0, <2>1, SentForks
      <3>2. id <= id
        BY <1>0, <1>1
      <3>3. CASE x = id
        BY <1>4, <3>1, <3>2, <3>3
      <3>4. CASE x \in Past(i)
        <4>1. events'[x] = events[x] /\ x < id /\ x \in Nat
          BY <1>1, <1>3, <3>4
        <4>2. KeyOf(events[x]) \in DOMAIN forks[i] /\ x <= forks[i][KeyOf(events[x])]
          BY <1>2, <3>4
        <4>3. x <= id
          BY <1>0, <1>1, <4>1
        <4>4. QED
          BY <3>1, <4>1, <4>2, <4>3
      <3>5. QED
        BY <1>3, <1>5, <3>3, <3>4
    <2>2. CASE i \notin S
      <3>1. x \in Past(i) /\ x \in DOMAIN events
        BY <1>3, <1>5, <2>2
      <3>2. forks'[i] = forks[i]
        BY <1>0, <2>2, SentFacts
      <3>3. QED
        BY <1>1, <1>2, <3>1, <3>2
    <2>3. QED
      BY <2>1, <2>2
  <1>6. QED
    BY <1>5 DEF Newest

(* What is sent on a fork names the newest events.                         *)
LEMMA NamesStep ==
  ASSUME RoomInv, NEW S, NEW f, NEW ev, Sends(S, f, ev)
  PROVE  NamesNewest'
  <1>0. PICK id : id = Len(events) + 1
    OBVIOUS
  <1>1. /\ Len(events) \in Nat /\ DOMAIN events = 1 .. Len(events) /\ DOMAIN events' = 1 .. id
        /\ events'[id] = Sent(f, ev)
        /\ \A e \in DOMAIN events : events'[e] = events[e] /\ e < id
        /\ f \in 1 .. 2
    BY <1>0, SentFacts
  <1>h. Len(History) \in Nat
    BY HistoryAssumption
  <1>2. ASSUME NEW e \in DOMAIN events', NEW h \in DOMAIN events', h <= Len(History), Len(History) < e,
               KeyOf(events'[h]) \in AuthTypes(events'[e])
        PROVE  \E a \in events'[e].auth : KeyOf(events'[a]) = KeyOf(events'[h]) /\ h <= a
    <2>0. h \in DOMAIN events /\ events'[h] = events[h]
      BY <1>0, <1>1, <1>2, <1>h
    <2>1. CASE e = id
      <3>1. AuthTypes(events'[e]) = AuthTypes(ev) /\ events'[e].auth = Sent(f, ev).auth
        BY <1>1, <2>1, SentFields
      <3>2. h \in Past(f)
        BY <1>2, <2>0 DEF Past
      <3>3. KeyOf(events[h]) \in DOMAIN forks[f] /\ h <= forks[f][KeyOf(events[h])]
        BY <1>1, <3>2 DEF RoomInv, Newest
      <3> DEFINE a == forks[f][KeyOf(events[h])]
      <3>4. a \in Sent(f, ev).auth /\ a \in DOMAIN events /\ KeyOf(events[a]) = KeyOf(events[h])
        BY <1>1, <1>2, <2>0, <3>1, <3>3, SentAuth DEF RoomInv, RoomShape
      <3>5. KeyOf(events'[a]) = KeyOf(events'[h]) /\ h <= a /\ a \in events'[e].auth
        BY <1>1, <2>0, <3>1, <3>3, <3>4
      <3>6. QED
        BY <3>5
    <2>2. CASE e # id
      <3>1. e \in DOMAIN events /\ events'[e] = events[e]
        BY <1>0, <1>1, <1>2, <2>2
      <3>2. PICK a \in events[e].auth : KeyOf(events[a]) = KeyOf(events[h]) /\ h <= a
        BY <1>2, <2>0, <3>1 DEF RoomInv, NamesNewest
      <3>3. a \in DOMAIN events
        <4>1. a \in 1 .. (e - 1)
          BY <3>1 DEF RoomInv, ChainsClosed
        <4>2. QED
          BY <1>1, <3>1, <4>1
      <3>4. KeyOf(events'[a]) = KeyOf(events'[h]) /\ a \in events'[e].auth
        BY <1>1, <2>0, <3>1, <3>2, <3>3
      <3>5. QED
        BY <3>2, <3>4
    <2>3. QED
      BY <2>1, <2>2
  <1>3. QED
    BY <1>2 DEF NamesNewest

(* An event is checked against the one it replaces.                        *)
LEMMA SelectsOwnKey ==
  ASSUME NEW ev, KeyOf(ev) \in Rooted
  PROVE  KeyOf(ev) \in AuthTypes(ev)
  <1>1. CASE KeyOf(ev) = Levels
    BY <1>1 DEF KeyOf, Levels, AuthTypes
  <1>2. ASSUME NEW u \in User, KeyOf(ev) = Member(u) PROVE KeyOf(ev) \in AuthTypes(ev)
    <2>1. ev.type = "member" /\ ev.state_key = u
      BY <1>2 DEF KeyOf, Member
    <2>2. QED
      BY <1>2, <2>1 DEF AuthTypes
  <1>3. QED
    BY <1>1, <1>2 DEF Rooted

(* Power levels and member events descend from their predecessors.         *)
LEMMA DescentStep ==
  ASSUME RoomInv, NEW S, NEW f, NEW ev, Sends(S, f, ev)
  PROVE  Descent'
  <1>0. PICK id : id = Len(events) + 1
    OBVIOUS
  <1>1. /\ Len(events) \in Nat /\ DOMAIN events = 1 .. Len(events)
        /\ events'[id] = Sent(f, ev)
        /\ \A e \in DOMAIN events : events'[e] = events[e]
        /\ f \in 1 .. 2
    BY <1>0, SentFacts
  <1>2. \A i \in 1 .. 2 : \A x \in Past(i) : KeyOf(events[x]) \in Rooted =>
          \/ x = forks[i][KeyOf(events[x])]
          \/ x \in events[forks[i][KeyOf(events[x])]].chain
    BY DEF RoomInv, Descent
  <1>3. \A i \in 1 .. 2 : /\ Past(i)' \subseteq Past(i) \cup {id}
                          /\ i \notin S => Past(i)' \subseteq Past(i)
                          /\ Past(i) \subseteq DOMAIN events
    BY <1>0, PastGrows
  <1>4. KeyOf(events'[id]) = KeyOf(ev) /\ events'[id].chain = Sent(f, ev).chain
    BY <1>1, SentFields
  <1>5. \A i \in 1 .. 2 : \A x \in Past(i) : KeyOf(events[x]) \in DOMAIN forks[i]
    BY DEF RoomInv, Newest
  <1>6. \A i \in 1 .. 2 : \A k \in DOMAIN forks[i] : forks[i][k] \in DOMAIN events
    BY DEF RoomInv, RoomShape
  <1>7. ASSUME NEW i \in 1 .. 2, NEW x \in Past(i)', KeyOf(events'[x]) \in Rooted
        PROVE  \/ x = forks'[i][KeyOf(events'[x])]
               \/ x \in events'[forks'[i][KeyOf(events'[x])]].chain
    <2>1. CASE i \in S
      <3>1. /\ forks[i] = forks[f]
            /\ forks'[i][KeyOf(ev)] = id
            /\ \A k \in DOMAIN forks[i] : k # KeyOf(ev) => forks'[i][k] = forks[i][k]
        BY <1>0, <2>1, SentForks
      <3>2. CASE x = id
        BY <1>4, <3>1, <3>2
      <3>3. CASE x \in Past(i)
        <4> DEFINE k == KeyOf(events[x])
                   y == forks[i][k]
        <4>1. events'[x] = events[x] /\ k \in DOMAIN forks[i] /\ k \in Rooted
          BY <1>1, <1>3, <1>5, <1>7, <3>3
        <4>2. y \in DOMAIN events /\ events'[y] = events[y]
          BY <1>1, <1>6, <4>1
        <4>3. x = y \/ x \in events[y].chain
          BY <1>2, <3>3, <4>1
        <4>4. CASE k = KeyOf(ev)
          <5>1. k \in AuthTypes(ev)
            BY <4>1, <4>4, SelectsOwnKey
          <5>2. y \in Sent(f, ev).auth
            BY <3>1, <4>1, <5>1, SentAuth
          <5>3. x \in Sent(f, ev).chain
            BY <4>3, <5>2, SentFields
          <5>4. forks'[i][KeyOf(events'[x])] = id
            BY <3>1, <4>1, <4>4
          <5>5. QED
            BY <1>4, <5>3, <5>4
        <4>5. CASE k # KeyOf(ev)
          BY <3>1, <4>1, <4>2, <4>3, <4>5
        <4>6. QED
          BY <4>4, <4>5
      <3>4. QED
        BY <1>3, <1>7, <3>2, <3>3
    <2>2. CASE i \notin S
      <3>1. x \in Past(i) /\ x \in DOMAIN events
        BY <1>3, <1>7, <2>2
      <3>2. forks'[i] = forks[i] /\ events'[x] = events[x]
        BY <1>0, <1>1, <2>2, <3>1, SentFacts
      <3>3. forks[i][KeyOf(events[x])] \in DOMAIN events
        BY <1>5, <1>6, <3>1
      <3>4. QED
        BY <1>1, <1>2, <1>7, <3>1, <3>2, <3>3
    <2>3. QED
      BY <2>1, <2>2
  <1>8. QED
    BY <1>7 DEF Descent

-----------------------------------------------------------------------------
(* resolve leaves the room alone.                                          *)
LEMMA RoomKept == RoomInv /\ UNCHANGED room => RoomInv'
  <1> SUFFICES ASSUME RoomInv, UNCHANGED room PROVE RoomInv'
    OBVIOUS
  <1>1. events' = events /\ forks' = forks /\ last' = last
    BY DEF room
  <1>2. \A e : OwnAuth(e)' = OwnAuth(e)
    BY <1>1 DEF OwnAuth
  <1>3. \A e : OwnState(e)' = OwnState(e) /\ PrevRec(events[e].prev)' = PrevRec(events[e].prev)
    BY <1>1, <1>2 DEF OwnState, PrevRec
  <1>4. \A i : Past(i)' = Past(i)
    BY <1>1 DEF Past, ChainSet
  <1>5. RoomShape' /\ Forked' /\ ChainsClosed' /\ NamesNewest'
    BY <1>1 DEF RoomInv, RoomShape, Forked, ChainsClosed, NamesNewest
  <1>6. Accepted'
    BY <1>1, <1>3 DEF RoomInv, Accepted
  <1>7. Newest' /\ Descent'
    BY <1>1, <1>4 DEF RoomInv, Newest, Descent
  <1>8. QED
    BY <1>5, <1>6, <1>7 DEF RoomInv

(* resolve leaves the room alone.                                          *)
LEMMA ResolveKeepsRoom == Resolve => UNCHANGED room
  BY DEF Resolve, NoConflict, SortControl, CheckEvent, CheckFails, SortRest, Finish

(* Every step keeps the invariant of the room.                             *)
LEMMA RoomStep == RoomInv /\ [Next]_vars => RoomInv'
  <1> SUFFICES ASSUME RoomInv, [Next]_vars PROVE RoomInv'
    OBVIOUS
  <1>1. CASE SendHistory \/ (\E ev \in Menu : SendOnFirst(ev)) \/ (\E ev \in Menu : SendOnSecond(ev))
    <2>1. PICK S, f, ev : Sends(S, f, ev)
      BY <1>1, SendsOf
    <2>2. QED
      BY <2>1, ShapeStep, ChainsStep, AcceptedStep, NewestStep, NamesStep, DescentStep DEF RoomInv
  <1>2. CASE Resolve
    BY <1>2, ResolveKeepsRoom, RoomKept
  <1>3. CASE UNCHANGED vars
    BY <1>3, RoomKept DEF vars
  <1>4. QED
    BY <1>1, <1>2, <1>3 DEF Next

(* An empty room satisfies the invariant of the room.                      *)
LEMMA RoomInit == Init => RoomInv
  <1> SUFFICES ASSUME Init PROVE RoomInv
    OBVIOUS
  <1>1. events = <<>> /\ forks = <<<<>>, <<>>>> /\ last = <<0, 0>>
    BY DEF Init
  <1>2. /\ events \in Seq({}) /\ Len(events) = 0 /\ DOMAIN events = {} /\ DOMAIN forks = 1 .. 2
        /\ \A i \in 1 .. 2 : DOMAIN forks[i] = {} /\ last[i] = 0
        /\ forks[1] = forks[2]
    BY <1>1
  <1>3. \A i \in 1 .. 2 : Past(i) = {}
    BY <1>2 DEF Past, ChainSet, Range
  <1>4. Len(History) \in Nat /\ MaxSent[1] \in Nat /\ MaxSent[2] \in Nat
    BY HistoryAssumption, BoundAssumption
  <1>5. RoomShape
    BY <1>2 DEF RoomShape
  <1>6. Forked
    BY <1>2, <1>4 DEF Forked
  <1>7. ChainsClosed /\ Accepted /\ NamesNewest
    BY <1>2 DEF ChainsClosed, Accepted, NamesNewest
  <1>8. Newest /\ Descent
    BY <1>3 DEF Newest, Descent
  <1>9. QED
    BY <1>5, <1>6, <1>7, <1>8 DEF RoomInv

-----------------------------------------------------------------------------
(* The sets that resolve works on.                                         *)

(* What the forks agree on, and what not.                                  *)
LEMMA AgreedIs ==
  ASSUME RoomInv
  PROVE  /\ \A k \in Res!Agreed :
              k \in DOMAIN forks[1] /\ k \in DOMAIN forks[2] /\ forks[1][k] = forks[2][k]
         /\ \A i \in 1 .. 2 : \A k \in DOMAIN forks[i] : k \notin Res!Agreed => forks[i][k] \in Res!Conflicting
         /\ \A x \in Res!Conflicting : \E i \in 1 .. 2 : \E k \in DOMAIN forks[i] : k \notin Res!Agreed /\ x = forks[i][k]
  <1>1. DOMAIN forks = 1 .. 2 /\ 1 \in 1 .. 2 /\ 2 \in 1 .. 2
    BY DEF RoomInv, RoomShape
  <1>2. \A k \in Res!Agreed :
          k \in DOMAIN forks[1] /\ k \in DOMAIN forks[2] /\ forks[1][k] = forks[2][k]
    BY <1>1 DEF Res!Agreed
  <1>3. \A i \in 1 .. 2 : \A k \in DOMAIN forks[i] : k \notin Res!Agreed => forks[i][k] \in Res!Conflicting
    BY <1>1 DEF Res!Conflicting
  <1>4. \A x \in Res!Conflicting : \E i \in 1 .. 2 : \E k \in DOMAIN forks[i] : k \notin Res!Agreed /\ x = forks[i][k]
    BY <1>1 DEF Res!Conflicting
  <1>5. QED
    BY <1>2, <1>3, <1>4

(* Every id is one.                                                        *)
LEMMA IdsKnown ==
  ASSUME RoomInv
  PROVE  DOMAIN events \subseteq EventId /\ DOMAIN events = 1 .. Len(events) /\ Len(events) \in Nat
  <1>1. Len(events) \in Nat /\ DOMAIN events = 1 .. Len(events)
    BY Appended DEF RoomInv, RoomShape
  <1>2. Len(events) <= Len(History) + MaxSent[1] + MaxSent[2]
    BY DEF RoomInv, Forked
  <1>3. Len(History) \in Nat /\ MaxSent[1] \in Nat /\ MaxSent[2] \in Nat
    BY HistoryAssumption, BoundAssumption
  <1>4. 1 .. Len(events) \subseteq 1 .. (Len(History) + MaxSent[1] + MaxSent[2])
    BY <1>1, <1>2, <1>3
  <1>5. QED
    BY <1>1, <1>4, BoundAssumption

(* A conflicted event has been seen by a fork.  If it is a power levels or *)
(* member event on whose key the forks agree, it is the one they agree on. *)
LEMMA ConflictedIs ==
  ASSUME RoomInv, NEW x \in Res!FullConflictedSet
  PROVE  /\ x \in DOMAIN events
         /\ \E i \in 1 .. 2 : x \in Past(i)
         /\ KeyOf(events[x]) \in Rooted \cap Res!Agreed => x = forks[1][KeyOf(events[x])]
  <1>1. x \in DOMAIN events
    BY DEF Res!FullConflictedSet
  <1>2. CASE x \in Res!Conflicting
    <2>0. PICK i \in 1 .. 2 : \E k \in DOMAIN forks[i] : k \notin Res!Agreed /\ x = forks[i][k]
      BY <1>2, AgreedIs
    <2>1. PICK k \in DOMAIN forks[i] : k \notin Res!Agreed /\ x = forks[i][k]
      BY <2>0
    <2>2. KeyOf(events[x]) = k
      BY <2>1 DEF RoomInv, RoomShape
    <2>3. x \in Past(i)
      BY <2>1 DEF Past, Range
    <2>4. QED
      BY <1>1, <2>1, <2>2, <2>3
  <1>3. CASE x \in Res!AuthChainDiff
    <2>1. PICK i \in 1 .. 2 : x \in ChainSet(i)
      <3>1. x \in UNION Res!Range(AuthChains)
        BY <1>3 DEF Res!AuthChainDiff
      <3>2. QED
        BY <3>1 DEF Res!Range, AuthChains, ChainSet
    <2>2. x \in Past(i)
      BY <2>1 DEF Past
    <2>3. ~(x \in ChainSet(1) /\ x \in ChainSet(2))
      <3>1. x \in EventId
        BY <1>1, IdsKnown
      <3>2. ~ \A j \in DOMAIN AuthChains : x \in AuthChains[j]
        BY <1>3, <3>1 DEF Res!AuthChainDiff
      <3>3. \E j \in 1 .. 2 : x \notin ChainSet(j)
        BY <3>2 DEF AuthChains, ChainSet
      <3>4. \A j \in 1 .. 2 : j = 1 \/ j = 2
        OBVIOUS
      <3>5. QED
        BY <3>3, <3>4
    <2>4. ASSUME KeyOf(events[x]) \in Rooted \cap Res!Agreed PROVE x = forks[1][KeyOf(events[x])]
      <3> DEFINE k == KeyOf(events[x])
      <3>1. x = forks[i][k] \/ x \in events[forks[i][k]].chain
        BY <2>2, <2>4 DEF RoomInv, Descent
      <3>2. k \in DOMAIN forks[1] /\ k \in DOMAIN forks[2] /\ forks[1][k] = forks[2][k] /\ forks[i][k] = forks[1][k]
        BY <2>4, AgreedIs
      <3>3. x \in events[forks[1][k]].chain => x \in ChainSet(1) /\ x \in ChainSet(2)
        BY <3>2 DEF ChainSet, Range
      <3>4. QED
        BY <2>3, <3>1, <3>2, <3>3
    <2>5. QED
      BY <1>1, <2>2, <2>4
  <1>4. QED
    BY <1>2, <1>3 DEF Res!FullConflictedSet

(* The first pass takes all power events and the conflicted events they    *)
(* rest on.                                                                *)
LEMMA ControlIs ==
  ASSUME NEW C, C \subseteq DOMAIN events
  PROVE  /\ Res!ControlEvents(C) \subseteq C
         /\ \A e \in C : IsPower(events[e]) => e \in Res!ControlEvents(C)
         /\ \A e \in Res!ControlEvents(C) : events[e].auth \cap C \subseteq Res!ControlEvents(C)
  <1>1. Res!ControlEvents(C) \subseteq C
    BY DEF Res!ControlEvents
  <1>2. \A e \in C : Outline(events[e]).power = IsPower(events[e]) /\ Outline(events[e]).auth_events = events[e].auth
    BY DEF Outline
  <1>3. ASSUME NEW e \in C, IsPower(events[e]) PROVE e \in Res!ControlEvents(C)
    BY <1>2, <1>3 DEF Res!ControlEvents, Res!AuthClosed
  <1>4. ASSUME NEW e \in Res!ControlEvents(C), NEW a \in events[e].auth \cap C PROVE a \in Res!ControlEvents(C)
    BY <1>1, <1>2, <1>4 DEF Res!ControlEvents, Res!AuthClosed, Res!AuthWithin
  <1>5. QED
    BY <1>1, <1>3, <1>4

-----------------------------------------------------------------------------
(* What the rules say of an event that is allowed, or cannot be judged.    *)

(* Outside the room one may only join, or do what is not asked for.        *)
LEMMA OutsidersMayJoin ==
  ASSUME NEW st, NEW ev, NEW prev, Verdict(st, ev, prev) = "allow", ~NotAsked(ev),
         st.members[ev.sender] \in {"leave", "ban"}
  PROVE  /\ ev.type = "member"
         /\ \/ RedeemsInvite(ev) \/ AfterCreate(prev)
            \/ ev.sender = ev.state_key /\ ev.content.membership = "join"
  <1>1. ev.type = "member"
    BY DEF Verdict, NotAsked
  <1>2. MemberVerdict(st, ev, prev) = "allow"
    BY <1>1 DEF Verdict
  <1>3. MembershipChangeOK(st, ev, prev)
    BY <1>2 DEF MemberVerdict
  <1>4. QED
    BY <1>1, <1>3 DEF MembershipChangeOK, JoinOK, InviteOK, LeaveOK, BanOK, RedeemsInvite

(* Other events need the level of their type.                              *)
LEMMA AllowedIsCovered ==
  ASSUME NEW st, NEW ev, NEW prev, Verdict(st, ev, prev) = "allow", ~NotAsked(ev), ev.type # "member"
  PROVE  UserLevel(st, ev.sender) >= SendLevel(st, ev)
  BY DEF Verdict, NotAsked, CanSend

(* With readable levels and memberships, only a third party invite cannot  *)
(* be judged, and member events under unreadable join rules.               *)
LEMMA OnlyTheseFail ==
  ASSUME NEW st, NEW ev, NEW prev, Verdict(st, ev, prev) \in {"error", "panic"},
         st.members[ev.sender] # "absent",
         ev.type = "member" => ev.state_key \in User /\ st.members[ev.state_key] # "absent",
         st.levels # NoLevels => st.levels.valid,
         ev.type = "power_levels" => ev.content.valid
  PROVE  /\ Verdict(st, ev, prev) = "error"
         /\ ev.type = "third_party_invite" \/ (ev.type = "member" /\ st.join_rule = "unreadable")
  <1>1. CASE ev.type = "create"
    BY <1>1 DEF Verdict
  <1>2. CASE ev.type = "member"
    <2>1. Verdict(st, ev, prev) \in {"reject", MemberVerdict(st, ev, prev)}
      BY <1>2 DEF Verdict
    <2>2. \/ MemberVerdict(st, ev, prev) \in {"allow", "reject"}
          \/ MemberVerdict(st, ev, prev) = "error" /\ st.join_rule = "unreadable"
      BY <1>2 DEF MemberVerdict
    <2>3. QED
      BY <1>2, <2>1, <2>2
  <1>3. CASE ev.type = "power_levels"
    <2>1. Verdict(st, ev, prev) \in {"reject", PowerLevelsVerdict(st, ev, UserLevel(st, ev.sender))}
      BY <1>3 DEF Verdict
    <2>2. PowerLevelsVerdict(st, ev, UserLevel(st, ev.sender)) \in {"allow", "reject"}
      BY <1>3 DEF PowerLevelsVerdict
    <2>3. QED
      BY <2>1, <2>2
  <1>4. CASE ev.type = "third_party_invite"
    BY <1>4 DEF Verdict
  <1>5. CASE ev.type \notin {"create", "member", "power_levels", "third_party_invite"}
    BY <1>5 DEF Verdict
  <1>6. QED
    BY <1>1, <1>2, <1>3, <1>4, <1>5

(* An accepted member event has a membership and a user it is about.       *)
LEMMA AcceptedMember ==
  ASSUME NEW st, NEW ev, NEW prev, Verdict(st, ev, prev) = "allow", ev.type = "member"
  PROVE  ev.state_key \in User /\ ev.content.membership # "absent"
  <1>1. MemberVerdict(st, ev, prev) = "allow"
    BY DEF Verdict
  <1>2. QED
    BY <1>1 DEF MemberVerdict, ContentHasMembership

(* What fetch_state answers, given the events for the keys.                *)
LEMMA StateRecIs ==
  ASSUME NEW state
  PROVE  LET st == StateRec(state)
         IN /\ st.created = (<<"create", "">> \in DOMAIN state)
            /\ \A u \in User : st.members[u] = IF Member(u) \in DOMAIN state
                                               THEN state[Member(u)].content.membership ELSE "leave"
            /\ st.levels = IF Levels \in DOMAIN state THEN state[Levels].content ELSE NoLevels
            /\ st.join_rule = IF <<"join_rules", "">> \in DOMAIN state
                              THEN state[<<"join_rules", "">>].content.join_rule ELSE "none"
  BY DEF StateRec

-----------------------------------------------------------------------------
(* What resolve knows of its events.                                       *)
LEMMA Known ==
  ASSUME RoomInv, ResolveShape
  PROVE  /\ all_conflicted \subseteq DOMAIN events
         /\ control \subseteq all_conflicted
         /\ \A e \in all_conflicted : IsPower(events[e]) => e \in control
         /\ \A e \in control : events[e].auth \cap all_conflicted \subseteq control
         /\ \A x \in all_conflicted :
              /\ \E i \in 1 .. 2 : x \in Past(i)
              /\ KeyOf(events[x]) \in Rooted \cap Res!Agreed => x = forks[1][KeyOf(events[x])]
  <1>1. all_conflicted = {} \/ all_conflicted = Res!FullConflictedSet
    BY DEF ResolveShape
  <1>2. \A x \in all_conflicted :
          /\ x \in DOMAIN events
          /\ \E i \in 1 .. 2 : x \in Past(i)
          /\ KeyOf(events[x]) \in Rooted \cap Res!Agreed => x = forks[1][KeyOf(events[x])]
    BY <1>1, ConflictedIs
  <1>3. all_conflicted \subseteq DOMAIN events /\ control = Res!ControlEvents(all_conflicted)
    BY <1>2 DEF ResolveShape
  <1>4. QED
    BY <1>2, <1>3, ControlIs

(* Each resolved event has its key.                                        *)
LEMMA ResolvedIs ==
  ASSUME RoomInv, ResolveShape, Sourced, pc # "start", NEW k \in DOMAIN resolved
  PROVE  resolved[k] \in DOMAIN events /\ KeyOf(events[resolved[k]]) = k
  <1>1. CASE resolved[k] \in all_conflicted /\ KeyOf(events[resolved[k]]) = k
    BY <1>1, Known
  <1>2. CASE k \in Res!Agreed /\ resolved[k] = forks[1][k]
    BY <1>2, AgreedIs DEF RoomInv, RoomShape
  <1>3. QED
    BY <1>1, <1>2 DEF Sourced

(* The state an event is checked against: what is resolved comes first.    *)
LEMMA AuthStateIs ==
  ASSUME RoomInv, ResolveShape, Sourced, pc # "start", NEW e \in DOMAIN events
  PROVE  /\ \A k \in DOMAIN AuthState(e) :
              AuthState(e)[k] \in DOMAIN events /\ KeyOf(events[AuthState(e)[k]]) = k
         /\ \A k \in AuthTypes(events[e]) \cap DOMAIN resolved :
              k \in DOMAIN AuthState(e) /\ AuthState(e)[k] = resolved[k]
         /\ DOMAIN AuthState(e) = DOMAIN OwnAuth(e) \cup (AuthTypes(events[e]) \cap DOMAIN resolved)
         /\ \A k \in DOMAIN OwnAuth(e) \ DOMAIN resolved : AuthState(e)[k] = OwnAuth(e)[k]
  <1>1. \A a, b \in events[e].auth : KeyOf(events[a]) = KeyOf(events[b]) => a = b
    BY DEF RoomInv, Accepted
  <1>2. events[e].auth \subseteq DOMAIN events
    <2>1. events[e].auth \subseteq 1 .. (e - 1)
      BY DEF RoomInv, ChainsClosed
    <2>2. QED
      BY <2>1, IdsKnown
  <1>3. \A k \in DOMAIN OwnAuth(e) : OwnAuth(e)[k] \in DOMAIN events /\ KeyOf(events[OwnAuth(e)[k]]) = k
    BY <1>1, <1>2, OwnAuthIs
  <1>4. \A k \in DOMAIN resolved : resolved[k] \in DOMAIN events /\ KeyOf(events[resolved[k]]) = k
    BY ResolvedIs
  <1>5. /\ DOMAIN ResolvedAuth(e) = AuthTypes(events[e]) \cap DOMAIN resolved
        /\ \A k \in DOMAIN ResolvedAuth(e) : ResolvedAuth(e)[k] = resolved[k]
    BY DEF ResolvedAuth
  <1>6. /\ DOMAIN AuthState(e) = DOMAIN OwnAuth(e) \cup DOMAIN ResolvedAuth(e)
        /\ \A k \in DOMAIN AuthState(e) :
             AuthState(e)[k] = IF k \in DOMAIN ResolvedAuth(e) THEN ResolvedAuth(e)[k] ELSE OwnAuth(e)[k]
    BY DEF AuthState, Extend
  <1>7. QED
    BY <1>3, <1>4, <1>5, <1>6

-----------------------------------------------------------------------------
(* The queue of resolve.                                                   *)

(* The steps of resolve read the same room.                                *)
LEMMA ResKept ==
  ASSUME UNCHANGED room
  PROVE  /\ events' = events /\ forks' = forks /\ last' = last
         /\ Res!Agreed' = Res!Agreed
         /\ Res!FullConflictedSet' = Res!FullConflictedSet
         /\ \A C : Res!ControlEvents(C)' = Res!ControlEvents(C)
  <1>1. events' = events /\ forks' = forks /\ last' = last
    BY DEF room
  <1>2. Res!Keys' = Res!Keys
    BY <1>1 DEF Res!Keys
  <1>3. Res!Agreed' = Res!Agreed
    BY <1>1, <1>2 DEF Res!Agreed
  <1>4. Res!Conflicting' = Res!Conflicting
    BY <1>1, <1>3 DEF Res!Conflicting
  <1>5. AuthChains' = AuthChains
    BY <1>1 DEF AuthChains
  <1>6. Res!AuthChainDiff' = Res!AuthChainDiff
    BY <1>5 DEF Res!AuthChainDiff, Res!Range
  <1>7. Res!FullConflictedSet' = Res!FullConflictedSet
    BY <1>1, <1>4, <1>6 DEF Res!FullConflictedSet
  <1>8. ASSUME NEW C PROVE Res!ControlEvents(C)' = Res!ControlEvents(C)
    <2>1. \A S : Res!AuthClosed(C, S)' <=> Res!AuthClosed(C, S)
      BY <1>1 DEF Res!AuthClosed, Res!AuthWithin, Outline, LevelsReadable
    <2>2. QED
      BY <2>1 DEF Res!ControlEvents
  <1>9. QED
    BY <1>1, <1>3, <1>7, <1>8

(* The orders of a finite set are sequences of its elements.               *)
LEMMA OrdersAre ==
  ASSUME NEW S, IsFiniteSet(S), NEW s \in Res!Orders(S)
  PROVE  s \in Seq(S) /\ Range(s) = S /\ \A i, j \in DOMAIN s : s[i] = s[j] => i = j
  <1>1. Cardinality(S) \in Nat
    BY FS_CardinalityType
  <1>2. s \in [1 .. Cardinality(S) -> S]
    BY DEF Res!Orders, Res!Cardinality, Cardinality
  <1>3. Range(s) = S
    BY DEF Res!Orders, Res!Range, Range
  <1>4. \A i, j \in DOMAIN s : s[i] = s[j] => i = j
    BY DEF Res!Orders, Res!IsInjective
  <1>5. QED
    BY <1>1, <1>2, <1>3, <1>4

(* Every set of events is finite.                                          *)
LEMMA EventsFinite ==
  ASSUME RoomInv, NEW S, S \subseteq DOMAIN events
  PROVE  IsFiniteSet(S)
  <1>1. Len(events) \in Nat /\ DOMAIN events = 1 .. Len(events)
    BY IdsKnown
  <1>2. IsFiniteSet(1 .. Len(events))
    BY <1>1, FS_Interval
  <1>3. QED
    BY <1>1, <1>2, FS_Subset

(* Taking the next event off the queue.                                    *)
LEMMA HeadTail ==
  ASSUME NEW S, NEW s \in Seq(S), s # <<>>
  PROVE  /\ Head(s) \in S /\ Tail(s) \in Seq(S) /\ Head(s) \in Range(s) /\ Head(s) = s[1]
         /\ 1 \in DOMAIN s
         /\ Range(Tail(s)) \subseteq Range(s)
         /\ \A x \in Range(s) : x = Head(s) \/ x \in Range(Tail(s))
         /\ \A i \in DOMAIN Tail(s) : i \in Nat /\ i + 1 \in DOMAIN s /\ Tail(s)[i] = s[i + 1] /\ 1 <= i + 1
  <1>1. Tail(s) \in Seq(S) /\ Len(Tail(s)) = Len(s) - 1 /\ Len(s) >= 1 /\ Head(s) = s[1] /\ Head(s) \in S
    OBVIOUS
  <1>2. \A i \in DOMAIN Tail(s) : i \in Nat /\ i + 1 \in DOMAIN s /\ Tail(s)[i] = s[i + 1] /\ 1 <= i + 1
    OBVIOUS
  <1>3. \A i \in DOMAIN s : i = 1 \/ (i - 1 \in DOMAIN Tail(s) /\ s[i] = Tail(s)[i - 1])
    OBVIOUS
  <1>4. 1 \in DOMAIN s
    BY <1>1
  <1>5. Head(s) \in Range(s) /\ Range(Tail(s)) \subseteq Range(s)
    BY <1>1, <1>2, <1>4 DEF Range
  <1>6. \A x \in Range(s) : x = Head(s) \/ x \in Range(Tail(s))
    BY <1>1, <1>3, ZenonT(30) DEF Range
  <1>7. QED
    BY <1>1, <1>2, <1>4, <1>5, <1>6

(* What the rules read is the same while the room and what is resolved are. *)
LEMMA SameReads ==
  ASSUME UNCHANGED room
  PROVE  /\ \A prev : PrevRec(prev)' = PrevRec(prev)
         /\ \A e : OwnAuth(e)' = OwnAuth(e)
         /\ resolved' = resolved =>
              \A e : Answer(e)' = Answer(e) /\ NotRemoved(e)' = NotRemoved(e) /\ Covered(e)' = Covered(e)
  <1>1. events' = events
    BY DEF room
  <1>2. \A prev : PrevRec(prev)' = PrevRec(prev)
    BY <1>1 DEF PrevRec
  <1>3. \A e : OwnAuth(e)' = OwnAuth(e)
    BY <1>1 DEF OwnAuth
  <1>4. ASSUME resolved' = resolved, NEW e
        PROVE  Answer(e)' = Answer(e) /\ NotRemoved(e)' = NotRemoved(e) /\ Covered(e)' = Covered(e)
    <2>1. AuthState(e)' = AuthState(e)
      BY <1>1, <1>3, <1>4 DEF AuthState, ResolvedAuth
    <2>2. Answer(e)' = Answer(e)
      BY <1>1, <1>2, <2>1 DEF Answer
    <2>3. NotRemoved(e)' = NotRemoved(e)
      BY <1>1, <1>2, <1>4 DEF NotRemoved
    <2>4. Covered(e)' = Covered(e)
      BY <1>1, <1>4 DEF Covered
    <2>5. QED
      BY <2>2, <2>3, <2>4
  <1>5. QED
    BY <1>2, <1>3, <1>4

(* Which removals are undisputed is settled with the conflicted set.       *)
LEMMA SameRemovals ==
  ASSUME UNCHANGED room, all_conflicted' = all_conflicted, control' = control
  PROVE  /\ Removals' = Removals
         /\ \A e : Undisputed(e)' <=> Undisputed(e)
  <1>1. events' = events /\ forks' = forks
    BY DEF room
  <1>2. \A prev : PrevRec(prev)' = PrevRec(prev)
    BY SameReads
  <1>3. Removals' = Removals
    BY <1>1 DEF Removals
  <1>4. ConflictedKeys' = ConflictedKeys
    BY <1>1 DEF ConflictedKeys
  <1>5. \A S, u : About(S, u)' = About(S, u)
    BY <1>1 DEF About
  <1>6. ASSUME NEW e PROVE Undisputed(e)' <=> Undisputed(e)
    <2>1. /\ About(control, events[e].sender)' = About(control, events[e].sender)
          /\ About(all_conflicted \ {e}, events[e].state_key)' = About(all_conflicted \ {e}, events[e].state_key)
      BY <1>1 DEF About
    <2>2. QED
      BY <1>1, <1>2, <1>4, <2>1 DEF Undisputed
  <1>7. QED
    BY <1>3, <1>6

(* Doing nothing.                                                          *)
LEMMA ResolveKept == ResolveInv /\ UNCHANGED vars => ResolveInv'
  <1> SUFFICES ASSUME ResolveInv, UNCHANGED vars PROVE ResolveInv'
    OBVIOUS
  <1>1. /\ UNCHANGED room /\ events' = events /\ forks' = forks
        /\ clean' = clean /\ all_conflicted' = all_conflicted /\ control' = control
        /\ queue' = queue /\ resolved' = resolved /\ pc' = pc
    BY DEF vars, room, resolution
  <1>2. /\ Res!Agreed' = Res!Agreed
        /\ Res!FullConflictedSet' = Res!FullConflictedSet
        /\ \A C : Res!ControlEvents(C)' = Res!ControlEvents(C)
    BY <1>1, ResKept
  <1>2a. Res!ControlEvents(all_conflicted)' = Res!ControlEvents(all_conflicted)
    <2>1. PICK C : C = all_conflicted
      OBVIOUS
    <2>2. Res!ControlEvents(all_conflicted)' = Res!ControlEvents(C)'
      BY <1>1, <2>1
    <2>3. QED
      BY <1>2, <2>1, <2>2
  <1>3. ResolveShape'
    BY <1>1, <1>2, <1>2a DEF ResolveInv, ResolveShape
  <1>4. Sourced' /\ FirstPass'
    BY <1>1, <1>2 DEF ResolveInv, Sourced, FirstPass
  <1>5. \A e : Answer(e)' = Answer(e) /\ NotRemoved(e)' = NotRemoved(e) /\ Covered(e)' = Covered(e)
    BY <1>1, SameReads
  <1>6. SecondPass'
    BY <1>1, <1>2, <1>5 DEF ResolveInv, SecondPass
  <1>7. Failed'
    <2>1. (\E e \in control : e \in DOMAIN events /\ ~LevelsReadable(events[e]))
          => (\E e \in control' : e \in DOMAIN events' /\ ~LevelsReadable(events[e])')
      BY <1>1 DEF LevelsReadable
    <2>2. Answer(Head(queue))' = Answer(Head(queue))
      <3>1. PICK h : h = Head(queue)
        OBVIOUS
      <3>2. Answer(Head(queue))' = Answer(h)'
        BY <1>1, <3>1
      <3>3. QED
        BY <1>5, <3>1, <3>2
    <2>3. QED
      BY <1>1, <2>1, <2>2 DEF ResolveInv, Failed
  <1>8. WaitInOrder'
    BY <1>1 DEF ResolveInv, WaitInOrder
  <1>9. RemovalsStand'
    <2>1. Removals' = Removals /\ \A e : Undisputed(e)' <=> Undisputed(e)
      BY <1>1, SameRemovals
    <2>2. QED
      BY <1>1, <2>1 DEF ResolveInv, RemovalsStand, Stands
  <1>10. QED
    BY <1>3, <1>4, <1>6, <1>7, <1>8, <1>9 DEF ResolveInv

-----------------------------------------------------------------------------
(* The steps before and after the two passes.                              *)

(* Sending comes before resolve.                                           *)
LEMMA SendKeepsResolve ==
  ASSUME ResolveInv, NEW S, NEW f, NEW ev, Sends(S, f, ev)
  PROVE  ResolveInv'
  <1>1. pc = "start" /\ pc' = "start" /\ all_conflicted' = {} /\ control' = {} /\ queue' = queue /\ queue \in Seq({})
    BY DEF Sends, resolution, ResolveInv, ResolveShape
  <1>2. Res!ControlEvents(all_conflicted)' = {}
    BY <1>1 DEF Res!ControlEvents
  <1>3. ResolveShape'
    BY <1>1, <1>2 DEF ResolveShape
  <1>4. Removals' = {}
    BY <1>1 DEF Removals
  <1>5. RemovalsStand'
    BY <1>4 DEF RemovalsStand
  <1>6. Sourced' /\ FirstPass' /\ SecondPass' /\ Failed' /\ WaitInOrder'
    BY <1>1 DEF Sourced, FirstPass, SecondPass, Failed, WaitInOrder
  <1>7. QED
    BY <1>3, <1>5, <1>6 DEF ResolveInv

(* The forks agree on everything.                                          *)
LEMMA NoConflictStep == RoomInv /\ ResolveInv /\ NoConflict => ResolveInv'
  <1> SUFFICES ASSUME RoomInv, ResolveInv, NoConflict PROVE ResolveInv'
    OBVIOUS
  <1>1. /\ UNCHANGED room /\ pc = "start" /\ pc' = "done"
        /\ clean' = [k \in Res!Agreed |-> forks[1][k]] /\ resolved' = clean'
        /\ all_conflicted' = all_conflicted /\ control' = control /\ queue' = queue
    BY DEF NoConflict, Res!NoConflict, Res!Separated
  <1>2. all_conflicted' = {} /\ control' = {} /\ queue' \in Seq({})
    BY <1>1 DEF ResolveInv, ResolveShape
  <1>3. Res!Agreed' = Res!Agreed /\ forks' = forks
    BY <1>1, ResKept
  <1>4. DOMAIN resolved' = Res!Agreed /\ \A k \in Res!Agreed : resolved'[k] = forks[1][k]
    BY <1>1
  <1>5. Res!ControlEvents(all_conflicted)' = {}
    BY <1>2 DEF Res!ControlEvents
  <1>6. ResolveShape'
    BY <1>1, <1>2, <1>3, <1>4, <1>5 DEF ResolveShape
  <1>7. Sourced' /\ SecondPass'
    BY <1>3, <1>4 DEF Sourced, SecondPass
  <1>8. Removals' = {}
    BY <1>2 DEF Removals
  <1>9. RemovalsStand' /\ FirstPass' /\ Failed' /\ WaitInOrder'
    BY <1>1, <1>8 DEF RemovalsStand, FirstPass, Failed, WaitInOrder
  <1>10. QED
    BY <1>6, <1>7, <1>9 DEF ResolveInv

(* The control events are sorted, each after those it names.               *)
LEMMA SortControlStep == RoomInv /\ ResolveInv /\ SortControl => ResolveInv'
  <1> SUFFICES ASSUME RoomInv, ResolveInv, SortControl PROVE ResolveInv'
    OBVIOUS
  <1>0. PICK C : C = Res!FullConflictedSet
    OBVIOUS
  <1>1. /\ UNCHANGED room
        /\ clean' = [k \in Res!Agreed |-> forks[1][k]] /\ resolved' = clean'
        /\ all_conflicted' = C /\ control' = Res!ControlEvents(C)
    BY <1>0 DEF SortControl, Res!SortControl, Res!Separated
  <1>2. C \subseteq DOMAIN events
    BY <1>0 DEF Res!FullConflictedSet
  <1>3. /\ control' \subseteq C
        /\ \A e \in C : IsPower(events[e]) => e \in control'
        /\ \A e \in control' : events[e].auth \cap C \subseteq control'
    BY <1>1, <1>2, ControlIs
  <1>7. /\ Res!Agreed' = Res!Agreed /\ forks' = forks /\ events' = events
        /\ Res!FullConflictedSet' = C /\ Res!ControlEvents(C)' = control'
    BY <1>0, <1>1, ResKept
  <1>8. Res!ControlEvents(all_conflicted)' = Res!ControlEvents(C)'
    BY <1>1
  <1>9. DOMAIN resolved' = Res!Agreed /\ \A k \in Res!Agreed : resolved'[k] = forks[1][k]
    BY <1>1
  <1>10. CASE \E e \in control' : ~LevelsReadable(events[e])
    <2>1. ~\A e \in control' : [x \in DOMAIN events |-> Outline(events[x])][e].levels_readable
      BY <1>2, <1>3, <1>10 DEF Outline
    <2>2. queue' = <<>> /\ pc' = "error"
      BY <2>1 DEF SortControl, Res!SortControl
    <2>3. ResolveShape'
      BY <1>1, <1>7, <1>8, <1>9, <2>2 DEF ResolveShape
    <2>4. Failed'
      <3>1. PICK e \in control' : ~LevelsReadable(events[e])
        BY <1>10
      <3>2. e \in DOMAIN events' /\ ~LevelsReadable(events[e])'
        BY <1>2, <1>3, <1>7, <3>1 DEF LevelsReadable
      <3>3. QED
        BY <3>1, <3>2 DEF Failed
    <2>5. Sourced' /\ FirstPass' /\ SecondPass' /\ WaitInOrder' /\ RemovalsStand'
      BY <1>7, <1>9, <2>2 DEF Sourced, FirstPass, SecondPass, WaitInOrder, RemovalsStand
    <2>6. QED
      BY <2>3, <2>4, <2>5 DEF ResolveInv
  <1>11. CASE \A e \in control' : LevelsReadable(events[e])
    <2>0. queue' \in Res!PowerOrders(C) /\ pc' = "control"
      <3>1. \A e \in control' : [x \in DOMAIN events |-> Outline(events[x])][e].levels_readable
        BY <1>2, <1>3, <1>11 DEF Outline
      <3>2. QED
        BY <1>0, <3>1, KnownVersion DEF SortControl, Res!SortControl
    <2>1. queue' \in Seq(control') /\ Range(queue') = control' /\ \A i, j \in DOMAIN queue' : queue'[i] = queue'[j] => i = j
      <3>1. queue' \in Res!Orders(control')
        BY <1>1, <2>0 DEF Res!PowerOrders
      <3>2. IsFiniteSet(control')
        BY <1>2, <1>3, EventsFinite
      <3>3. QED
        BY <3>1, <3>2, OrdersAre
    <2>2. queue' \in Seq(C)
      BY <1>3, <2>1
    <2>3. ResolveShape'
      BY <1>1, <2>0, <2>1, <2>2, <1>7, <1>8, <1>9 DEF ResolveShape
    <2>4. Sourced' /\ FirstPass' /\ SecondPass' /\ Failed'
      BY <2>0, <1>7, <1>9 DEF Sourced, FirstPass, SecondPass, Failed
    <2>5. WaitInOrder'
      <3>1. \A i \in DOMAIN queue' : events[queue'[i]].auth \cap C \subseteq {queue'[j] : j \in 1 .. (i - 1)}
        <4>1. \A i \in DOMAIN queue' : Res!AuthWithin(C, queue'[i]) \subseteq {queue'[j] : j \in 1 .. (i - 1)}
          BY <2>0 DEF Res!PowerOrders
        <4>2. \A e \in DOMAIN events : Res!AuthWithin(C, e) = events[e].auth \cap C
          BY DEF Res!AuthWithin, Outline
        <4>3. \A i \in DOMAIN queue' : queue'[i] \in DOMAIN events
          BY <1>2, <2>2
        <4>4. QED
          BY <4>1, <4>2, <4>3
      <3>2. DOMAIN queue' = 1 .. Len(queue') /\ Len(queue') \in Nat
        BY <2>1
      <3>3. ASSUME NEW i \in DOMAIN queue', NEW j \in DOMAIN queue', i <= j, queue'[j] \in events[queue'[i]].auth
            PROVE  FALSE
        <4>1. queue'[j] \in C
          BY <2>2, <3>3
        <4>2. PICK l \in 1 .. (i - 1) : queue'[j] = queue'[l]
          BY <3>1, <3>3, <4>1
        <4>3. l \in DOMAIN queue' /\ l # j
          BY <3>2, <3>3
        <4>4. QED
          BY <2>1, <4>2, <4>3
      <3>4. \A e \in control' : e \in Range(queue')
        BY <2>1
      <3>5. QED
        BY <1>7, <3>3, <3>4 DEF WaitInOrder
    <2>6. RemovalsStand'
      <3>1. \A e \in Removals' : e \in Range(queue')
        BY <1>1, <1>3, <2>1, <1>7 DEF Removals, RemovedByAnother, IsPower
      <3>2. QED
        BY <2>0, <3>1 DEF RemovalsStand
    <2>7. QED
      BY <2>3, <2>4, <2>5, <2>6 DEF ResolveInv
  <1>12. QED
    BY <1>10, <1>11

(* While resolve runs, the sets it works on stay.                          *)
LEMMA SetsKept ==
  ASSUME UNCHANGED room, clean' = clean, all_conflicted' = all_conflicted, control' = control
  PROVE  /\ Res!Agreed' = Res!Agreed /\ Res!FullConflictedSet' = Res!FullConflictedSet
         /\ events' = events /\ forks' = forks
         /\ Res!ControlEvents(all_conflicted)' = Res!ControlEvents(all_conflicted)
  <1>1. PICK C : C = all_conflicted
    OBVIOUS
  <1>2. /\ Res!Agreed' = Res!Agreed /\ Res!FullConflictedSet' = Res!FullConflictedSet
        /\ events' = events /\ forks' = forks
        /\ Res!ControlEvents(C)' = Res!ControlEvents(C)
    BY ResKept
  <1>3. Res!ControlEvents(all_conflicted)' = Res!ControlEvents(C)'
    BY <1>1
  <1>4. QED
    BY <1>1, <1>2, <1>3

(* An event that auth_check cannot judge.                                  *)
LEMMA CheckFailsStep == RoomInv /\ ResolveInv /\ CheckFails => ResolveInv'
  <1> SUFFICES ASSUME RoomInv, ResolveInv, CheckFails PROVE ResolveInv'
    OBVIOUS
  <1>1. /\ UNCHANGED room /\ pc \in {"control", "rest"} /\ pc' = "error"
        /\ clean' = clean /\ all_conflicted' = all_conflicted /\ control' = control
        /\ queue' = queue /\ resolved' = resolved
        /\ queue # <<>> /\ Answer(Head(queue)) \in {"error", "panic"}
    BY DEF CheckFails, Res!CheckFails
  <1>2. /\ Res!Agreed' = Res!Agreed /\ Res!FullConflictedSet' = Res!FullConflictedSet
        /\ events' = events /\ forks' = forks
        /\ Res!ControlEvents(all_conflicted)' = Res!ControlEvents(all_conflicted)
    BY <1>1, SetsKept
  <1>3. ResolveShape'
    BY <1>1, <1>2 DEF ResolveInv, ResolveShape
  <1>4. Sourced'
    BY <1>1, <1>2 DEF ResolveInv, Sourced
  <1>5. Failed'
    <2>1. \A e : Answer(e)' = Answer(e)
      BY <1>1, SameReads
    <2>2. Answer(Head(queue))' = Answer(Head(queue))
      <3>1. PICK h : h = Head(queue)
        OBVIOUS
      <3>2. Answer(Head(queue))' = Answer(h)'
        BY <1>1, <3>1
      <3>3. QED
        BY <2>1, <3>1, <3>2
    <2>3. QED
      BY <1>1, <2>2 DEF Failed
  <1>6. FirstPass' /\ SecondPass' /\ WaitInOrder' /\ RemovalsStand'
    BY <1>1 DEF FirstPass, SecondPass, WaitInOrder, RemovalsStand
  <1>7. QED
    BY <1>3, <1>4, <1>5, <1>6 DEF ResolveInv

(* The remaining events are sorted.                                        *)
LEMMA SortRestStep == RoomInv /\ ResolveInv /\ SortRest => ResolveInv'
  <1> SUFFICES ASSUME RoomInv, ResolveInv, SortRest PROVE ResolveInv'
    OBVIOUS
  <1>1. /\ UNCHANGED room /\ pc = "control" /\ queue = <<>> /\ pc' = "rest"
        /\ clean' = clean /\ all_conflicted' = all_conflicted /\ control' = control
        /\ resolved' = resolved
    BY DEF SortRest, Res!SortRest
  <1>2. PICK T \in SUBSET (all_conflicted \ control) : queue' \in Res!Orders(T)
    BY DEF SortRest, Res!SortRest, Res!EventsToResolve
  <1>3. /\ Res!Agreed' = Res!Agreed /\ Res!FullConflictedSet' = Res!FullConflictedSet
        /\ events' = events /\ forks' = forks
        /\ Res!ControlEvents(all_conflicted)' = Res!ControlEvents(all_conflicted)
    BY <1>1, SetsKept
  <1>4. queue' \in Seq(T) /\ Range(queue') = T
    <2>1. all_conflicted \subseteq DOMAIN events
      BY Known DEF ResolveInv
    <2>2. IsFiniteSet(T)
      BY <2>1, EventsFinite
    <2>3. QED
      BY <1>2, <2>2, OrdersAre
  <1>5. queue' \in Seq(all_conflicted')
    BY <1>1, <1>4
  <1>6. ResolveShape'
    BY <1>1, <1>3, <1>4, <1>5 DEF ResolveInv, ResolveShape
  <1>7. Sourced'
    BY <1>1, <1>3 DEF ResolveInv, Sourced
  <1>8. SecondPass'
    BY <1>1, <1>3 DEF ResolveInv, FirstPass, SecondPass
  <1>9. RemovalsStand'
    <2>1. Removals' = Removals /\ \A e : Undisputed(e)' <=> Undisputed(e)
      BY <1>1, SameRemovals
    <2>2. Range(queue) = {}
      BY <1>1 DEF Range
    <2>3. \A e \in Removals : Undisputed(e) => Stands(e)
      BY <1>1, <2>2 DEF ResolveInv, RemovalsStand
    <2>4. \A e : Stands(e) => Stands(e)'
      BY <1>1, <1>3 DEF Stands
    <2>5. QED
      BY <1>1, <2>1, <2>3, <2>4 DEF RemovalsStand
  <1>10. FirstPass' /\ Failed' /\ WaitInOrder'
    BY <1>1 DEF FirstPass, Failed, WaitInOrder
  <1>11. QED
    BY <1>6, <1>7, <1>8, <1>9, <1>10 DEF ResolveInv

(* A removal is never of a user on whom the forks agree.                   *)
LEMMA RemovalConflicts ==
  ASSUME RoomInv, ResolveInv, NEW e \in Removals
  PROVE  /\ e \in all_conflicted /\ e \in DOMAIN events /\ e \in control
         /\ events[e].state_key \in User /\ events[e].sender \in User
         /\ events[e].type = "member" /\ KeyOf(events[e]) = Member(events[e].state_key)
         /\ Member(events[e].state_key) \notin Res!Agreed
  <1>1. /\ e \in all_conflicted /\ e > Len(History) /\ events[e].type = "member" /\ RemovedByAnother(events[e])
    BY DEF Removals
  <1>2. e \in DOMAIN events /\ (IsPower(events[e]) => e \in control)
    BY <1>1, Known DEF ResolveInv
  <1>3. e \in control
    BY <1>1, <1>2 DEF IsPower, RemovedByAnother
  <1>4. events[e].state_key \in User /\ events[e].sender \in User
    BY <1>1, <1>2, AcceptedMember DEF RoomInv, Accepted
  <1>5. KeyOf(events[e]) = Member(events[e].state_key)
    BY <1>1 DEF KeyOf, Member
  <1>6. ASSUME Member(events[e].state_key) \in Res!Agreed PROVE FALSE
    <2>1. Member(events[e].state_key) \in Rooted
      BY <1>4 DEF Rooted
    <2>2. e = forks[1][Member(events[e].state_key)]
      BY <1>1, <1>5, <1>6, <2>1, Known DEF ResolveInv
    <2>3. e <= Len(History)
      BY <1>6, <2>2, AgreedIs DEF RoomInv, Forked
    <2>4. e \in Nat /\ Len(History) \in Nat
      BY <1>2, IdsKnown, HistoryAssumption
    <2>5. QED
      BY <1>1, <2>3, <2>4
  <1>7. QED
    BY <1>1, <1>2, <1>3, <1>4, <1>5, <1>6

(* The agreed state is put on top; power levels and memberships agreed     *)
(* upon were in force before.                                              *)
LEMMA AgreedInForce ==
  ASSUME RoomInv, ResolveInv, pc # "start", NEW k \in Rooted \cap Res!Agreed
  PROVE  k \in DOMAIN resolved /\ resolved[k] = forks[1][k]
  <1>1. k \in DOMAIN resolved
    BY DEF ResolveInv, ResolveShape
  <1>2. \/ resolved[k] \in all_conflicted /\ KeyOf(events[resolved[k]]) = k
        \/ resolved[k] = forks[1][k]
    BY <1>1 DEF ResolveInv, Sourced
  <1>3. QED
    BY <1>1, <1>2, Known DEF ResolveInv

(* The end of the second pass keeps the invariant.                         *)
LEMMA FinishStep == RoomInv /\ ResolveInv /\ Finish => ResolveInv'
  <1> SUFFICES ASSUME RoomInv, ResolveInv, Finish PROVE ResolveInv'
    OBVIOUS
  <1>1. /\ UNCHANGED room /\ pc = "rest" /\ queue = <<>> /\ pc' = "done" /\ queue' = queue
        /\ clean' = clean /\ all_conflicted' = all_conflicted /\ control' = control
        /\ resolved' = Res!Extended
    BY DEF Finish, Res!Finish
  <1>2. /\ Res!Agreed' = Res!Agreed /\ Res!FullConflictedSet' = Res!FullConflictedSet
        /\ events' = events /\ forks' = forks
        /\ Res!ControlEvents(all_conflicted)' = Res!ControlEvents(all_conflicted)
    BY <1>1, SetsKept
  <1>3. clean = [k \in Res!Agreed |-> forks[1][k]] /\ Res!Agreed \subseteq DOMAIN resolved
    BY <1>1 DEF ResolveInv, ResolveShape
  <1>4. /\ DOMAIN resolved' = DOMAIN resolved
        /\ \A k \in Res!Agreed : resolved'[k] = forks[1][k]
        /\ \A k \in DOMAIN resolved : k \notin Res!Agreed => resolved'[k] = resolved[k]
    BY <1>1, <1>3 DEF Res!Extended
  <1>5. \A k \in DOMAIN resolved : k \in Rooted => resolved'[k] = resolved[k]
    BY <1>1, <1>4, AgreedInForce
  <1>6. ResolveShape'
    BY <1>1, <1>2, <1>3, <1>4 DEF ResolveInv, ResolveShape
  <1>7. Sourced'
    BY <1>1, <1>2, <1>4 DEF ResolveInv, Sourced
  <1>8. SecondPass'
    <2>1. ASSUME NEW k \in DOMAIN resolved \ Res!Agreed, resolved[k] \notin control
          PROVE  NotRemoved(events[resolved[k]])' /\ Covered(events[resolved[k]])'
      <3>1. PICK ev : ev = events[resolved[k]]
        OBVIOUS
      <3>2. NotRemoved(ev) /\ Covered(ev)
        BY <1>1, <2>1, <3>1 DEF ResolveInv, SecondPass
      <3>3. Levels \in Rooted /\ (ev.sender \in User => Member(ev.sender) \in Rooted)
        BY DEF Rooted
      <3>4. ev.sender \in User
        BY <1>1, <3>1, ResolvedIs DEF ResolveInv, RoomInv, Accepted
      <3>5. NotRemoved(ev)'
        <4>1. PrevRec(ev.prev)' = PrevRec(ev.prev)
          BY <1>1, SameReads
        <4>2. QED
          BY <1>2, <1>4, <1>5, <3>2, <3>3, <3>4, <4>1 DEF NotRemoved
      <3>6. Covered(ev)'
        BY <1>2, <1>4, <1>5, <3>2, <3>3 DEF Covered
      <3>7. events'[resolved'[k]] = ev
        BY <1>2, <1>4, <2>1, <3>1
      <3>8. QED
        BY <3>1, <3>5, <3>6, <3>7, <1>4, <2>1
    <2>2. QED
      BY <1>1, <1>2, <1>4, <2>1 DEF SecondPass
  <1>9. RemovalsStand'
    <2>1. Removals' = Removals /\ \A e : Undisputed(e)' <=> Undisputed(e)
      BY <1>1, SameRemovals
    <2>2. \A e \in Removals : Undisputed(e) => Stands(e)
      BY <1>1 DEF ResolveInv, RemovalsStand
    <2>3. \A e \in Removals : Member(events[e].state_key) \notin Res!Agreed
      BY RemovalConflicts
    <2>4. \A e \in Removals : Stands(e) => Stands(e)'
      BY <1>2, <1>4, <2>3 DEF Stands
    <2>5. QED
      BY <1>1, <2>1, <2>2, <2>4 DEF RemovalsStand
  <1>10. FirstPass' /\ Failed' /\ WaitInOrder'
    BY <1>1 DEF FirstPass, Failed, WaitInOrder
  <1>11. QED
    BY <1>6, <1>7, <1>8, <1>9, <1>10 DEF ResolveInv

-----------------------------------------------------------------------------
(* The check of an event.                                                  *)

(* The state that the event is checked against, as the rules read it: what *)
(* is resolved counts, and what the event names itself where nothing is.   *)
CheckedRec(e) ==
  LET state == AuthState(e) IN StateRec([k \in DOMAIN state |-> events[state[k]]])

OwnRec(e) == StateRec(OwnState(e))

(* The state an event is checked against, beside the one it names itself.  *)
LEMMA CheckedIs ==
  ASSUME RoomInv, ResolveShape, Sourced, pc # "start", NEW e \in DOMAIN events
  PROVE  /\ Answer(e) = Verdict(CheckedRec(e), events[e], PrevRec(events[e].prev))
         /\ Verdict(OwnRec(e), events[e], PrevRec(events[e].prev)) = "allow"
         /\ OwnRec(e).created => CheckedRec(e).created
         /\ \A u \in User :
              /\ CheckedRec(e).members[u] # "absent"
              /\ Member(u) \in AuthTypes(events[e]) \cap DOMAIN resolved =>
                   CheckedRec(e).members[u] = events[resolved[Member(u)]].content.membership
              /\ Member(u) \notin DOMAIN resolved => CheckedRec(e).members[u] = OwnRec(e).members[u]
              /\ Member(u) \in DOMAIN OwnAuth(e) =>
                   OwnRec(e).members[u] = events[OwnAuth(e)[Member(u)]].content.membership
         /\ Levels \in AuthTypes(events[e]) \cap DOMAIN resolved =>
              CheckedRec(e).levels = events[resolved[Levels]].content
         /\ Levels \notin DOMAIN resolved => CheckedRec(e).levels = OwnRec(e).levels
         /\ Levels \in DOMAIN OwnAuth(e) => OwnRec(e).levels = events[OwnAuth(e)[Levels]].content
         /\ CheckedRec(e).levels # NoLevels =>
              \E l \in DOMAIN events : events[l].type = "power_levels" /\ CheckedRec(e).levels = events[l].content
         /\ CheckedRec(e).join_rule = "public" =>
              /\ <<"join_rules", "">> \in DOMAIN AuthState(e)
              /\ events[AuthState(e)[<<"join_rules", "">>]].content.join_rule = "public"
         /\ CheckedRec(e).join_rule = "unreadable" =>
              /\ <<"join_rules", "">> \in DOMAIN AuthState(e)
              /\ events[AuthState(e)[<<"join_rules", "">>]].content.join_rule = "unreadable"
  <1> DEFINE state == [k \in DOMAIN AuthState(e) |-> events[AuthState(e)[k]]]
  <1>1. /\ \A k \in DOMAIN AuthState(e) :
              AuthState(e)[k] \in DOMAIN events /\ KeyOf(events[AuthState(e)[k]]) = k
        /\ \A k \in AuthTypes(events[e]) \cap DOMAIN resolved :
              k \in DOMAIN AuthState(e) /\ AuthState(e)[k] = resolved[k]
        /\ DOMAIN AuthState(e) = DOMAIN OwnAuth(e) \cup (AuthTypes(events[e]) \cap DOMAIN resolved)
        /\ \A k \in DOMAIN OwnAuth(e) \ DOMAIN resolved : AuthState(e)[k] = OwnAuth(e)[k]
    BY AuthStateIs
  <1>2. CheckedRec(e) = StateRec(state)
    BY DEF CheckedRec
  <1>3. Answer(e) = Verdict(CheckedRec(e), events[e], PrevRec(events[e].prev))
    BY DEF Answer, CheckedRec
  <1>4. Verdict(OwnRec(e), events[e], PrevRec(events[e].prev)) = "allow"
    BY DEF RoomInv, Accepted, OwnRec
  <1>5. /\ DOMAIN state = DOMAIN AuthState(e)
        /\ \A k \in DOMAIN AuthState(e) : state[k] = events[AuthState(e)[k]]
    OBVIOUS
  <1>6. /\ DOMAIN OwnState(e) = DOMAIN OwnAuth(e)
        /\ \A k \in DOMAIN OwnAuth(e) : OwnState(e)[k] = events[OwnAuth(e)[k]]
    BY DEF OwnState
  <1> HIDE DEF state
  <1>7. OwnRec(e).created => CheckedRec(e).created
    BY <1>1, <1>2, <1>5, <1>6, StateRecIs, ZenonT(30) DEF OwnRec
  <1>8. ASSUME NEW u \in User
        PROVE  /\ CheckedRec(e).members[u] # "absent"
               /\ Member(u) \in AuthTypes(events[e]) \cap DOMAIN resolved =>
                    CheckedRec(e).members[u] = events[resolved[Member(u)]].content.membership
               /\ Member(u) \notin DOMAIN resolved => CheckedRec(e).members[u] = OwnRec(e).members[u]
               /\ Member(u) \in DOMAIN OwnAuth(e) =>
                    OwnRec(e).members[u] = events[OwnAuth(e)[Member(u)]].content.membership
    <2>1. CheckedRec(e).members[u] = IF Member(u) \in DOMAIN AuthState(e)
                                     THEN events[AuthState(e)[Member(u)]].content.membership ELSE "leave"
      <3>1. StateRec(state).members[u] = IF Member(u) \in DOMAIN state
                                         THEN state[Member(u)].content.membership ELSE "leave"
        BY StateRecIs
      <3>2. QED
        BY <1>2, <1>5, <3>1
    <2>2. OwnRec(e).members[u] = IF Member(u) \in DOMAIN OwnAuth(e)
                                 THEN events[OwnAuth(e)[Member(u)]].content.membership ELSE "leave"
      BY <1>6, StateRecIs DEF OwnRec
    <2>3. ASSUME Member(u) \in DOMAIN AuthState(e)
          PROVE  events[AuthState(e)[Member(u)]].content.membership # "absent"
      <3>1. PICK x \in DOMAIN events : x = AuthState(e)[Member(u)] /\ KeyOf(events[x]) = Member(u)
        BY <1>1, <2>3
      <3>2. events[x].type = "member"
        BY <3>1 DEF KeyOf, Member
      <3>3. QED
        BY <3>1, <3>2, AcceptedMember DEF RoomInv, Accepted
    <2>4. QED
      BY <1>1, <2>1, <2>2, <2>3
  <1>9. /\ CheckedRec(e).levels = IF Levels \in DOMAIN AuthState(e)
                                  THEN events[AuthState(e)[Levels]].content ELSE NoLevels
        /\ OwnRec(e).levels = IF Levels \in DOMAIN OwnAuth(e)
                              THEN events[OwnAuth(e)[Levels]].content ELSE NoLevels
    BY <1>2, <1>5, <1>6, StateRecIs DEF OwnRec
  <1>10. /\ Levels \in AuthTypes(events[e]) \cap DOMAIN resolved =>
              CheckedRec(e).levels = events[resolved[Levels]].content
         /\ Levels \notin DOMAIN resolved => CheckedRec(e).levels = OwnRec(e).levels
         /\ Levels \in DOMAIN OwnAuth(e) => OwnRec(e).levels = events[OwnAuth(e)[Levels]].content
    BY <1>1, <1>9
  <1>11. ASSUME CheckedRec(e).levels # NoLevels
         PROVE  \E l \in DOMAIN events : events[l].type = "power_levels" /\ CheckedRec(e).levels = events[l].content
    <2>1. Levels \in DOMAIN AuthState(e) /\ CheckedRec(e).levels = events[AuthState(e)[Levels]].content
      BY <1>9, <1>11
    <2>2. PICK l \in DOMAIN events : l = AuthState(e)[Levels] /\ KeyOf(events[l]) = Levels
      BY <1>1, <2>1
    <2>3. events[l].type = "power_levels"
      BY <2>2 DEF KeyOf, Levels
    <2>4. QED
      BY <2>1, <2>2, <2>3
  <1>12. CheckedRec(e).join_rule = "public" =>
           /\ <<"join_rules", "">> \in DOMAIN AuthState(e)
           /\ events[AuthState(e)[<<"join_rules", "">>]].content.join_rule = "public"
    BY <1>2, <1>5, StateRecIs
  <1>13. CheckedRec(e).join_rule = "unreadable" =>
           /\ <<"join_rules", "">> \in DOMAIN AuthState(e)
           /\ events[AuthState(e)[<<"join_rules", "">>]].content.join_rule = "unreadable"
    BY <1>2, <1>5, StateRecIs
  <1>14. QED
    BY <1>3, <1>4, <1>7, <1>8, <1>10, <1>11, <1>12, <1>13

(* The join rules that an event is checked against are those of a join or  *)
(* an invite, and unreadable ones are not those it names itself.           *)
LEMMA RulesNotAsked ==
  ASSUME RoomInv, ResolveShape, Sourced, pc # "start", NEW e \in DOMAIN events,
         events[e].type = "member", CheckedRec(e).join_rule = "unreadable"
  PROVE  MeetsUnreadableRules(e)
  <1> DEFINE jr == <<"join_rules", "">>
  <1>1. jr \in DOMAIN AuthState(e) /\ events[AuthState(e)[jr]].content.join_rule = "unreadable"
    BY CheckedIs
  <1>2. PICK x : x = AuthState(e)[jr]
    OBVIOUS
  <1>3. /\ x \in DOMAIN events /\ KeyOf(events[x]) = jr
        /\ jr \in DOMAIN OwnAuth(e) \cup AuthTypes(events[e])
    BY <1>1, <1>2, AuthStateIs
  <1>4. x \in Range(AuthState(e)) /\ events[x].type = "join_rules"
    BY <1>1, <1>2, <1>3 DEF Range, KeyOf
  <1>5. /\ \A a, b \in events[e].auth : KeyOf(events[a]) = KeyOf(events[b]) => a = b
        /\ \A a \in events[e].auth : KeyOf(events[a]) \in AuthTypes(events[e])
        /\ Verdict(OwnRec(e), events[e], PrevRec(events[e].prev)) = "allow"
    BY DEF RoomInv, Accepted, OwnRec
  <1>6. \A k \in DOMAIN OwnAuth(e) : OwnAuth(e)[k] \in events[e].auth /\ KeyOf(events[OwnAuth(e)[k]]) = k
    BY DEF OwnAuth
  <1> HIDE DEF jr
  <1>7. jr \in AuthTypes(events[e])
    <2>1. CASE jr \in DOMAIN OwnAuth(e)
      <3>1. PICK a : a = OwnAuth(e)[jr]
        OBVIOUS
      <3>2. a \in events[e].auth /\ KeyOf(events[a]) = jr
        BY <1>6, <2>1, <3>1
      <3>3. QED
        BY <1>5, <3>2
    <2>2. CASE jr \notin DOMAIN OwnAuth(e)
      BY <1>3, <2>2
    <2>3. QED
      BY <2>1, <2>2
  <1> USE DEF jr
  <1>8. events[e].content.membership \in {"join", "invite"}
    <2>1. \A u : Member(u) # jr
      BY DEF Member
    <2>2. jr # Levels /\ jr # <<"create", "">> /\ \A t : <<"third_party_invite", t>> # jr
      BY DEF Levels
    <2>3. ASSUME events[e].content.membership \notin {"join", "invite"} PROVE FALSE
      <3>1. PICK ev : ev = events[e]
        OBVIOUS
      <3>2. ev.type = "member" /\ ev.content.membership \notin {"join", "invite"}
        BY <2>3, <3>1
      <3>3. jr \in AuthTypes(ev)
        BY <1>7, <3>1
      <3>4. \/ jr \in {Levels, Member(ev.sender), <<"create", "">>}
            \/ jr \in {k \in {Member(ev.state_key)} : ev.type = "member"}
            \/ jr \in {<<"third_party_invite", signed.token>> :
                         signed \in IF ev.type = "member" /\ ev.content.membership = "invite"
                                    THEN ev.content.third_party_invite ELSE {}}
        <4> HIDE DEF jr
        <4>1. jr \notin {k \in {<<"join_rules", "">>} :
                           ev.type = "member" /\ ev.content.membership \in {"join", "invite"}}
          BY <3>2
        <4>2. QED
          BY <3>2, <3>3, <4>1, Zenon DEF AuthTypes
      <3>5. jr \notin {<<"third_party_invite", signed.token>> :
                         signed \in IF ev.type = "member" /\ ev.content.membership = "invite"
                                    THEN ev.content.third_party_invite ELSE {}}
        BY <2>2
      <3>6. QED
        BY <2>1, <2>2, <3>4, <3>5
    <2>4. QED
      BY <2>3
  <1>9. x \notin events[e].auth
    <2> SUFFICES ASSUME x \in events[e].auth PROVE FALSE
      OBVIOUS
    <2>1. jr \in DOMAIN OwnAuth(e)
      BY <1>3 DEF OwnAuth
    <2>2. OwnAuth(e)[jr] = x
      BY <1>3, <1>5, <1>6, <2>1
    <2>3. jr \in DOMAIN OwnState(e) /\ OwnState(e)[jr] = events[x]
      BY <2>1, <2>2 DEF OwnState
    <2>4. OwnRec(e).join_rule = "unreadable"
      BY <1>1, <1>2, <2>3, StateRecIs DEF OwnRec
    <2>5. QED
      BY <1>5, <2>4 DEF Verdict, MemberVerdict
  <1>10. QED
    BY <1>1, <1>2, <1>4, <1>8, <1>9 DEF MeetsUnreadableRules

(* What a fork has seen, it has seen with its auth chain.                  *)
LEMMA PastClosed ==
  ASSUME RoomInv, NEW i \in 1 .. 2, NEW x \in Past(i), NEW a \in events[x].chain
  PROVE  a \in Past(i)
  <1>0. /\ \A e \in DOMAIN events : events[e].chain \subseteq 1 .. (e - 1)
        /\ \A e \in DOMAIN events : \A b \in events[e].chain : events[b].chain \subseteq events[e].chain
        /\ \A y \in Range(forks[i]) : y \in DOMAIN events
    BY DEF RoomInv, ChainsClosed, RoomShape, Range
  <1>1. CASE x \in ChainSet(i)
    <2>1. PICK y \in Range(forks[i]) : x \in events[y].chain
      BY <1>1 DEF ChainSet
    <2>2. a \in events[y].chain
      BY <1>0, <2>1
    <2>3. QED
      BY <2>1, <2>2 DEF Past, ChainSet
  <1>2. CASE x \in Range(forks[i])
    BY <1>2 DEF Past, ChainSet
  <1>3. CASE x \in DOMAIN events /\ x <= Len(History)
    <2>1. a \in 1 .. (x - 1)
      BY <1>0, <1>3
    <2>2. a \in DOMAIN events /\ a <= Len(History)
      BY <1>3, <2>1, IdsKnown, HistoryAssumption
    <2>3. QED
      BY <2>2 DEF Past
  <1>4. QED
    BY <1>1, <1>2, <1>3 DEF Past

(* An event on a fork names the state that the forks agree on.             *)
LEMMA OwnIsAgreed ==
  ASSUME RoomInv, NEW k \in Res!Agreed, NEW e \in DOMAIN events, e > Len(History),
         \E i \in 1 .. 2 : e \in Past(i), k \in AuthTypes(events[e])
  PROVE  k \in DOMAIN OwnAuth(e) /\ OwnAuth(e)[k] = forks[1][k]
  <1>1. PICK i \in 1 .. 2 : e \in Past(i)
    OBVIOUS
  <1>2. PICK c : c = forks[1][k]
    OBVIOUS
  <1>3. k \in DOMAIN forks[1] /\ k \in DOMAIN forks[2] /\ forks[2][k] = c /\ forks[i][k] = c
    BY <1>2, AgreedIs
  <1>4. c \in DOMAIN events /\ KeyOf(events[c]) = k
    BY <1>2, <1>3 DEF RoomInv, RoomShape
  <1>5. c <= Len(History)
    BY <1>2, <1>3 DEF RoomInv, Forked
  <1>6. Len(History) \in Nat /\ e \in Nat /\ DOMAIN events \subseteq Nat
    BY IdsKnown, HistoryAssumption
  <1>7. Len(History) < e
    BY <1>6
  <1>8. PICK a \in events[e].auth : KeyOf(events[a]) = k /\ c <= a
    BY <1>4, <1>5, <1>7 DEF RoomInv, NamesNewest
  <1>9. a \in events[e].chain /\ a \in DOMAIN events
    <2>1. a \in events[e].chain /\ a \in 1 .. (e - 1)
      BY <1>8 DEF RoomInv, ChainsClosed
    <2>2. QED
      BY <2>1, IdsKnown
  <1>10. a \in Past(i)
    BY <1>1, <1>9, PastClosed
  <1>11. a <= c
    BY <1>3, <1>8, <1>10 DEF RoomInv, Newest
  <1>12. a = c
    BY <1>4, <1>6, <1>8, <1>9, <1>11
  <1>13. \A x, y \in events[e].auth : KeyOf(events[x]) = KeyOf(events[y]) => x = y
    BY DEF RoomInv, Accepted
  <1>14. \A b \in events[e].auth : KeyOf(events[b]) \in DOMAIN OwnAuth(e) /\ OwnAuth(e)[KeyOf(events[b])] = b
    <2>1. DOMAIN OwnAuth(e) = {KeyOf(events[b]) : b \in events[e].auth}
      BY <1>13, OwnAuthIs
    <2>2. \A b \in events[e].auth : OwnAuth(e)[KeyOf(events[b])] = b
      BY <1>13, OwnAuthIs
    <2>3. QED
      BY <2>1, <2>2
  <1>15. QED
    BY <1>2, <1>8, <1>12, <1>14

-----------------------------------------------------------------------------
(* Removals under the rules.                                               *)

(* A removal stays allowed under the same power levels while its sender    *)
(* stays in the room and its target does not become banned otherwise.      *)
LEMMA RemovalStillAllowed ==
  ASSUME NEW st, NEW now, NEW ev, NEW prev,
         ev.type = "member", RemovedByAnother(ev), Verdict(st, ev, prev) = "allow",
         st.created => now.created, now.levels = st.levels, now.join_rule # "unreadable",
         now.members[ev.sender] # "absent", now.members[ev.state_key] # "absent",
         st.members[ev.sender] = "join" => now.members[ev.sender] = "join",
         now.members[ev.state_key] = "ban" =>
           st.members[ev.state_key] = "ban" \/ ev.content.membership = "ban"
  PROVE  Verdict(now, ev, prev) = "allow"
  <1>1. st.created /\ MemberVerdict(st, ev, prev) = "allow"
    BY DEF Verdict
  <1>2. /\ ev.state_key # NoKey /\ ContentHasMembership(ev) /\ ev.state_key \in User
        /\ ~(st.levels # NoLevels /\ ~st.levels.valid)
        /\ MembershipChangeOK(st, ev, prev)
    BY <1>1 DEF MemberVerdict
  <1>3. CASE AfterCreate(prev)
    BY <1>1, <1>2, <1>3 DEF Verdict, MemberVerdict, MembershipChangeOK
  <1>4. CASE ~AfterCreate(prev)
    <2>1. ev.content.membership \in {"leave", "ban"} /\ ev.sender # ev.state_key
      BY DEF RemovedByAnother
    <2>2. st.members[ev.sender] = "join" /\ now.members[ev.sender] = "join"
      BY <1>2, <1>4, <2>1 DEF MembershipChangeOK, LeaveOK, BanOK
    <2>3. ASSUME ev.content.membership = "leave" PROVE MembershipChangeOK(now, ev, prev)
      <3>1. now.members[ev.state_key] = "ban" => st.members[ev.state_key] = "ban"
        BY <2>3
      <3>2. QED
        BY <1>2, <1>4, <2>1, <2>2, <2>3, <3>1 DEF MembershipChangeOK, LeaveOK
    <2>4. ASSUME ev.content.membership = "ban" PROVE MembershipChangeOK(now, ev, prev)
      BY <1>2, <1>4, <2>1, <2>2, <2>4 DEF MembershipChangeOK, BanOK
    <2>5. MembershipChangeOK(now, ev, prev)
      BY <2>1, <2>3, <2>4
    <2>6. QED
      BY <1>1, <1>2, <2>5 DEF Verdict, MemberVerdict
  <1>5. QED
    BY <1>3, <1>4

(* Who is out neither leaves nor joins, unless the room is public.         *)
LEMMA ReturnRefused ==
  ASSUME NEW st, NEW ev, NEW prev,
         ev.type = "member", ev.sender = ev.state_key, ev.content.membership \in {"join", "leave"},
         st.members[ev.state_key] \in {"leave", "ban"}, st.join_rule # "public", ~AfterCreate(prev)
  PROVE  Verdict(st, ev, prev) # "allow"
  <1>1. ~MembershipChangeOK(st, ev, prev)
    BY DEF MembershipChangeOK, JoinOK, LeaveOK
  <1>2. QED
    BY <1>1 DEF Verdict, MemberVerdict

-----------------------------------------------------------------------------
(* The loop of iterative_auth_check.                                       *)

(* The next event is refused, or allowed and put into the resolved state.  *)
Inserts(h) ==
  /\ Answer(h) = "allow"
  /\ DOMAIN resolved' = DOMAIN resolved \cup {KeyOf(events[h])}
  /\ resolved'[KeyOf(events[h])] = h
  /\ \A k \in DOMAIN resolved : k # KeyOf(events[h]) => resolved'[k] = resolved[k]

Checks(h) ==
  /\ UNCHANGED room /\ events' = events /\ forks' = forks
  /\ clean' = clean /\ all_conflicted' = all_conflicted /\ control' = control
  /\ pc \in {"control", "rest"} /\ pc' = pc
  /\ queue # <<>> /\ h = Head(queue) /\ queue' = Tail(queue)
  /\ h \in all_conflicted /\ h \in DOMAIN events
  /\ pc = "control" => h \in control
  /\ pc = "rest" => h \notin control
  /\ Inserts(h) \/ (Answer(h) # "allow" /\ resolved' = resolved)

(* What a check of the loop does.                                          *)
LEMMA ChecksOf ==
  ASSUME RoomInv, ResolveInv, CheckEvent
  PROVE  \E h : Checks(h)
  <1>0. PICK h : h = Head(queue)
    OBVIOUS
  <1>1. /\ UNCHANGED room /\ queue # <<>>
        /\ clean' = clean /\ all_conflicted' = all_conflicted /\ control' = control
        /\ pc \in {"control", "rest"} /\ pc' = pc /\ queue' = Tail(queue)
        /\ resolved' = IF Answer(h) = "allow" THEN Res!Insert(resolved, h) ELSE resolved
    BY <1>0 DEF CheckEvent, Res!Check, Res!InsertIfAllowed
  <1>2. events' = events /\ forks' = forks
    BY <1>1 DEF room
  <1>3. h \in all_conflicted /\ h \in Range(queue)
    BY <1>0, <1>1, HeadTail DEF ResolveInv, ResolveShape
  <1>4. h \in DOMAIN events
    BY <1>3, Known DEF ResolveInv
  <1>5. (pc = "control" => h \in control) /\ (pc = "rest" => h \notin control)
    BY <1>3 DEF ResolveInv, ResolveShape
  <1>6. Answer(h) = "allow" => Inserts(h)
    <2>1. Outline(events[h]).key = KeyOf(events[h])
      BY DEF Outline
    <2>2. Res!Insert(resolved, h) = Put(resolved, KeyOf(events[h]), h)
      BY <1>4, <2>1 DEF Res!Insert, Put
    <2>3. ASSUME Answer(h) = "allow" PROVE Inserts(h)
      <3>1. resolved' = Put(resolved, KeyOf(events[h]), h)
        BY <1>1, <2>2, <2>3
      <3>2. /\ DOMAIN resolved' = DOMAIN resolved \cup {KeyOf(events[h])}
            /\ resolved'[KeyOf(events[h])] = h
            /\ \A k \in DOMAIN resolved : k # KeyOf(events[h]) => resolved'[k] = resolved[k]
        BY <3>1 DEF Put
      <3>3. QED
        BY <2>3, <3>2 DEF Inserts
    <2>4. QED
      BY <2>3
  <1>7. QED
    BY <1>0, <1>1, <1>2, <1>3, <1>4, <1>5, <1>6 DEF Checks

(* A check keeps the shapes.                                               *)
LEMMA CheckKeepsShape ==
  ASSUME RoomInv, ResolveInv, NEW h, Checks(h)
  PROVE  ResolveShape' /\ Sourced' /\ FirstPass' /\ Failed' /\ WaitInOrder'
  <1>1. /\ UNCHANGED room /\ events' = events /\ forks' = forks
        /\ clean' = clean /\ all_conflicted' = all_conflicted /\ control' = control
        /\ pc \in {"control", "rest"} /\ pc' = pc /\ queue # <<>> /\ h = Head(queue) /\ queue' = Tail(queue)
        /\ h \in all_conflicted /\ h \in DOMAIN events /\ (pc = "control" => h \in control)
    BY DEF Checks
  <1>2. /\ Res!Agreed' = Res!Agreed /\ Res!FullConflictedSet' = Res!FullConflictedSet
        /\ Res!ControlEvents(all_conflicted)' = Res!ControlEvents(all_conflicted)
    BY <1>1, SetsKept
  <1>3. /\ DOMAIN resolved \subseteq DOMAIN resolved'
        /\ \A k \in DOMAIN resolved' : \/ k \in DOMAIN resolved /\ resolved'[k] = resolved[k]
                                       \/ k = KeyOf(events[h]) /\ resolved'[k] = h
    BY DEF Checks, Inserts
  <1>4. /\ queue' \in Seq(all_conflicted) /\ Range(queue') \subseteq Range(queue)
        /\ h \in Range(queue) /\ h = queue[1] /\ 1 \in DOMAIN queue
        /\ \A x \in Range(queue) : x = h \/ x \in Range(queue')
        /\ \A i \in DOMAIN queue' : i \in Nat /\ i + 1 \in DOMAIN queue /\ queue'[i] = queue[i + 1] /\ 1 <= i + 1
    BY <1>1, HeadTail DEF ResolveInv, ResolveShape
  <1>5. ResolveShape'
    BY <1>1, <1>2, <1>3, <1>4 DEF ResolveInv, ResolveShape
  <1>6. Sourced'
    BY <1>1, <1>2, <1>3 DEF ResolveInv, Sourced
  <1>7. FirstPass'
    BY <1>1, <1>2, <1>3 DEF ResolveInv, FirstPass
  <1>8. WaitInOrder'
    <2>1. SUFFICES ASSUME pc = "control"
                   PROVE  /\ \A i, j \in DOMAIN queue' : i <= j => queue'[j] \notin events[queue'[i]].auth
                          /\ \A e \in control : events[e].auth \cap Range(queue') # {} => e \in Range(queue')
      BY <1>1 DEF WaitInOrder
    <2>2. /\ \A i, j \in DOMAIN queue : i <= j => queue[j] \notin events[queue[i]].auth
          /\ \A e \in control : events[e].auth \cap Range(queue) # {} => e \in Range(queue)
      BY <2>1 DEF ResolveInv, WaitInOrder
    <2>3. ASSUME NEW i \in DOMAIN queue', NEW j \in DOMAIN queue', i <= j
          PROVE  queue'[j] \notin events[queue'[i]].auth
      <3>1. i + 1 <= j + 1
        BY <1>4, <2>3
      <3>2. QED
        BY <1>4, <2>2, <3>1
    <2>4. ASSUME NEW e \in control, NEW a \in events[e].auth \cap Range(queue') PROVE e \in Range(queue')
      <3>1. e \in Range(queue)
        BY <1>4, <2>2, <2>4
      <3>2. e # h
        <4>1. PICK j \in DOMAIN queue' : a = queue'[j]
          BY <2>4 DEF Range
        <4>2. QED
          BY <1>4, <2>2, <2>4, <4>1
      <3>3. QED
        BY <1>4, <3>1, <3>2
    <2>5. QED
      BY <2>3, <2>4
  <1>9. Failed'
    BY <1>1 DEF Failed
  <1>10. QED
    BY <1>5, <1>6, <1>7, <1>8, <1>9

(* In the second pass nobody is removed and no power levels are set.       *)
LEMMA RestIsHarmless ==
  ASSUME RoomInv, ResolveInv, NEW x \in all_conflicted, x \notin control
  PROVE  /\ KeyOf(events[x]) # Levels
         /\ events[x].type = "member" => ~RemovedByAnother(events[x])
  <1>1. ~IsPower(events[x])
    BY Known DEF ResolveInv
  <1>2. KeyOf(events[x]) # Levels
    BY <1>1 DEF IsPower, KeyOf, Levels
  <1>3. events[x].type = "member" => ~RemovedByAnother(events[x])
    BY <1>1 DEF IsPower, RemovedByAnother
  <1>4. QED
    BY <1>2, <1>3

(* Levels are read from the power levels event alone, if there is one.     *)
LEMMA LevelsDecide ==
  ASSUME NEW levels, levels.content # NoLevels, NEW rec, rec.levels = levels.content, NEW ev
  PROVE  LET st == [StateRec([k \in {Levels} |-> levels]) EXCEPT !.creator = NoKey]
         IN UserLevel(st, ev.sender) = UserLevel(rec, ev.sender) /\ SendLevel(st, ev) = SendLevel(rec, ev)
  <1> DEFINE one == [k \in {Levels} |-> levels]
             st == [StateRec(one) EXCEPT !.creator = NoKey]
  <1>1. StateRec(one).levels = levels.content
    BY DEF StateRec
  <1>2. st.levels = levels.content
    BY <1>1 DEF StateRec
  <1> HIDE DEF st
  <1>3. UserLevel(st, ev.sender) = UserLevel(rec, ev.sender) /\ SendLevel(st, ev) = SendLevel(rec, ev)
    BY <1>2 DEF UserLevel, SendLevel, LevelOf
  <1>4. QED
    BY <1>3 DEF st

(* What the second pass allows is covered by the result.                   *)
LEMMA CheckKeepsSecond ==
  ASSUME RoomInv, ResolveInv, NEW h, Checks(h)
  PROVE  SecondPass'
  <1>1. /\ UNCHANGED room /\ events' = events /\ forks' = forks
        /\ clean' = clean /\ all_conflicted' = all_conflicted /\ control' = control
        /\ pc \in {"control", "rest"} /\ pc' = pc
        /\ h \in all_conflicted /\ h \in DOMAIN events /\ (pc = "rest" => h \notin control)
    BY DEF Checks
  <1>2. Res!Agreed' = Res!Agreed
    BY <1>1, SetsKept
  <1>3. CASE pc = "control"
    BY <1>1, <1>3 DEF SecondPass
  <1>4. CASE pc = "rest" /\ resolved' = resolved
    <2>1. \A e : NotRemoved(e)' = NotRemoved(e) /\ Covered(e)' = Covered(e)
      BY <1>1, <1>4, SameReads
    <2>2. QED
      BY <1>1, <1>2, <1>4, <2>1 DEF ResolveInv, SecondPass
  <1>5. CASE pc = "rest" /\ Inserts(h)
    <2>0. h \notin control /\ pc # "start" /\ ResolveShape /\ Sourced
      BY <1>1, <1>5 DEF ResolveInv
    <2>1. /\ KeyOf(events[h]) # Levels
          /\ events[h].type = "member" => ~RemovedByAnother(events[h])
      BY <1>1, <2>0, RestIsHarmless
    <2>2. Levels \in DOMAIN resolved' => Levels \in DOMAIN resolved /\ resolved'[Levels] = resolved[Levels]
      BY <1>5, <2>1 DEF Inserts
    <2>3. ASSUME NEW u, Member(u) \in DOMAIN resolved', RemovedByAnother(events[resolved'[Member(u)]])
          PROVE  /\ Member(u) \in DOMAIN resolved /\ resolved'[Member(u)] = resolved[Member(u)]
                 /\ Member(u) # KeyOf(events[h])
      <3>1. KeyOf(events[h]) = Member(u) => events[h].type = "member"
        BY DEF KeyOf, Member
      <3>2. QED
        BY <1>5, <2>1, <2>3, <3>1 DEF Inserts
    <2>4. \A prev : PrevRec(prev)' = PrevRec(prev)
      BY <1>1, SameReads
    <2>5. ASSUME NEW ev, NotRemoved(ev) PROVE NotRemoved(ev)'
      BY <1>1, <2>3, <2>4, <2>5 DEF NotRemoved
    <2>6. ASSUME NEW ev, Covered(ev) PROVE Covered(ev)'
      BY <1>1, <2>2, <2>6 DEF Covered
    <2>7. PICK new : new = events[h]
      OBVIOUS
    <2>8. /\ Verdict(CheckedRec(h), new, PrevRec(new.prev)) = "allow"
          /\ \A u \in User : Member(u) \in AuthTypes(new) \cap DOMAIN resolved =>
               CheckedRec(h).members[u] = events[resolved[Member(u)]].content.membership
          /\ Levels \in AuthTypes(new) \cap DOMAIN resolved => CheckedRec(h).levels = events[resolved[Levels]].content
          /\ new.sender \in User
      <3>1. Answer(h) = "allow"
        BY <1>5 DEF Inserts
      <3>2. new.sender \in User
        BY <1>1, <2>7 DEF RoomInv, Accepted
      <3>3. QED
        BY <1>1, <2>0, <2>7, <3>1, <3>2, CheckedIs
    <2>9. ~NotAsked(new) => Levels \in AuthTypes(new) /\ Member(new.sender) \in AuthTypes(new)
      BY DEF NotAsked, AuthTypes
    <2>10. NotRemoved(new)'
      <3>1. SUFFICES ASSUME Member(new.sender) \in DOMAIN resolved', ~NotAsked(new),
                            RemovedByAnother(events[resolved'[Member(new.sender)]])
                     PROVE  new.type = "member" /\ (RedeemsInvite(new) \/ AfterCreate(PrevRec(new.prev)))
        BY <1>1, <2>4 DEF NotRemoved
      <3>2. /\ Member(new.sender) \in DOMAIN resolved /\ RemovedByAnother(events[resolved[Member(new.sender)]])
            /\ Member(new.sender) # KeyOf(new)
        BY <2>3, <2>7, <3>1
      <3>3. CheckedRec(h).members[new.sender] \in {"leave", "ban"}
        BY <2>8, <2>9, <3>1, <3>2 DEF RemovedByAnother
      <3>4. /\ new.type = "member"
            /\ \/ RedeemsInvite(new) \/ AfterCreate(PrevRec(new.prev))
               \/ new.sender = new.state_key /\ new.content.membership = "join"
        BY <2>8, <3>1, <3>3, OutsidersMayJoin
      <3>5. new.sender # new.state_key
        BY <3>2, <3>4 DEF KeyOf, Member
      <3>6. QED
        BY <3>4, <3>5
    <2>11. Covered(new)'
      <3>1. PICK levels : levels = events[resolved[Levels]]
        OBVIOUS
      <3> DEFINE st == [StateRec([k \in {Levels} |-> levels]) EXCEPT !.creator = NoKey]
      <3>2. ASSUME Levels \in DOMAIN resolved', new.type # "member", ~NotAsked(new)
            PROVE  UserLevel(st, new.sender) >= SendLevel(st, new)
        <4>1. Levels \in DOMAIN resolved /\ CheckedRec(h).levels = levels.content
          BY <2>2, <2>8, <2>9, <3>1, <3>2
        <4>2. levels.content # NoLevels
          BY <2>0, <3>1, <4>1, ResolvedIs DEF RoomInv, Accepted
        <4>3. UserLevel(CheckedRec(h), new.sender) >= SendLevel(CheckedRec(h), new)
          BY <2>8, <3>2, AllowedIsCovered
        <4>4. UserLevel(st, new.sender) = UserLevel(CheckedRec(h), new.sender) /\ SendLevel(st, new) = SendLevel(CheckedRec(h), new)
          BY <4>1, <4>2, LevelsDecide
        <4>5. QED
          BY <4>3, <4>4
      <3>3. Levels \in DOMAIN resolved' => events'[resolved'[Levels]] = levels
        BY <1>1, <2>2, <3>1
      <3>4. QED
        BY <3>2, <3>3 DEF Covered
    <2>12. ASSUME NEW k \in DOMAIN resolved' \ Res!Agreed, resolved'[k] \notin control
           PROVE  NotRemoved(events[resolved[k]])' /\ Covered(events[resolved[k]])'
      <3>1. CASE k = KeyOf(events[h])
        <4>1. events'[resolved'[k]] = new
          BY <1>1, <1>5, <2>7, <3>1 DEF Inserts
        <4>2. QED
          BY <2>10, <2>11, <4>1
      <3>2. CASE k # KeyOf(events[h])
        <4>1. PICK ev : ev = events[resolved[k]]
          OBVIOUS
        <4>2. k \in DOMAIN resolved /\ resolved'[k] = resolved[k]
          BY <1>5, <2>12, <3>2 DEF Inserts
        <4>3. NotRemoved(ev) /\ Covered(ev)
          BY <1>5, <2>12, <4>1, <4>2 DEF ResolveInv, SecondPass
        <4>4. events'[resolved'[k]] = ev /\ NotRemoved(ev)' /\ Covered(ev)'
          BY <1>1, <2>5, <2>6, <4>1, <4>2, <4>3
        <4>5. QED
          BY <4>4
      <3>3. QED
        BY <3>1, <3>2
    <2>13. QED
      BY <1>1, <1>2, <2>12 DEF SecondPass
  <1>6. QED
    BY <1>1, <1>3, <1>4, <1>5 DEF Checks

(* Nobody disputes a removal: where its check reads power levels or the    *)
(* sender's membership, it finds what the removal was accepted under.      *)
LEMMA UndisputedIsAllowed ==
  ASSUME RoomInv, ResolveInv, pc = "control", NEW e \in Removals, Undisputed(e)
  PROVE  Answer(e) = "allow"
  <1>0. /\ pc # "start" /\ ResolveShape /\ Sourced
        /\ e > Len(History) /\ RemovedByAnother(events[e])
    BY DEF ResolveInv, Removals
  <1>1. /\ e \in all_conflicted /\ e \in DOMAIN events
        /\ events[e].state_key \in User /\ events[e].sender \in User
        /\ events[e].type = "member" /\ Member(events[e].state_key) \notin Res!Agreed
    BY RemovalConflicts
  <1>2. PICK u, s : u = events[e].state_key /\ s = events[e].sender
    OBVIOUS
  <1>3. u \in User /\ s \in User /\ {Levels, Member(s), Member(u)} \subseteq AuthTypes(events[e])
    BY <1>1, <1>2 DEF AuthTypes
  <1>4. \E i \in 1 .. 2 : e \in Past(i)
    BY <1>0, <1>1, Known
  <1>5. \A k \in Res!Agreed : k \in AuthTypes(events[e]) => k \in DOMAIN OwnAuth(e) /\ OwnAuth(e)[k] = forks[1][k]
    BY <1>0, <1>1, <1>4, OwnIsAgreed
  <1>6. /\ Answer(e) = Verdict(CheckedRec(e), events[e], PrevRec(events[e].prev))
        /\ Verdict(OwnRec(e), events[e], PrevRec(events[e].prev)) = "allow"
        /\ OwnRec(e).created => CheckedRec(e).created
        /\ \A v \in {s, u} :
             /\ CheckedRec(e).members[v] # "absent"
             /\ Member(v) \in DOMAIN resolved =>
                  CheckedRec(e).members[v] = events[resolved[Member(v)]].content.membership
             /\ Member(v) \notin DOMAIN resolved => CheckedRec(e).members[v] = OwnRec(e).members[v]
             /\ Member(v) \in DOMAIN OwnAuth(e) =>
                  OwnRec(e).members[v] = events[OwnAuth(e)[Member(v)]].content.membership
        /\ Levels \in DOMAIN resolved => CheckedRec(e).levels = events[resolved[Levels]].content
        /\ Levels \notin DOMAIN resolved => CheckedRec(e).levels = OwnRec(e).levels
        /\ Levels \in DOMAIN OwnAuth(e) => OwnRec(e).levels = events[OwnAuth(e)[Levels]].content
    <2>1. /\ Answer(e) = Verdict(CheckedRec(e), events[e], PrevRec(events[e].prev))
          /\ Verdict(OwnRec(e), events[e], PrevRec(events[e].prev)) = "allow"
          /\ OwnRec(e).created => CheckedRec(e).created
          /\ \A v \in User :
               /\ CheckedRec(e).members[v] # "absent"
               /\ Member(v) \in AuthTypes(events[e]) \cap DOMAIN resolved =>
                    CheckedRec(e).members[v] = events[resolved[Member(v)]].content.membership
               /\ Member(v) \notin DOMAIN resolved => CheckedRec(e).members[v] = OwnRec(e).members[v]
               /\ Member(v) \in DOMAIN OwnAuth(e) =>
                    OwnRec(e).members[v] = events[OwnAuth(e)[Member(v)]].content.membership
          /\ Levels \in AuthTypes(events[e]) \cap DOMAIN resolved =>
               CheckedRec(e).levels = events[resolved[Levels]].content
          /\ Levels \notin DOMAIN resolved => CheckedRec(e).levels = OwnRec(e).levels
          /\ Levels \in DOMAIN OwnAuth(e) => OwnRec(e).levels = events[OwnAuth(e)[Levels]].content
      BY <1>0, <1>1, CheckedIs
    <2>2. QED
      BY <1>3, <2>1
  <1>7. \A k \in DOMAIN resolved :
          \/ resolved[k] \in all_conflicted /\ KeyOf(events[resolved[k]]) = k
          \/ k \in Res!Agreed /\ resolved[k] = forks[1][k]
    BY <1>0 DEF Sourced
  <1>8. CheckedRec(e).levels = OwnRec(e).levels
    <2>1. Levels \in DOMAIN resolved => Levels \in Res!Agreed /\ resolved[Levels] = forks[1][Levels]
      BY <1>7, ZenonT(30) DEF Undisputed, ConflictedKeys
    <2>2. QED
      BY <1>3, <1>5, <1>6, <2>1
  <1>9. OwnRec(e).members[s] = "join" => CheckedRec(e).members[s] = "join"
    <2>1. CASE Member(s) \in Res!Agreed
      <3>1. Member(s) \in Rooted
        BY <1>3 DEF Rooted
      <3>2. Member(s) \in DOMAIN resolved /\ resolved[Member(s)] = forks[1][Member(s)]
        BY <1>0, <2>1, <3>1, AgreedInForce
      <3>3. QED
        BY <1>3, <1>5, <1>6, <2>1, <3>2
    <2>2. CASE Member(s) \in DOMAIN resolved /\ Member(s) \notin Res!Agreed
      <3>1. resolved[Member(s)] \in control
        BY <2>2 DEF ResolveInv, FirstPass
      <3>2. KeyOf(events[resolved[Member(s)]]) = Member(s)
        BY <1>7, <2>2
      <3>3. events[resolved[Member(s)]].content.membership = "join"
        BY <1>2, <3>1, <3>2 DEF Undisputed, About
      <3>4. QED
        BY <1>6, <2>2, <3>3
    <2>3. CASE Member(s) \notin DOMAIN resolved
      BY <1>6, <2>3
    <2>4. QED
      BY <2>1, <2>2, <2>3
  <1>10. CheckedRec(e).members[u] = "ban" => OwnRec(e).members[u] = "ban" \/ events[e].content.membership = "ban"
    <2>1. CASE Member(u) \notin DOMAIN resolved
      BY <1>6, <2>1
    <2>2. CASE Member(u) \in DOMAIN resolved
      <3>1. resolved[Member(u)] \in all_conflicted /\ KeyOf(events[resolved[Member(u)]]) = Member(u)
        BY <1>1, <1>2, <1>7, <2>2
      <3>2. resolved[Member(u)] = e \/ events[resolved[Member(u)]].content.membership \in {"join", "leave"}
        BY <1>2, <3>1 DEF Undisputed, About
      <3>3. QED
        BY <1>6, <2>2, <3>2
    <2>3. QED
      BY <2>1, <2>2
  <1>11. CheckedRec(e).join_rule # "unreadable"
    BY <1>0, <1>1, <1>2, RulesNotAsked DEF MeetsUnreadableRules, RemovedByAnother
  <1>12. QED
    BY <1>0, <1>1, <1>2, <1>6, <1>8, <1>9, <1>10, <1>11, RemovalStillAllowed

(* The user who was removed does not get back in with what he did on the   *)
(* other fork.                                                             *)
LEMMA ReturnIsRefused ==
  ASSUME RoomInv, ResolveInv, NEW h, Checks(h), NEW e \in Removals, Undisputed(e), Stands(e),
         pc = "control" => e \notin Range(queue),
         h # e, KeyOf(events[h]) = Member(events[e].state_key)
  PROVE  Answer(h) # "allow"
  <1>0. /\ pc \in {"control", "rest"} /\ pc # "start" /\ ResolveShape /\ Sourced
        /\ h \in all_conflicted /\ h \in DOMAIN events /\ h \in Range(queue)
        /\ (pc = "rest" => h \notin control)
    <2>1. h \in Range(queue)
      BY HeadTail DEF Checks, ResolveInv, ResolveShape
    <2>2. QED
      BY <2>1 DEF Checks, ResolveInv
  <1>1. /\ e \in control /\ events[e].state_key \in User
        /\ RemovedByAnother(events[e])
    BY RemovalConflicts DEF Removals
  <1>2. PICK u : u = events[e].state_key
    OBVIOUS
  <1>3. events[h].type = "member" /\ events[h].state_key = u
    BY <1>2 DEF KeyOf, Member
  <1>4. /\ events[h].sender = u /\ events[h].content.membership \in {"join", "leave"}
        /\ AfterCreate(PrevRec(events[h].prev)) => h \in events[e].auth
    BY <1>0, <1>2, <1>3 DEF Undisputed, About
  <1>5. ~AfterCreate(PrevRec(events[h].prev))
    <2>1. SUFFICES ASSUME h \in events[e].auth PROVE FALSE
      BY <1>4
    <2>2. CASE pc = "control"
      BY <1>0, <1>1, <2>1, <2>2 DEF ResolveInv, WaitInOrder
    <2>3. CASE pc = "rest"
      BY <1>0, <1>1, <2>1, <2>3, Known
    <2>4. QED
      BY <1>0, <2>2, <2>3
  <1>6. /\ Answer(h) = Verdict(CheckedRec(h), events[h], PrevRec(events[h].prev))
        /\ Member(u) \in AuthTypes(events[h]) \cap DOMAIN resolved =>
             CheckedRec(h).members[u] = events[resolved[Member(u)]].content.membership
        /\ CheckedRec(h).join_rule = "public" =>
             /\ <<"join_rules", "">> \in DOMAIN AuthState(h)
             /\ events[AuthState(h)[<<"join_rules", "">>]].content.join_rule = "public"
    BY <1>0, <1>1, <1>2, CheckedIs
  <1>7. CheckedRec(h).members[u] \in {"leave", "ban"}
    <2>1. Member(u) \in AuthTypes(events[h])
      BY <1>3 DEF AuthTypes
    <2>2. Member(u) \in DOMAIN resolved /\ resolved[Member(u)] = e
      BY <1>2 DEF Stands
    <2>3. QED
      BY <1>1, <1>6, <2>1, <2>2 DEF RemovedByAnother
  <1>8. CheckedRec(h).join_rule # "public"
    <2>0. PICK jr : jr = <<"join_rules", "">>
      OBVIOUS
    <2>1. SUFFICES ASSUME jr \in DOMAIN AuthState(h), events[AuthState(h)[jr]].content.join_rule = "public"
                   PROVE  FALSE
      BY <1>6, <2>0
    <2>2. jr \notin ConflictedKeys /\ events[forks[1][jr]].content.join_rule # "public"
      BY <2>0 DEF Undisputed
    <2>3. CASE jr \in AuthTypes(events[h]) \cap DOMAIN resolved
      <3>1. AuthState(h)[jr] = resolved[jr]
        BY <1>0, <2>3, AuthStateIs
      <3>2. resolved[jr] = forks[1][jr]
        BY <1>0, <2>2, <2>3 DEF Sourced, ConflictedKeys
      <3>3. QED
        BY <2>1, <2>2, <3>1, <3>2
    <2>4. CASE jr \notin AuthTypes(events[h]) \cap DOMAIN resolved
      <3>1. jr \in DOMAIN OwnAuth(h)
        <4>1. DOMAIN AuthState(h) = DOMAIN OwnAuth(h) \cup (AuthTypes(events[h]) \cap DOMAIN resolved)
          BY <1>0, AuthStateIs
        <4>2. QED
          BY <2>1, <2>4, <4>1
      <3>2. PICK a \in events[h].auth : KeyOf(events[a]) = jr
        BY <3>1 DEF OwnAuth
      <3>3. jr \in AuthTypes(events[h])
        BY <1>0, <3>2 DEF RoomInv, Accepted
      <3>4. jr \notin Res!Agreed
        BY <1>0, <2>4, <3>3 DEF ResolveShape
      <3>5. PICK i \in 1 .. 2 : h \in Past(i)
        BY <1>0, Known
      <3>6. a \in events[h].chain
        BY <1>0, <3>2 DEF RoomInv, ChainsClosed
      <3>7. a \in Past(i)
        BY <3>5, <3>6, PastClosed
      <3>8. jr \in DOMAIN forks[i]
        BY <3>2, <3>7 DEF RoomInv, Newest
      <3>9. forks[i][jr] \in Res!Conflicting /\ forks[i][jr] \in DOMAIN events /\ KeyOf(events[forks[i][jr]]) = jr
        BY <3>4, <3>8, AgreedIs DEF RoomInv, RoomShape
      <3>10. forks[i][jr] \in all_conflicted
        <4>1. all_conflicted = Res!FullConflictedSet
          BY <1>0 DEF ResolveShape
        <4>2. QED
          BY <3>9, <4>1 DEF Res!FullConflictedSet
      <3>11. QED
        BY <2>2, <3>9, <3>10 DEF ConflictedKeys
    <2>5. QED
      BY <2>3, <2>4
  <1>9. QED
    BY <1>2, <1>3, <1>4, <1>5, <1>6, <1>7, <1>8, ReturnRefused

(* A check keeps what is known of removals.                                *)
LEMMA CheckKeepsRemovals ==
  ASSUME RoomInv, ResolveInv, NEW h, Checks(h)
  PROVE  RemovalsStand'
  <1>1. /\ UNCHANGED room /\ events' = events
        /\ all_conflicted' = all_conflicted /\ control' = control
        /\ pc \in {"control", "rest"} /\ pc' = pc /\ h \in all_conflicted
        /\ (pc = "rest" => h \notin control)
        /\ (resolved' = resolved \/ Inserts(h))
    BY DEF Checks
  <1>2. Removals' = Removals /\ \A e : Undisputed(e)' <=> Undisputed(e)
    BY <1>1, SameRemovals
  <1>3. \A x \in Range(queue) : x = h \/ x \in Range(queue')
    BY HeadTail DEF Checks, ResolveInv, ResolveShape
  <1>4. ASSUME NEW e \in Removals, Undisputed(e), Stands(e), pc = "control" => e \notin Range(queue)
        PROVE  Stands(e)'
    <2>1. CASE resolved' = resolved
      BY <1>1, <1>4, <2>1 DEF Stands
    <2>2. CASE Inserts(h) /\ h = e
      <3>1. KeyOf(events[e]) = Member(events[e].state_key)
        BY RemovalConflicts
      <3>2. QED
        BY <1>1, <2>2, <3>1 DEF Stands, Inserts
    <2>3. CASE Inserts(h) /\ h # e
      <3>1. KeyOf(events[h]) # Member(events[e].state_key)
        BY <1>4, <2>3, ReturnIsRefused DEF Inserts
      <3>2. QED
        BY <1>1, <1>4, <2>3, <3>1 DEF Stands, Inserts
    <2>4. QED
      BY <1>1, <2>1, <2>2, <2>3
  <1>5. ASSUME NEW e \in Removals, Undisputed(e), pc = "control"
        PROVE  e \in Range(queue') \/ Stands(e)'
    <2>1. CASE e \in Range(queue) /\ e # h
      BY <1>3, <2>1
    <2>2. CASE e = h
      <3>1. Answer(h) = "allow"
        BY <1>5, <2>2, UndisputedIsAllowed
      <3>2. Inserts(h)
        BY <3>1 DEF Checks
      <3>3. KeyOf(events[e]) = Member(events[e].state_key)
        BY RemovalConflicts
      <3>4. QED
        BY <1>1, <2>2, <3>2, <3>3 DEF Stands, Inserts
    <2>3. CASE e \notin Range(queue)
      <3>1. Stands(e)
        BY <1>5, <2>3 DEF ResolveInv, RemovalsStand
      <3>2. QED
        BY <1>4, <1>5, <2>3, <3>1
    <2>4. QED
      BY <2>1, <2>2, <2>3
  <1>6. ASSUME NEW e \in Removals, Undisputed(e), pc = "rest" PROVE Stands(e)'
    BY <1>4, <1>6 DEF ResolveInv, RemovalsStand
  <1>7. QED
    BY <1>1, <1>2, <1>5, <1>6 DEF RemovalsStand

-----------------------------------------------------------------------------
(* Every step keeps the invariant of resolve.                              *)
LEMMA ResolveStep == RoomInv /\ ResolveInv /\ [Next]_vars => ResolveInv'
  <1> SUFFICES ASSUME RoomInv, ResolveInv, [Next]_vars PROVE ResolveInv'
    OBVIOUS
  <1>1. CASE SendHistory \/ (\E ev \in Menu : SendOnFirst(ev)) \/ (\E ev \in Menu : SendOnSecond(ev))
    <2>1. PICK S, f, ev : Sends(S, f, ev)
      BY <1>1, SendsOf
    <2>2. QED
      BY <2>1, SendKeepsResolve
  <1>2. CASE CheckEvent
    <2>1. PICK h : Checks(h)
      BY <1>2, ChecksOf
    <2>2. QED
      BY <2>1, CheckKeepsShape, CheckKeepsSecond, CheckKeepsRemovals DEF ResolveInv
  <1>3. CASE NoConflict
    BY <1>3, NoConflictStep
  <1>4. CASE SortControl
    BY <1>4, SortControlStep
  <1>5. CASE CheckFails
    BY <1>5, CheckFailsStep
  <1>6. CASE SortRest
    BY <1>6, SortRestStep
  <1>7. CASE Finish
    BY <1>7, FinishStep
  <1>8. CASE UNCHANGED vars
    BY <1>8, ResolveKept
  <1>9. QED
    BY <1>1, <1>2, <1>3, <1>4, <1>5, <1>6, <1>7, <1>8 DEF Next, Resolve

(* Before resolve is called its invariant holds.                           *)
LEMMA ResolveInit == Init => ResolveInv
  <1> SUFFICES ASSUME Init PROVE ResolveInv
    OBVIOUS
  <1>1. pc = "start" /\ all_conflicted = {} /\ control = {} /\ queue = <<>>
    BY DEF Init
  <1>2. Res!ControlEvents(all_conflicted) = {} /\ queue \in Seq(all_conflicted)
    BY <1>1 DEF Res!ControlEvents
  <1>3. ResolveShape
    BY <1>1, <1>2 DEF ResolveShape
  <1>4. Removals = {}
    BY <1>1 DEF Removals
  <1>5. QED
    BY <1>1, <1>3, <1>4 DEF ResolveInv, Sourced, FirstPass, SecondPass, Failed, WaitInOrder, RemovalsStand

(* The room and resolve keep their invariants: each fork knows its newest  *)
(* state and was accepted event by event; resolve decides the control      *)
(* events first, in the order in which they name each other, and the rest  *)
(* under what they left.                                                   *)
THEOREM MergeInvariant == Spec => [](RoomInv /\ ResolveInv)
  <1>1. Init => RoomInv /\ ResolveInv
    BY RoomInit, ResolveInit
  <1>2. RoomInv /\ ResolveInv /\ [Next]_vars => (RoomInv /\ ResolveInv)'
    BY RoomStep, ResolveStep
  <1>3. QED
    BY <1>1, <1>2, PTL DEF Spec

-----------------------------------------------------------------------------
(* A removed user's other events are not in the result, apart from those   *)
(* the rules let anybody send; a removal that nobody disputes is in it.    *)
THEOREM RemovalsAlwaysWin == Spec => []RemovalsWin
  <1>1. RoomInv /\ ResolveInv => RemovalsWin
    <2> SUFFICES ASSUME RoomInv, ResolveInv PROVE RemovalsWin
      OBVIOUS
    <2>1. RemovedUsersChangeNothing
      <3>1. SUFFICES ASSUME pc = "done", NEW u \in User, NEW r \in Result(Member(u)), RemovedByAnother(r),
                            NEW ev \in Rest, ev.sender = u
                     PROVE  \/ NotAsked(ev)
                            \/ ev.type = "member" /\ (RedeemsInvite(ev) \/ AfterCreate(PrevRec(ev.prev)))
        BY DEF RemovedUsersChangeNothing
      <3>2. Member(u) \in DOMAIN resolved /\ r = events[resolved[Member(u)]]
        BY <3>1 DEF Result
      <3>3. PICK k \in DOMAIN resolved \ Res!Agreed : resolved[k] \notin control /\ ev = events[resolved[k]]
        BY <3>1 DEF Rest, Conflicted
      <3>4. NotRemoved(ev)
        BY <3>1, <3>3 DEF ResolveInv, SecondPass
      <3>5. QED
        BY <3>1, <3>2, <3>4 DEF NotRemoved
    <2>2. RemovalsHold
      <3>1. SUFFICES ASSUME pc = "done", NEW e \in Removals, Undisputed(e)
                     PROVE  \E ev \in Result(Member(events[e].state_key)) : RemovedByAnother(ev)
        BY DEF RemovalsHold
      <3>2. Stands(e) /\ RemovedByAnother(events[e])
        BY <3>1 DEF ResolveInv, RemovalsStand, Removals
      <3>3. events[e] \in Result(Member(events[e].state_key))
        BY <3>2 DEF Stands, Result
      <3>4. QED
        BY <3>2, <3>3
    <2>3. QED
      BY <2>1, <2>2 DEF RemovalsWin
  <1>2. QED
    BY <1>1, MergeInvariant, PTL

(* No event of the second pass is in the result without the level that the *)
(* power levels in the result ask for, whatever its sender had on his own  *)
(* fork.                                                                   *)
THEOREM RestStaysEntitled == Spec => []RestIsEntitled
  <1>1. RoomInv /\ ResolveInv => RestIsEntitled
    <2> SUFFICES ASSUME RoomInv, ResolveInv PROVE RestIsEntitled
      OBVIOUS
    <2>1. ASSUME pc = "done", NEW ev \in Rest, NEW levels \in Result(Levels)
          PROVE  LET st == [StateRec([k \in {Levels} |-> levels]) EXCEPT !.creator = NoKey]
                 IN \/ ev.type = "member" \/ NotAsked(ev)
                    \/ UserLevel(st, ev.sender) >= SendLevel(st, ev)
      <3>1. Levels \in DOMAIN resolved /\ levels = events[resolved[Levels]]
        BY <2>1 DEF Result
      <3>2. PICK k \in DOMAIN resolved \ Res!Agreed : resolved[k] \notin control /\ ev = events[resolved[k]]
        BY <2>1 DEF Rest, Conflicted
      <3>3. Covered(ev)
        BY <2>1, <3>2 DEF ResolveInv, SecondPass
      <3>4. QED
        BY <3>1, <3>3 DEF Covered
    <2>2. QED
      BY <2>1 DEF RestIsEntitled
  <1>2. QED
    BY <1>1, MergeInvariant, PTL

(* Contents stay as they were sent.                                        *)
LEMMA UsersReadStep == RoomInv /\ UsersRead /\ [Next]_vars => UsersRead'
  <1> SUFFICES ASSUME RoomInv, UsersRead, [Next]_vars PROVE UsersRead'
    OBVIOUS
  <1>1. CASE SendHistory \/ (\E ev \in Menu : SendOnFirst(ev)) \/ (\E ev \in Menu : SendOnSecond(ev))
    <2>1. PICK S, f, ev : Sends(S, f, ev)
      BY <1>1, SendsOf
    <2>2. PICK id : id = Len(events) + 1
      OBVIOUS
    <2>3. /\ DOMAIN events = 1 .. Len(events) /\ DOMAIN events' = 1 .. id /\ Len(events) \in Nat
          /\ events'[id] = Sent(f, ev) /\ \A e \in DOMAIN events : events'[e] = events[e]
      BY <2>1, <2>2, SentFacts
    <2>4. \A e \in DOMAIN events' : e \in DOMAIN events \/ e = id
      BY <2>2, <2>3
    <2>5. events'[id].type = ev.type /\ events'[id].content = ev.content /\ ev \in Menu \cup Range(History)
      BY <2>1, <2>3, SentFields DEF Sends
    <2>6. QED
      BY <2>3, <2>4, <2>5, ContentAssumption DEF UsersRead
  <1>2. CASE UNCHANGED room
    BY <1>2 DEF UsersRead, room
  <1>3. QED
    BY <1>1, <1>2 DEF Next, vars, Resolve, NoConflict, SortControl, CheckEvent, CheckFails, SortRest, Finish

(* Merging accepted forks fails only on a third party invite, or on a join *)
(* or an invite that meets unreadable join rules, if the power levels of   *)
(* the room were readable.                                                 *)
THEOREM MergeFailsAsKnown == Spec => []MergeFailuresKnown
  <1>1. RoomInv /\ ResolveInv /\ UsersRead => MergeFailuresKnown
    <2> SUFFICES ASSUME RoomInv, ResolveInv, UsersRead, pc = "error",
                        \A e \in DOMAIN events : events[e].type = "power_levels" => events[e].content.valid
                 PROVE  /\ Answer(Head(queue)) = "error"
                        /\ events[Head(queue)].type = "third_party_invite" \/ MeetsUnreadableRules(Head(queue))
      BY DEF MergeFailuresKnown
    <2>0. \A e \in DOMAIN events : LevelsReadable(events[e])
      <3> SUFFICES ASSUME NEW e \in DOMAIN events, NEW a \in events[e].auth, KeyOf(events[a]) = Levels
                   PROVE  events[a].content.users_valid
        BY DEF LevelsReadable
      <3>1. events[a].type = "power_levels"
        BY DEF KeyOf, Levels
      <3>2. a \in DOMAIN events
        <4>1. events[e].auth \subseteq 1 .. (e - 1)
          BY DEF RoomInv, ChainsClosed
        <4>2. QED
          BY <4>1, IdsKnown
      <3>3. QED
        BY <3>1, <3>2 DEF UsersRead
    <2>1. PICK h : h = Head(queue)
      OBVIOUS
    <2>2. queue # <<>> /\ Answer(h) \in {"error", "panic"} /\ ResolveShape /\ Sourced /\ pc # "start"
      BY <2>0, <2>1 DEF ResolveInv, Failed
    <2>3. h \in all_conflicted
      BY <2>1, <2>2, HeadTail DEF ResolveShape
    <2>4. h \in DOMAIN events
      BY <2>2, <2>3, Known
    <2>5. events[h].sender \in User /\ (events[h].type = "member" => events[h].state_key \in User)
      BY <2>4, AcceptedMember DEF RoomInv, Accepted
    <2>6. /\ Answer(h) = Verdict(CheckedRec(h), events[h], PrevRec(events[h].prev))
          /\ \A u \in User : CheckedRec(h).members[u] # "absent"
          /\ CheckedRec(h).levels # NoLevels =>
               \E l \in DOMAIN events : events[l].type = "power_levels" /\ CheckedRec(h).levels = events[l].content
      BY <2>2, <2>4, CheckedIs
    <2>7. CheckedRec(h).levels # NoLevels => CheckedRec(h).levels.valid
      BY <2>6
    <2>8. events[h].type = "power_levels" => events[h].content.valid
      BY <2>4
    <2>9. /\ Answer(h) = "error"
          /\ \/ events[h].type = "third_party_invite"
             \/ events[h].type = "member" /\ CheckedRec(h).join_rule = "unreadable"
      BY <2>2, <2>5, <2>6, <2>7, <2>8, OnlyTheseFail
    <2>10. QED
      BY <2>1, <2>2, <2>4, <2>9, RulesNotAsked
  <1>2. Init => UsersRead
    BY DEF Init, UsersRead
  <1>3. QED
    BY <1>1, <1>2, UsersReadStep, MergeInvariant, PTL DEF Spec

-----------------------------------------------------------------------------
(* Types.  Before resolve starts, it has no state.                         *)
TypeInv ==
  /\ \A e \in DOMAIN events : KeyOf(events[e]) \in Key
  /\ pc = "start" => clean = <<>> /\ resolved = <<>> /\ checked = <<>>
  /\ checked \in Seq([id : all_conflicted, allowed : BOOLEAN])

(* Every step keeps the types.                                             *)
LEMMA TypeStep == RoomInv /\ ResolveInv /\ TypeInv /\ [Next]_vars => TypeInv'
  <1> SUFFICES ASSUME RoomInv, ResolveInv, TypeInv, [Next]_vars PROVE TypeInv'
    OBVIOUS
  <1>1. CASE SendHistory \/ (\E ev \in Menu : SendOnFirst(ev)) \/ (\E ev \in Menu : SendOnSecond(ev))
    <2>1. PICK S, f, ev : Sends(S, f, ev)
      BY <1>1, SendsOf
    <2>2. PICK id : id = Len(events) + 1
      OBVIOUS
    <2>3. /\ DOMAIN events = 1 .. Len(events) /\ DOMAIN events' = 1 .. id /\ Len(events) \in Nat
          /\ events'[id] = Sent(f, ev) /\ \A e \in DOMAIN events : events'[e] = events[e]
      BY <2>1, <2>2, SentFacts
    <2>4. \A e \in DOMAIN events' : e \in DOMAIN events \/ e = id
      BY <2>2, <2>3
    <2>5. KeyOf(events'[id]) \in Key
      <3>1. KeyOf(events'[id]) = KeyOf(ev) /\ ev \in Menu \cup Range(History)
        BY <2>1, <2>3, SentFields DEF Sends
      <3>2. QED
        BY <3>1, KnownKeys
    <2>6. \A e \in DOMAIN events' : KeyOf(events'[e]) \in Key
      BY <2>3, <2>4, <2>5 DEF TypeInv
    <2>7. UNCHANGED resolution
      BY <2>1 DEF Sends
    <2>8. QED
      BY <2>6, <2>7 DEF TypeInv, resolution
  <1>2. CASE Resolve
    <2>1. events' = events
      BY <1>2, ResolveKeepsRoom DEF room
    <2>2. \A e \in DOMAIN events' : KeyOf(events'[e]) \in Key
      BY <2>1 DEF TypeInv
    <2>3. CASE CheckEvent
      <3>1. /\ pc' = pc /\ pc # "start" /\ queue # <<>> /\ all_conflicted' = all_conflicted
            /\ checked' = Append(checked, [id |-> Head(queue), allowed |-> (Answer(Head(queue)) = "allow")])
        BY <2>3 DEF CheckEvent, Res!Check
      <3>2. Head(queue) \in all_conflicted
        BY <3>1, HeadTail DEF ResolveInv, ResolveShape
      <3>3. [id |-> Head(queue), allowed |-> (Answer(Head(queue)) = "allow")] \in [id : all_conflicted, allowed : BOOLEAN]
        BY <3>2
      <3>4. checked' \in Seq([id : all_conflicted', allowed : BOOLEAN])
        BY <3>1, <3>3 DEF TypeInv
      <3>5. QED
        BY <2>2, <3>1, <3>4 DEF TypeInv
    <2>4. CASE SortControl
      <3>1. pc = "start" /\ pc' # "start" /\ checked' = checked
        BY <2>4 DEF SortControl, Res!SortControl
      <3>2. checked' \in Seq([id : all_conflicted', allowed : BOOLEAN])
        BY <3>1 DEF TypeInv
      <3>3. QED
        BY <2>2, <3>1, <3>2 DEF TypeInv
    <2>5. CASE NoConflict \/ CheckFails \/ SortRest \/ Finish
      <3>1. pc' # "start" /\ checked' = checked /\ all_conflicted' = all_conflicted
        BY <2>5 DEF NoConflict, Res!NoConflict, CheckFails, Res!CheckFails, SortRest, Res!SortRest, Finish, Res!Finish
      <3>2. QED
        BY <2>2, <3>1 DEF TypeInv
    <2>6. QED
      BY <1>2, <2>3, <2>4, <2>5 DEF Resolve
  <1>3. CASE UNCHANGED vars
    BY <1>3 DEF TypeInv, vars, room, resolution
  <1>4. QED
    BY <1>1, <1>2, <1>3 DEF Next

(* The states hold events of the room under their own keys, and resolve    *)
(* queues and logs conflicted events only.                                 *)
THEOREM MergeTypeCorrect == Spec => []TypeOK
  <1>1. Init => TypeInv
    BY DEF Init, TypeInv
  <1>2. RoomInv /\ ResolveInv /\ TypeInv => TypeOK
    <2> SUFFICES ASSUME RoomInv, ResolveInv, TypeInv PROVE TypeOK
      OBVIOUS
    <2>1. DOMAIN events \subseteq EventId
      BY IdsKnown
    <2>2. \A i \in 1 .. 2 : \A k \in DOMAIN forks[i] :
            forks[i][k] \in DOMAIN events /\ KeyOf(events[forks[i][k]]) = k
      BY DEF RoomInv, RoomShape
    <2>3. \A k \in DOMAIN resolved : resolved[k] \in DOMAIN events /\ KeyOf(events[resolved[k]]) = k
      BY ResolvedIs DEF ResolveInv, TypeInv
    <2>4. \A k \in DOMAIN clean : clean[k] \in DOMAIN events /\ KeyOf(events[clean[k]]) = k
      <3>1. CASE pc = "start"
        BY <3>1 DEF TypeInv
      <3>2. CASE pc # "start"
        <4>1. clean = [k \in Res!Agreed |-> forks[1][k]]
          BY <3>2 DEF ResolveInv, ResolveShape
        <4>2. QED
          BY <2>2, <4>1, AgreedIs
      <3>3. QED
        BY <3>1, <3>2
    <2>5. ASSUME NEW state, \A k \in DOMAIN state : state[k] \in DOMAIN events /\ KeyOf(events[state[k]]) = k
          PROVE  DOMAIN state \subseteq Key /\ \A k \in DOMAIN state : KeyOf(events[state[k]]) = k
      BY <2>5 DEF TypeInv
    <2>6. \A state \in {forks[1], forks[2], clean, resolved} :
            DOMAIN state \subseteq Key /\ \A k \in DOMAIN state : KeyOf(events[state[k]]) = k
      BY <2>2, <2>3, <2>4, <2>5
    <2>7. QED
      BY <2>1, <2>6 DEF TypeOK, TypeInv, ResolveInv, ResolveShape
  <1>3. QED
    BY <1>1, <1>2, MergeInvariant, TypeStep, PTL DEF Spec

-----------------------------------------------------------------------------
(***************************************************************************)
(* Merging two forks is resolve as StateRes describes it, so that what is  *)
(* proved of StateRes holds of merges under the real rules.                *)
(***************************************************************************)
(* StateRes as ResolveAuth uses it, with its theorems.                     *)
SRP == INSTANCE StateResProofs WITH
  PowerLevels     <- Levels,
  Event           <- {ev \in [key : Key, power : BOOLEAN, levels_readable : BOOLEAN, auth_events : SUBSET EventId] :
                        ev.key = Levels => ev.power},
  store           <- [e \in DOMAIN events |-> Outline(events[e])],
  state_sets      <- forks,
  auth_chain_sets <- AuthChains,
  version_known   <- (\E v \in 1 .. 6 : RoomVersion = VersionFlags(v))

(* What StateRes assumes of its constants holds here.                      *)
LEMMA ResolveAssumptions ==
  SRP!EventIdAssumption /\ SRP!KeyAssumption /\ SRP!EventAssumption /\ SRP!PowerAssumption
<1>1. SRP!EventIdAssumption
  BY IdAssumption DEF SRP!EventIdAssumption, IsFiniteSet, SRP!IsFiniteSet
<1>2. SRP!KeyAssumption /\ SRP!EventAssumption /\ SRP!PowerAssumption
  BY LevelsKey DEF SRP!KeyAssumption, SRP!EventAssumption, SRP!PowerAssumption
<1>3. QED
  BY <1>1, <1>2

(* The same orders in both instances of StateRes, ...                      *)
LEMMA SameOrders == \A S : SRP!Orders(S) = Res!Orders(S)
  BY Zenon DEF SRP!Orders, Res!Orders, SRP!Range, Res!Range, SRP!IsInjective, Res!IsInjective,
     SRP!Cardinality, Res!Cardinality

(* ... the same inputs and what is computed from them, ...                 *)
LEMMA SameInputs ==
  /\ SRP!inputs = Res!inputs /\ SRP!Agreed = Res!Agreed /\ SRP!Keys = Res!Keys
  /\ SRP!FullConflictedSet = Res!FullConflictedSet
  /\ SRP!ControlEvents(SRP!FullConflictedSet) = Res!ControlEvents(Res!FullConflictedSet)
  /\ SRP!PowerOrders(SRP!FullConflictedSet) = Res!PowerOrders(Res!FullConflictedSet)
  /\ SRP!EventsToResolve = Res!EventsToResolve
  /\ \A e : SRP!ChainKnown(e) <=> Res!ChainKnown(e)
<1>1. SRP!inputs = Res!inputs
  BY Zenon DEF SRP!inputs, Res!inputs
<1>2. SRP!Keys = Res!Keys
  BY Zenon DEF SRP!Keys, Res!Keys
<1>3. SRP!Agreed = Res!Agreed
  BY <1>2, Zenon DEF SRP!Agreed, Res!Agreed
<1>4. SRP!FullConflictedSet = Res!FullConflictedSet
  <2>1. SRP!Conflicting = Res!Conflicting
    BY Zenon DEF SRP!Conflicting, Res!Conflicting, SRP!Agreed, Res!Agreed, SRP!Keys, Res!Keys
  <2>2. SRP!AuthChainDiff = Res!AuthChainDiff
    BY Zenon DEF SRP!AuthChainDiff, Res!AuthChainDiff, SRP!Range, Res!Range
  <2>3. QED
    BY <2>1, <2>2, Zenon DEF SRP!FullConflictedSet, Res!FullConflictedSet
<1>. DEFINE C == Res!FullConflictedSet
<1>. HIDE DEF C
<1>5. SRP!ControlEvents(C) = Res!ControlEvents(C)
  BY Zenon DEF SRP!ControlEvents, Res!ControlEvents, SRP!AuthClosed, Res!AuthClosed, SRP!AuthWithin, Res!AuthWithin
<1>7. SRP!PowerOrders(C) = Res!PowerOrders(C)
  BY <1>5, SameOrders, Zenon DEF SRP!PowerOrders, Res!PowerOrders, SRP!AuthWithin, Res!AuthWithin
<1>8. SRP!EventsToResolve = Res!EventsToResolve
  BY DEF SRP!EventsToResolve, Res!EventsToResolve
<1>9. \A e : SRP!ChainKnown(e) <=> Res!ChainKnown(e)
  BY Zenon DEF SRP!ChainKnown, Res!ChainKnown
<1>10. QED
  BY <1>1, <1>2, <1>3, <1>4, <1>5, <1>7, <1>8, <1>9, Zenon DEF C

(* Every step of a merge is a step of resolve.                             *)
LEMMA MergeSteps == Resolve => SRP!Next
<1>1. CASE NoConflict
  <2>1. Res!NoConflict
    BY <1>1 DEF NoConflict
  <2>2. SRP!NoConflict
    BY <2>1, SameInputs, Zenon DEF Res!inputs, SRP!inputs, Res!NoConflict, SRP!NoConflict, Res!Separated, SRP!Separated
  <2>3. QED
    BY <2>2 DEF SRP!Next
<1>2. CASE SortControl
  <2>1. Res!SortControl
    BY <1>2 DEF SortControl
  <2>2. SRP!SortControl
    BY <2>1, SameInputs, Zenon DEF Res!inputs, SRP!inputs, Res!SortControl, SRP!SortControl, Res!Separated, SRP!Separated
  <2>3. QED
    BY <2>2 DEF SRP!Next
<1>3. CASE CheckEvent
  <2>. DEFINE allowed == Answer(Head(queue)) = "allow"
  <2>1. Res!Check(allowed) /\ allowed \in BOOLEAN
    BY <1>3 DEF CheckEvent
  <2>. HIDE DEF allowed
  <2>2. SRP!Check(allowed)
    BY <2>1, SameInputs, Zenon DEF Res!inputs, SRP!inputs, Res!Check, SRP!Check, Res!NoStateEvent, SRP!NoStateEvent, Res!InsertIfAllowed,
       SRP!InsertIfAllowed, Res!Insert, SRP!Insert
  <2>3. QED
    BY <2>1, <2>2 DEF SRP!Next
<1>4. CASE CheckFails
  <2>1. SRP!CheckFails
    BY <1>4, SameInputs, Zenon DEF Res!inputs, SRP!inputs, CheckFails, Res!CheckFails, SRP!CheckFails
  <2>2. QED
    BY <2>1 DEF SRP!Next
<1>5. CASE SortRest
  <2>1. Res!SortRest
    BY <1>5 DEF SortRest
  <2>2. SRP!SortRest
    BY <2>1, SameInputs, SameOrders, Zenon DEF Res!inputs, SRP!inputs, Res!SortRest, SRP!SortRest
  <2>3. QED
    BY <2>2 DEF SRP!Next
<1>6. CASE Finish
  <2>1. SRP!Finish
    BY <1>6, SameInputs, Zenon DEF Res!inputs, SRP!inputs, Finish, Res!Finish, SRP!Finish, Res!Extended, SRP!Extended
  <2>2. QED
    BY <2>1 DEF SRP!Next
<1>7. QED
  BY <1>1, <1>2, <1>3, <1>4, <1>5, <1>6 DEF Resolve

-----------------------------------------------------------------------------
(* Until resolve is called the forks are maps from keys to events, and     *)
(* nothing is resolved.                                                    *)
BeforeMerge ==
  /\ forks \in [1 .. 2 -> SRP!PartialMap(Key, EventId)]
  /\ pc = "start" => all_conflicted = {} /\ control = {} /\ queue = <<>>

(* A state map stays one with an event put into it.                        *)
LEMMA PutIsMap ==
  ASSUME NEW m \in SRP!PartialMap(Key, EventId), NEW k \in Key, NEW e \in EventId
  PROVE  Put(m, k, e) \in SRP!PartialMap(Key, EventId)
<1>1. PICK ks \in SUBSET Key : m \in [ks -> EventId]
  BY DEF SRP!PartialMap
<1>2. Put(m, k, e) \in [ks \cup {k} -> EventId]
  BY <1>1 DEF Put
<1>3. ks \cup {k} \in SUBSET Key
  BY <1>1
<1>4. QED
  BY <1>2, <1>3 DEF SRP!PartialMap

(* In any set of events of the room one has no auth event in it: the first.*)
LEMMA AuthIsAcyclic ==
  ASSUME RoomInv, NEW S \in SUBSET DOMAIN events, \A e \in S : events[e].auth \cap S # {}
  PROVE  S = {}
<1>. SUFFICES ASSUME S # {} PROVE FALSE
  OBVIOUS
<1>. DEFINE R == OpToRel(<, Nat)
<1>1. \A m, n \in Nat : <<m, n>> \in R <=> m < n
  BY DEF OpToRel
<1>2. IsWellFoundedOn(R, Nat)
  BY NatLessThanWellFounded
<1>3. DOMAIN events = 1 .. Len(events) /\ Len(events) \in Nat
  BY IdsKnown
<1>4. S \subseteq Nat
  BY <1>3
<1>. HIDE DEF R
<1>5. PICK n \in S : \A m \in S : ~(<<m, n>> \in R)
  BY <1>2, <1>4, WFMin
<1>6. PICK a \in events[n].auth : a \in S
  BY <1>5
<1>7. a \in 1 .. (n - 1)
  BY <1>5, <1>6 DEF RoomInv, ChainsClosed
<1>8. a < n
  BY <1>4, <1>5, <1>7
<1>9. QED
  BY <1>1, <1>4, <1>5, <1>6, <1>8

(* A function on 1 .. n is a sequence.                                     *)
LEMMA FunctionIsSeq ==
  ASSUME NEW T, NEW n \in Nat, NEW f \in [1 .. n -> T]
  PROVE  f \in Seq(T)
  OBVIOUS

(* A room whose merge has not begun is an initial state of StateRes.       *)
LEMMA StartIsInitial ==
  ASSUME RoomInv, TypeInv, BeforeMerge, pc = "start"
  PROVE  SRP!Init
<1>. DEFINE store == [e \in DOMAIN events |-> Outline(events[e])]
            Event == {ev \in [key : Key, power : BOOLEAN, levels_readable : BOOLEAN, auth_events : SUBSET EventId] :
                        ev.key = Levels => ev.power}
            known == (\E v \in 1 .. 6 : RoomVersion = VersionFlags(v))
<1>1. DOMAIN events \subseteq EventId /\ DOMAIN events = 1 .. Len(events) /\ Len(events) \in Nat
  BY IdsKnown
<1>2. \A e \in DOMAIN events : events[e].auth \subseteq EventId /\ events[e].chain \subseteq EventId
  <2>1. \A e \in DOMAIN events : 1 .. (e - 1) \subseteq DOMAIN events
    BY <1>1
  <2>2. QED
    BY <1>1, <2>1 DEF RoomInv, ChainsClosed
<1>3. ASSUME NEW e \in DOMAIN events PROVE Outline(events[e]) \in Event
  <2>1. KeyOf(events[e]) \in Key /\ events[e].auth \in SUBSET EventId
    BY <1>2 DEF TypeInv
  <2>2. KeyOf(events[e]) = Levels => IsPower(events[e])
    BY DEF KeyOf, Levels, IsPower
  <2>3. IsPower(events[e]) \in BOOLEAN /\ LevelsReadable(events[e]) \in BOOLEAN
    BY DEF IsPower, LevelsReadable
  <2>4. QED
    BY <2>1, <2>2, <2>3 DEF Outline
<1>4. store \in [DOMAIN events -> Event] /\ DOMAIN events \in SUBSET EventId
  BY <1>1, <1>3
<1>5. {S \in SUBSET DOMAIN store : \A e \in S : store[e].auth_events \cap S # {}} = {{}}
  <2>1. DOMAIN store = DOMAIN events /\ \A e \in DOMAIN events : store[e].auth_events = events[e].auth
    BY DEF Outline
  <2>. HIDE DEF store
  <2>2. ASSUME NEW S \in SUBSET DOMAIN store, \A e \in S : store[e].auth_events \cap S # {} PROVE S = {}
    <3>1. S \in SUBSET DOMAIN events /\ \A e \in S : events[e].auth \cap S # {}
      BY <2>1, <2>2
    <3>2. QED
      BY <3>1, AuthIsAcyclic
  <2>3. QED
    BY <2>2
<1>6. forks \in Seq(SRP!PartialMap(Key, EventId))
  <2>1. 2 \in Nat /\ forks \in [1 .. 2 -> SRP!PartialMap(Key, EventId)]
    BY DEF BeforeMerge
  <2>. DEFINE T == SRP!PartialMap(Key, EventId)
  <2>. HIDE DEF T
  <2>2. 2 \in Nat /\ forks \in [1 .. 2 -> T]
    BY <2>1, Zenon DEF T
  <2>3. forks \in Seq(T)
    BY <2>2, FunctionIsSeq
  <2>4. QED
    BY <2>3 DEF T
<1>7. \A i \in DOMAIN forks : \A k \in DOMAIN forks[i] :
        forks[i][k] \in DOMAIN store => store[forks[i][k]].key = k
  BY DEF RoomInv, RoomShape, Outline
<1>8. AuthChains \in Seq(SUBSET EventId)
  <2>1. ASSUME NEW i \in 1 .. 2 PROVE UNION {events[e].chain : e \in Range(forks[i])} \in SUBSET EventId
    <3>1. Range(forks[i]) \subseteq DOMAIN events
      BY DEF RoomInv, RoomShape, Range
    <3>2. QED
      BY <1>2, <3>1
  <2>2. 2 \in Nat /\ AuthChains \in [1 .. 2 -> SUBSET EventId]
    BY <2>1 DEF AuthChains
  <2>3. QED
    BY <2>2, FunctionIsSeq
<1>9. known \in BOOLEAN
  OBVIOUS
<1>10. clean = <<>> /\ all_conflicted = {} /\ control = {} /\ queue = <<>> /\ checked = <<>> /\ resolved = <<>>
  BY DEF TypeInv, BeforeMerge
<1>11. QED
  BY <1>4, <1>5, <1>6, <1>7, <1>8, <1>9, <1>10, Zenon DEF SRP!Init

(* No step changes that.                                                   *)
LEMMA BeforeMergeStep == RoomInv /\ BeforeMerge /\ [Next]_vars => BeforeMerge'
<1>. SUFFICES ASSUME RoomInv, BeforeMerge, [Next]_vars PROVE BeforeMerge'
  OBVIOUS
<1>. DEFINE T == SRP!PartialMap(Key, EventId)
<1>1. CASE SendHistory \/ (\E ev \in Menu : SendOnFirst(ev)) \/ (\E ev \in Menu : SendOnSecond(ev))
  <2>1. PICK S, f, ev : Sends(S, f, ev)
    BY <1>1, SendsOf
  <2>2. PICK id : id = Len(events) + 1
    OBVIOUS
  <2>3. id \in EventId
    <3>1. RoomInv'
      BY RoomStep
    <3>2. id \in Nat \ {0} /\ Len(events') = id
      BY <2>1, <2>2, SentFacts
    <3>3. id <= Len(History) + MaxSent[1] + MaxSent[2]
      BY <3>1, <3>2 DEF RoomInv, Forked
    <3>4. Len(History) \in Nat /\ MaxSent[1] \in Nat /\ MaxSent[2] \in Nat
      BY HistoryAssumption, BoundAssumption
    <3>5. QED
      BY <3>2, <3>3, <3>4, BoundAssumption
  <2>4. KeyOf(ev) \in Key
    BY <2>1, KnownKeys DEF Sends
  <2>5. forks' = [i \in 1 .. 2 |-> IF i \in S THEN Put(forks[i], KeyOf(ev), id) ELSE forks[i]]
    BY <2>1, <2>2 DEF Sends
  <2>6. ASSUME NEW i \in 1 .. 2 PROVE Put(forks[i], KeyOf(ev), id) \in T /\ forks[i] \in T
    <3>1. forks[i] \in T
      BY DEF BeforeMerge
    <3>2. QED
      BY <2>3, <2>4, <3>1, PutIsMap
  <2>. HIDE DEF T
  <2>7. forks' \in [1 .. 2 -> T]
    BY <2>5, <2>6
  <2>8. UNCHANGED resolution
    BY <2>1 DEF Sends
  <2>9. QED
    BY <2>7, <2>8 DEF BeforeMerge, resolution, T
<1>2. CASE Resolve
  <2>1. forks' = forks
    BY <1>2, ResolveKeepsRoom DEF room
  <2>2. pc' # "start"
    BY <1>2 DEF Resolve, NoConflict, SortControl, CheckEvent, CheckFails, SortRest, Finish, Res!NoConflict, Res!SortControl,
       Res!Check, Res!CheckFails, Res!SortRest, Res!Finish
  <2>3. QED
    BY <2>1, <2>2 DEF BeforeMerge
<1>3. CASE UNCHANGED vars
  BY <1>3 DEF BeforeMerge, vars, room, resolution
<1>4. QED
  BY <1>1, <1>2, <1>3 DEF Next

(* ... the same initial states, ...                                        *)
LEMMA SameInit == SRP!Init <=> Res!Init
  BY Zenon DEF SRP!Init, Res!Init, SRP!PartialMap, Res!PartialMap

(* ... and the same properties.                                            *)
LEMMA SameProperties ==
  /\ SRP!UnconflictedStateKept <=> Res!UnconflictedStateKept
  /\ SRP!LastAllowedWins <=> Res!LastAllowedWins
  /\ SRP!EachCheckedOnce <=> Res!EachCheckedOnce
<1>1. SRP!UnconflictedStateKept <=> Res!UnconflictedStateKept
  BY SameInputs, Zenon DEF SRP!UnconflictedStateKept, Res!UnconflictedStateKept
<1>2. SRP!LastAllowedWins <=> Res!LastAllowedWins
  BY SameInputs, Zenon DEF SRP!LastAllowedWins, Res!LastAllowedWins, SRP!IsLastAllowed, Res!IsLastAllowed
<1>3. SRP!EachCheckedOnce <=> Res!EachCheckedOnce
  BY SameInputs, Zenon DEF SRP!EachCheckedOnce, Res!EachCheckedOnce
<1>4. QED
  BY <1>1, <1>2, <1>3

(* As long as a merge has not begun, the room is an initial state of       *)
(* resolve.                                                                *)
LEMMA AlwaysInitial == Spec => [](pc = "start" => SRP!Init)
<1>1. Init => TypeInv /\ BeforeMerge
  <2>. SUFFICES ASSUME Init PROVE TypeInv /\ BeforeMerge
    OBVIOUS
  <2>1. TypeInv
    BY DEF Init, TypeInv
  <2>2. <<>> \in SRP!PartialMap(Key, EventId)
    <3>1. <<>> \in [{} -> EventId] /\ {} \in SUBSET Key
      OBVIOUS
    <3>2. QED
      BY <3>1 DEF SRP!PartialMap
  <2>3. forks \in [1 .. 2 -> SRP!PartialMap(Key, EventId)]
    <3>. DEFINE T == SRP!PartialMap(Key, EventId)
    <3>1. <<>> \in T
      BY <2>2
    <3>. HIDE DEF T
    <3>2. forks \in [1 .. 2 -> T]
      BY <3>1 DEF Init
    <3>3. QED
      BY <3>2 DEF T
  <2>4. BeforeMerge
    BY <2>3 DEF Init, BeforeMerge
  <2>5. QED
    BY <2>1, <2>4
<1>2. RoomInv /\ TypeInv /\ BeforeMerge => (pc = "start" => SRP!Init)
  BY StartIsInitial
<1>3. QED
  BY <1>1, <1>2, MergeInvariant, TypeStep, BeforeMergeStep, PTL DEF Spec

(* A step of the room is no step of resolve, or one that StateRes has.     *)
LEMMA NextIsResolve == [Next]_vars => [SRP!Next]_(SRP!vars) \/ (pc = "start" /\ pc' = "start")
<1>. SUFFICES ASSUME [Next]_vars PROVE [SRP!Next]_(SRP!vars) \/ (pc = "start" /\ pc' = "start")
  OBVIOUS
<1>1. CASE SendHistory \/ (\E ev \in Menu : SendOnFirst(ev)) \/ (\E ev \in Menu : SendOnSecond(ev))
  BY <1>1 DEF SendHistory, SendOnFirst, SendOnSecond, Send, resolution
<1>2. CASE Resolve
  BY <1>2, MergeSteps
<1>3. CASE UNCHANGED vars
  <2>1. events' = events /\ forks' = forks /\ UNCHANGED resolution
    BY <1>3 DEF vars, room
  <2>2. AuthChains' = AuthChains
    BY <2>1, Zenon DEF AuthChains
  <2>3. UNCHANGED <<clean, all_conflicted, control, queue, checked, resolved, pc>>
    BY <2>1 DEF resolution
  <2>4. UNCHANGED SRP!inputs
    <3>1. [e \in DOMAIN events |-> Outline(events[e])]' = [e \in DOMAIN events |-> Outline(events[e])]
      BY <2>1 DEF Outline, LevelsReadable
    <3>2. QED
      BY <2>1, <2>2, <3>1, Zenon DEF SRP!inputs
  <2>5. UNCHANGED SRP!vars
    BY <2>3, <2>4 DEF SRP!vars
  <2>6. QED
    BY <2>5
<1>4. QED
  BY <1>1, <1>2, <1>3 DEF Next

(* The invariant of StateRes is one of ResolveAuth.                        *)
LEMMA MergeResolves == Spec => []SRP!InvSR
<1>. DEFINE Started == pc = "start" => SRP!InvSR
<1>1. (pc = "start" => SRP!Init) => Started
  BY ResolveAssumptions, SRP!ResolveStart
<1>2. SRP!InvSR /\ [Next]_vars /\ Started' => SRP!InvSR'
  BY NextIsResolve, ResolveAssumptions, SRP!ResolveStep
<1>3. Init /\ Started => SRP!InvSR
  BY DEF Init
<1>. HIDE DEF Started
<1>4. QED
  BY <1>1, <1>2, <1>3, AlwaysInitial, PTL DEF Spec

(* Before the merge begins, the room is an initial state of StateRes, and  *)
(* every step of the merge is one of its steps: resolve under the real     *)
(* rules of auth_check is resolve as StateRes describes it.                *)
THEOREM MergeIsResolve ==
  Spec => /\ [](pc = "start" => Res!Init)
          /\ [][Res!Next \/ (pc = "start" /\ pc' = "start")]_vars
<1>1. (pc = "start" => SRP!Init) => (pc = "start" => Res!Init)
  BY SameInit
<1>2. [Next]_vars => [Res!Next \/ (pc = "start" /\ pc' = "start")]_vars
  <2>. SUFFICES ASSUME Next PROVE Res!Next \/ (pc = "start" /\ pc' = "start")
    OBVIOUS
  <2>1. CASE SendHistory \/ (\E ev \in Menu : SendOnFirst(ev)) \/ (\E ev \in Menu : SendOnSecond(ev))
    BY <2>1 DEF SendHistory, SendOnFirst, SendOnSecond, Send, resolution
  <2>2. CASE Resolve
    BY <2>2 DEF Resolve, NoConflict, SortControl, CheckEvent, CheckFails, SortRest, Finish, Res!Next
  <2>3. QED
    BY <2>1, <2>2 DEF Next
<1>3. QED
  BY <1>1, <1>2, AlwaysInitial, PTL DEF Spec

(* What StateRes promises therefore holds of merges: what the forks agree  *)
(* on is kept, a conflicted key goes to the event that auth_check allowed  *)
(* last, no conflicted event is checked twice, and none with a known auth  *)
(* chain is passed over.                                                   *)
THEOREM MergeKeepsPromises ==
  Spec => [](Res!UnconflictedStateKept /\ Res!LastAllowedWins /\ Res!EachCheckedOnce)
<1>1. SRP!InvSR => Res!UnconflictedStateKept /\ Res!LastAllowedWins /\ Res!EachCheckedOnce
  BY SameProperties DEF SRP!InvSR
<1>2. QED
  BY <1>1, MergeResolves, PTL

(* The power levels that the second pass of a merge is ordered by are      *)
(* those of its result.                                                    *)
THEOREM MergeLevelsStaySettled ==
  Spec => [][pc = "rest" /\ pc' = "rest" => Res!PowerLevelsOf(resolved') = Res!PowerLevelsOf(resolved)]_vars
<1>1. SRP!InvSR /\ [Next]_vars =>
        [pc = "rest" /\ pc' = "rest" => Res!PowerLevelsOf(resolved') = Res!PowerLevelsOf(resolved)]_vars
  <2>. SUFFICES ASSUME SRP!InvSR, Next, pc = "rest", pc' = "rest"
                PROVE  Res!PowerLevelsOf(resolved') = Res!PowerLevelsOf(resolved)
    OBVIOUS
  <2>1. Resolve
    BY DEF Next, SendHistory, SendOnFirst, SendOnSecond, Send
  <2>2. SRP!Next
    BY <2>1, MergeSteps
  <2>3. SRP!PowerLevelsOf(resolved') = SRP!PowerLevelsOf(resolved)
    BY <2>2, ResolveAssumptions, SRP!SettledStep
  <2>4. \A state : SRP!PowerLevelsOf(state) = Res!PowerLevelsOf(state)
    BY Zenon DEF SRP!PowerLevelsOf, Res!PowerLevelsOf
  <2>5. QED
    BY <2>3, <2>4
<1>2. QED
  BY <1>1, MergeResolves, PTL DEF Spec
=============================================================================
